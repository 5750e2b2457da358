-------------------------- MODULE MCAlignedProving --------------------------
EXTENDS AlignedProving

CONSTANTS p1, p2

MCTypeOf == [p \in Provers |-> "SP1"]
=============================================================================
