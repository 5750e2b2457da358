-------------------------- MODULE MCFkvGenerator --------------------------
(* Instances of FkvGenerator.                                              *)
EXTENDS FkvGenerator

\* Every set of leaves; the values tell old from new and start out the same.
MCStoredTries == {t \in [Key -> 0 .. 1] : \A k \in Key : t[k] = Leaf(t, k)}
=============================================================================
