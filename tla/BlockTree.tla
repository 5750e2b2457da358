----------------------------- MODULE BlockTree -----------------------------
(***************************************************************************)
(* The tree of blocks every other module talks about: a header names its   *)
(* parent and carries a number (crates/common/types/block.rs, BlockHeader).*)
(* The tree is a constant; what a node knows of it, executes, stores and   *)
(* makes canonical is the state of the modules that extend this one.       *)
(*                                                                         *)
(* Anc[b] is the set of b's ancestors, b included.  It is a constant with  *)
(* named assumptions instead of a recursive definition, so that the proofs *)
(* can use the facts below without induction; TLC evaluates every          *)
(* assumption on the trees the runs use.                                   *)
(***************************************************************************)
EXTENDS Integers, FiniteSets

CONSTANTS
    Block,      \* the blocks a node may ever hear of, genesis included
    Genesis,    \* the block at height 0, canonical from the start
    NoBlock,    \* "no block": an absent hash, an empty table cell
    Parent,     \* header.parent_hash, as a function on Block
    Number,     \* header.number
    Anc         \* ancestors, the block itself included

\* The tree has a root, and NoBlock (the zero hash) is not a block.
ASSUME GenesisAssumption ==
    /\ Genesis \in Block
    /\ NoBlock \notin Block
    /\ Number \in [Block -> Nat]
    /\ Parent \in [Block -> Block \cup {NoBlock}]
    /\ Number[Genesis] = 0
    /\ Parent[Genesis] = NoBlock

\* Block validation accepts only parent.number + 1 (validate_block_header).
ASSUME ParentAssumption ==
    \A b \in Block \ {Genesis} :
        /\ Parent[b] \in Block
        /\ Number[b] = Number[Parent[b]] + 1

\* Anc is the reflexive and transitive closure of Parent.
ASSUME AncestorAssumption ==
    /\ Anc \in [Block -> SUBSET Block]
    /\ Anc[Genesis] = {Genesis}
    /\ \A b \in Block \ {Genesis} : Anc[b] = {b} \cup Anc[Parent[b]]

\* What follows from it by induction on the height.
ASSUME AncestryAssumption ==
    \A b \in Block :
        /\ Genesis \in Anc[b]
        /\ \A a \in Anc[b] :
              /\ Anc[a] \subseteq Anc[b]
              /\ Number[a] <= Number[b]
              /\ \A c \in Anc[b] : /\ Number[a] = Number[c] => a = c
                                   /\ Number[a] <= Number[c] => a \in Anc[c]
        /\ \A n \in 0..Number[b] : \E a \in Anc[b] : Number[a] = n

\* Any two blocks have a last common ancestor.
ASSUME MeetAssumption ==
    \A b, c \in Block : \E m \in Block : Anc[b] \cap Anc[c] = Anc[m]

\* The heights a table keyed by block number can have cells for.
Height == {Number[b] : b \in Block}

\* Heights are natural numbers, so every set of them has a lowest one.
ASSUME LowestAssumption ==
    \A S \in SUBSET Height : S # {} => \E n \in S : \A m \in S : n <= m
=============================================================================
