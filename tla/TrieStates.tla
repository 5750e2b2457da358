----------------------------- MODULE TrieStates -----------------------------
(***************************************************************************)
(* What a state is, for the store: a version of every trie path.  The      *)
(* value of a path is named by the block that wrote it last, so two        *)
(* branches never agree on a path by accident.  RootKey is the path of the *)
(* trie's root node: every block rewrites it (on L1 the system contracts   *)
(* change the state root in every block), and its value identifies the     *)
(* state root.                                                             *)
(***************************************************************************)
EXTENDS ForkChoiceRules

CONSTANTS
    Key,        \* trie paths (and the flat-KV leaves that shadow them)
    RootKey,    \* the root node's path
    Writes      \* the paths each block's execution rewrites

ASSUME WritesAssumption ==
    /\ RootKey \in Key
    /\ Writes \in [Block -> SUBSET Key]
    /\ Writes[Genesis] = Key
    /\ \A b \in Block : RootKey \in Writes[b]

\* The blocks of S that wrote k, and the highest block of a chain.
Writers(S, k) == {a \in S : k \in Writes[a]}
Highest(S) == CHOOSE a \in S : \A c \in S : Number[c] <= Number[a]

\* State[b], the state after executing b: every path as b's ancestry left it.
State == [b \in Block |-> [k \in Key |-> Highest(Writers(Anc[b], k))]]

\* An absent diff: no path is in it.
NoDiff == [k \in Key |-> NoBlock]
Diff == [Key -> Block \cup {NoBlock}]

\* A chain of blocks' writes laid over a state: the highest writer wins.
WritesOver(chain, state) ==
    [k \in Key |-> LET writers == Writers(chain, k)
                   IN IF writers = {} THEN state[k] ELSE Highest(writers)]

\* A diff laid over a state: the diff wins where it has the path.
Over(diff, state) ==
    [k \in Key |-> IF diff[k] # NoBlock THEN diff[k] ELSE state[k]]
=============================================================================
