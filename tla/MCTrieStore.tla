---------------------------- MODULE MCTrieStore ----------------------------
(* Instances of TrieStore: two chains from genesis, whose blocks rewrite   *)
(* different paths.                                                        *)
EXTENDS TrieStore, TLC

CONSTANT none

MCBlock == {"G", "A1", "A2", "A3", "B1", "B2"}
\* One block less on one side.
ShortBlock == MCBlock \ {"A3"}
LongBlock == MCBlock \ {"B2"}
\* The smallest tree with a deep reorg: one committed block, one sibling.
TinyBlock == {"G", "A1", "A2", "B1"}

TreeParent == "G" :> none @@ "A1" :> "G" @@ "A2" :> "A1" @@ "A3" :> "A2"
              @@ "B1" :> "G" @@ "B2" :> "B1"
TreeNumber == "G" :> 0 @@ "A1" :> 1 @@ "A2" :> 2 @@ "A3" :> 3
              @@ "B1" :> 1 @@ "B2" :> 2
TreeAnc == "G" :> {"G"} @@ "A1" :> {"G", "A1"} @@ "A2" :> {"G", "A1", "A2"}
           @@ "A3" :> {"G", "A1", "A2", "A3"}
           @@ "B1" :> {"G", "B1"} @@ "B2" :> {"G", "B1", "B2"}
TreeWrites == "G" :> {"root", "x", "y"} @@ "A1" :> {"root", "x"}
              @@ "A2" :> {"root", "y"} @@ "A3" :> {"root", "x"}
              @@ "B1" :> {"root"} @@ "B2" :> {"root", "x"}

MCParent == [b \in Block |-> TreeParent[b]]
MCNumber == [b \in Block |-> TreeNumber[b]]
MCAnc == [b \in Block |-> TreeAnc[b]]
MCWrites == [b \in Block |-> TreeWrites[b]]

\* Any head, with the same block as safe and finalized or neither.
MCFcState == {[head |-> h, safe |-> f, fin |-> f] :
                h \in Block, f \in Block \cup {NoBlock}}
HeadsOnly == {fc \in MCFcState : fc.fin = NoBlock}
\* Heads that skip the main chain's first block, and the same with that block
\* finalized once.
SkippingHeads == {fc \in HeadsOnly : fc.head # "A1"}
A1Finalized == SkippingHeads \cup {fc \in MCFcState : fc.fin = "A1" /\ fc.head = "A3"}
=============================================================================
