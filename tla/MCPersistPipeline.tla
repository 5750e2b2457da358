------------------------- MODULE MCPersistPipeline -------------------------
(* Instances of PersistPipeline: a main chain and a sibling of its first   *)
(* block.                                                                  *)
EXTENDS PersistPipeline, TLC

CONSTANT none

MCBlock == {"G", "A1", "A2", "A3", "B1"}
ShortBlock == MCBlock \ {"A3"}

TreeParent == "G" :> none @@ "A1" :> "G" @@ "A2" :> "A1" @@ "A3" :> "A2" @@ "B1" :> "G"
TreeNumber == "G" :> 0 @@ "A1" :> 1 @@ "A2" :> 2 @@ "A3" :> 3 @@ "B1" :> 1
TreeAnc == "G" :> {"G"} @@ "A1" :> {"G", "A1"} @@ "A2" :> {"G", "A1", "A2"}
           @@ "A3" :> {"G", "A1", "A2", "A3"} @@ "B1" :> {"G", "B1"}

MCParent == [b \in Block |-> TreeParent[b]]
MCNumber == [b \in Block |-> TreeNumber[b]]
MCAnc == [b \in Block |-> TreeAnc[b]]
=============================================================================
