---------------------------- MODULE MCForkChoice ----------------------------
(* Instances of ForkChoice: two chains from genesis, A one block longer.    *)
EXTENDS ForkChoice, TLC

CONSTANTS c1, c2, none

MCBlock == {"G", "A1", "A2", "A3", "B1", "B2"}
MCParent == "G" :> none @@ "A1" :> "G" @@ "A2" :> "A1" @@ "A3" :> "A2"
            @@ "B1" :> "G" @@ "B2" :> "B1"
MCNumber == "G" :> 0 @@ "A1" :> 1 @@ "A2" :> 2 @@ "A3" :> 3
            @@ "B1" :> 1 @@ "B2" :> 2
MCAnc == "G" :> {"G"} @@ "A1" :> {"G", "A1"} @@ "A2" :> {"G", "A1", "A2"}
         @@ "A3" :> {"G", "A1", "A2", "A3"}
         @@ "B1" :> {"G", "B1"} @@ "B2" :> {"G", "B1", "B2"}

\* The same without A3.
ShortBlock == MCBlock \ {"A3"}
ShortParent == [b \in ShortBlock |-> MCParent[b]]
ShortNumber == [b \in ShortBlock |-> MCNumber[b]]
ShortAnc == [b \in ShortBlock |-> MCAnc[b]]

\* One block on each side.
TinyBlock == {"G", "A1", "B1"}
TinyParent == [b \in TinyBlock |-> MCParent[b]]
TinyNumber == [b \in TinyBlock |-> MCNumber[b]]
TinyAnc == [b \in TinyBlock |-> MCAnc[b]]

\* Any head, with the same block as safe and finalized or neither.
MCFcState == {[head |-> h, safe |-> f, fin |-> f] :
                h \in Block, f \in Block \cup {NoBlock}}
\* Heads only.
HeadsOnly == {fc \in MCFcState : fc.fin = NoBlock}
=============================================================================
