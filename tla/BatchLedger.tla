---------------------------- MODULE BatchLedger ----------------------------
(***************************************************************************)
(* What the L1 promises about the L2: a list of settled blocks that only   *)
(* grows, and behind it the batches that were committed and wait for a     *)
(* proof.  A batch joins the queue at its end, the queue settles from its  *)
(* front, and a revert drops its tail.  The sequencer and the contracts    *)
(* together are shown to implement this (module Settlement).               *)
(***************************************************************************)
EXTENDS Naturals, Sequences

CONSTANT Blocks       \* the blocks a batch is made of

VARIABLES settled,    \* the blocks of the verified batches, in order
          pending     \* the committed batches not yet verified, in order

ledgerVars == <<settled, pending>>

Init ==
    /\ settled \in Seq(Blocks)
    /\ pending \in Seq(Seq(Blocks))

Commit(batch) ==
    /\ batch # <<>>
    /\ pending' = Append(pending, batch)
    /\ UNCHANGED settled

\* The settled blocks once the first k batches of the queue are.
Through(k) ==
    LET blocks[i \in 0 .. k] == IF i = 0 THEN settled ELSE blocks[i - 1] \o pending[i]
    IN  blocks[k]

Settle(k) ==
    /\ settled' = Through(k)
    /\ pending' = SubSeq(pending, k + 1, Len(pending))

Revert(k) ==
    /\ pending' = SubSeq(pending, 1, k)
    /\ UNCHANGED settled

\* A batch holds the next blocks of the chain: the one that extends the ledger
\* is read off the new queue.
Next ==
    \/ /\ Len(pending') = Len(pending) + 1
       /\ Commit(pending'[Len(pending')])
    \/ \E k \in 1 .. Len(pending) : Settle(k)
    \/ \E k \in 0 .. Len(pending) - 1 : Revert(k)

Spec == Init /\ [][Next]_ledgerVars
=============================================================================
