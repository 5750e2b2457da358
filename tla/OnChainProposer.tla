-------------------------- MODULE OnChainProposer --------------------------
(***************************************************************************)
(* The L1 side of the rollup: the OnChainProposer contract with the part   *)
(* of the CommonBridge it drives.  Calls run atomically; whether a call    *)
(* reverts is an operator of its own, because the sequencer estimates a    *)
(* call before it sends it and the answer can differ at inclusion.         *)
(*                                                                         *)
(* A block is a record of its kind (what it holds that the contracts look  *)
(* at) and of the era it was produced in, so that a block rebuilt after it *)
(* was lost or deleted is another block.  A state root is the sequence of  *)
(* blocks that leads to the state.                                         *)
(***************************************************************************)
EXTENDS Integers, Sequences, FiniteSets, FiniteSetsExt, Functions

CONSTANTS Kinds,        \* the kinds of block produced, a subset of AllKinds
          MaxBatch,     \* bound: batch numbers are 0 .. MaxBatch
          MaxDeposits   \* bound: deposits ever queued in the bridge

AllKinds == {"plain", "deposit", "withdraw"}

ASSUME ProposerAssumption ==
    /\ Kinds \subseteq AllKinds
    /\ MaxBatch \in Nat \ {0}
    /\ MaxDeposits \in Nat

VARIABLES lastCommittedBatch,
          lastVerifiedBatch,
          batchCommitments,     \* number -> batch, or NoBatch
          batchWithdrawalRoots, \* number -> the withdrawals published for it
          paused,
          depositsQueued,       \* length of pendingTxHashes
          depositIndex,         \* pendingPrivilegedTxIndex
          depositsExpired       \* how many deposits have passed their deadline

proposerVars == <<lastCommittedBatch, lastVerifiedBatch, batchCommitments, batchWithdrawalRoots, paused>>
queueVars == <<depositsQueued, depositIndex, depositsExpired>>
l1Vars == <<proposerVars, queueVars>>

Block == [kind : Kinds, era : Nat]
NoBatch == [blocks |-> <<>>, root |-> <<>>]

\* Where the blocks of a kind are.
OfKind(blocks, kind) == {i \in DOMAIN blocks : blocks[i].kind = kind}

\* The state a batch starts from.
Before(batch) == SubSeq(batch.root, 1, Len(batch.root) - Len(batch.blocks))

ProposerInit ==
    /\ lastCommittedBatch = 0
    /\ lastVerifiedBatch = 0
    /\ batchCommitments = [n \in 0 .. MaxBatch |-> NoBatch]
    /\ batchWithdrawalRoots = [n \in 0 .. MaxBatch |-> {}]
    /\ paused = FALSE
    /\ depositsQueued = 0
    /\ depositIndex = 0
    /\ depositsExpired = 0

-----------------------------------------------------------------------------
(* commitBatch.                                                            *)

\* The rolling hash of the batch's deposits is that of the next ones queued.
ClaimsNextDeposits(batch) ==
    OfKind(batch.blocks, "deposit") # {} =>
        /\ Cardinality(OfKind(Before(batch), "deposit")) = depositIndex
        /\ Cardinality(OfKind(batch.root, "deposit")) <= depositsQueued

CommitAccepted(n, batch) ==
    /\ ~paused
    /\ n = lastCommittedBatch + 1
    /\ batchCommitments[n] = NoBatch
    /\ ClaimsNextDeposits(batch)
    /\ OfKind(batch.blocks, "withdraw") # {} => batchWithdrawalRoots[n] = {}

commitBatch(n, batch) ==
    /\ batchCommitments' = [batchCommitments EXCEPT ![n] = batch]
    /\ batchWithdrawalRoots' =
           [batchWithdrawalRoots EXCEPT ![n] = @ \cup OfKind(batch.blocks, "withdraw")]
    /\ lastCommittedBatch' = n
    /\ UNCHANGED <<lastVerifiedBatch, paused, queueVars>>

-----------------------------------------------------------------------------
(* verifyBatches: the batches of one call are verified in order, each on   *)
(* what the ones before it left, and one failure undoes the call.          *)

\* Mutant: the batches of one call do not see what the earlier ones removed.
depositsThroughAlone(n) == depositIndex + Cardinality(OfKind(batchCommitments[n].blocks, "deposit"))

\* Deposits taken off the queue once batches first .. n are verified.
depositsThrough(n) ==
    LET index[m \in lastVerifiedBatch .. n] ==
            IF m = lastVerifiedBatch THEN depositIndex
            ELSE index[m - 1] + Cardinality(OfKind(batchCommitments[m].blocks, "deposit"))
    IN  index[n]

hasExpired(index) == index < depositsQueued /\ index < depositsExpired

\* Everything _verifyBatchInternal asks of batch n before it looks at the proof.
BatchInOrder(n) ==
    /\ n <= lastCommittedBatch
    /\ batchCommitments[n] # NoBatch
    /\ depositsThrough(n) <= depositsQueued
    /\ hasExpired(depositsThrough(n)) =>
           \A i \in DOMAIN batchCommitments[n].blocks : batchCommitments[n].blocks[i].kind = "deposit"

\* The proof's public inputs are those rebuilt from the commitments of n - 1 and n.
ProofHolds(n, proof) ==
    /\ proof = batchCommitments[n]
    /\ Before(proof) = batchCommitments[n - 1].root

VerifyAccepted(first, batchProofs) ==
    /\ ~paused
    /\ batchProofs # <<>>
    /\ first = lastVerifiedBatch + 1
    /\ \A i \in DOMAIN batchProofs :
           /\ BatchInOrder(first + i - 1)
           /\ ProofHolds(first + i - 1, batchProofs[i])

\* Mutants: every rejection blames the proof; none does.
InvalidProofAlways(n, proof) == ~VerifyAccepted(n, <<proof>>)
InvalidProofNever(n, proof) == FALSE

\* The call reverts, and with the error that names the proof as invalid.
InvalidProof(n, proof) ==
    /\ ~paused
    /\ n = lastVerifiedBatch + 1
    /\ BatchInOrder(n)
    /\ ~ProofHolds(n, proof)

verifyBatches(first, batchProofs) ==
    LET last == first + Len(batchProofs) - 1
    IN  /\ depositIndex' = depositsThrough(last)
        /\ lastVerifiedBatch' = last
        /\ batchCommitments' = [n \in DOMAIN batchCommitments |->
               IF n \in first - 1 .. last - 1 THEN NoBatch ELSE batchCommitments[n]]
        /\ UNCHANGED <<lastCommittedBatch, batchWithdrawalRoots, paused, depositsQueued, depositsExpired>>

-----------------------------------------------------------------------------
(* revertBatch and the deposits' own clock.                                *)

\* Mutant: a verified batch can be reverted.
RevertAcceptedVerified(n) == paused /\ n <= lastCommittedBatch

RevertAccepted(n) == paused /\ lastVerifiedBatch < n /\ n <= lastCommittedBatch

revertBatch(n) ==
    /\ batchCommitments' = [k \in DOMAIN batchCommitments |->
           IF k \in n .. lastCommittedBatch THEN NoBatch ELSE batchCommitments[k]]
    /\ lastCommittedBatch' = n - 1
    /\ UNCHANGED <<lastVerifiedBatch, batchWithdrawalRoots, paused, queueVars>>

setPaused(p) ==
    /\ paused' = p
    /\ UNCHANGED <<lastCommittedBatch, lastVerifiedBatch, batchCommitments, batchWithdrawalRoots, queueVars>>

\* _sendToL2: a deposit joins the queue of the bridge.
sendToL2 ==
    /\ depositsQueued < MaxDeposits
    /\ depositsQueued' = depositsQueued + 1
    /\ UNCHANGED <<proposerVars, depositIndex, depositsExpired>>

\* The deadline of the oldest deposit that had not expired passes.
DeadlinePasses ==
    /\ depositsExpired < depositsQueued
    /\ depositsExpired' = depositsExpired + 1
    /\ UNCHANGED <<proposerVars, depositsQueued, depositIndex>>

ProposerTypeOK ==
    /\ lastCommittedBatch \in 0 .. MaxBatch
    /\ lastVerifiedBatch \in 0 .. lastCommittedBatch
    /\ paused \in BOOLEAN
    /\ depositsQueued \in 0 .. MaxDeposits
    /\ depositIndex \in 0 .. depositsQueued
    /\ depositsExpired \in 0 .. depositsQueued
=============================================================================
