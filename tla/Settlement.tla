----------------------------- MODULE Settlement -----------------------------
(***************************************************************************)
(* How L2 blocks become settled on the L1.  The block producer extends the *)
(* chain; the committer (L1Committer) groups blocks into batches, keeps a  *)
(* checkpoint of the state behind each, and commits them; provers prove    *)
(* sealed batches; the proof sender (L1ProofSender) verifies them on the   *)
(* L1 and drops what is no longer needed; an operator may pause the        *)
(* contract and revert batches.  The node can stop between any two writes. *)
(*                                                                         *)
(* Each L1 signer has one transaction in flight: a retry uses the account  *)
(* nonce of the latest block, so it replaces the pending one.  The sender  *)
(* of a transaction learns that it was included, not whether it succeeded. *)
(***************************************************************************)
EXTENDS OnChainProposer

CONSTANTS MaxBlocks,    \* bound: length of the L2 chain
          Faults,       \* the faults that may happen, a subset of AllFaults
          MaxFaults     \* bound: how many of them

AllFaults == {"stop", "timeout", "lag", "badproof", "pause", "revert", "expire"}

ASSUME SettlementAssumption ==
    /\ MaxBlocks \in Nat
    /\ Faults \subseteq AllFaults
    /\ MaxFaults \in Nat

VARIABLES up,              \* the node runs
          chain,           \* canonical blocks of the main store, from number 1
          flushed,         \* how many of them are on disk for sure
          producing,       \* a block stored and not yet canonical, in a sequence
          accountUpdates,  \* block number -> the block whose updates are cached
          sealed,          \* rollup store: batch number -> batch
          inputs,          \* rollup store: the batches with a prover input
          proofs,          \* rollup store: batch number -> proof; a bad one is NoBatch
          verifiedCursor,  \* rollup store: latest_verified_batch_proof
          checkpoints,     \* disk: batch number -> state the checkpoint opens at
          current,         \* the committer's open checkpoint
          committer,       \* where the committer is, and the batch it works on
          commitTx,        \* the committer's transaction in flight, in a sequence
          sender,          \* where the proof sender is, and the proofs it collected
          verifyTx,        \* the proof sender's transaction in flight, in a sequence
          operator,        \* the revert command
          era,             \* how often blocks were lost or deleted
          faults           \* faults so far

nodeVars == <<up, chain, flushed, producing, accountUpdates>>
rollupVars == <<sealed, inputs, proofs, verifiedCursor>>
committerVars == <<current, committer, commitTx>>
senderVars == <<sender, verifyTx>>
faultVars == <<operator, era, faults>>
vars == <<l1Vars, nodeVars, rollupVars, checkpoints, committerVars, senderVars, faultVars>>

CommitterIdle == [pc |-> "idle", number |-> 0]
SenderIdle == [pc |-> "idle", first |-> 0, ready |-> <<>>, single |-> FALSE]
OperatorIdle == [pc |-> "idle", batch |-> 0, deleteBlocks |-> FALSE, lastKept |-> 0]

\* A table with what is stored under one more number, or anew.
Put(table, n, value) == [m \in DOMAIN table \cup {n} |-> IF m = n THEN value ELSE table[m]]

Fault(kind) ==
    /\ kind \in Faults
    /\ faults < MaxFaults
    /\ faults' = faults + 1

-----------------------------------------------------------------------------
(* The block producer.                                                     *)

\* Mutant: account updates already stored under the number are kept.
StoreBlockKeepsUpdates(kind) ==
    /\ up
    /\ producing = <<>>
    /\ Len(chain) < MaxBlocks
    /\ kind = "deposit" => Cardinality(OfKind(chain, "deposit")) < depositsQueued
    /\ LET block == [kind |-> kind, era |-> era]
       IN  /\ producing' = <<block>>
           /\ accountUpdates' = IF Len(chain) + 1 \in DOMAIN accountUpdates THEN accountUpdates
                                ELSE Put(accountUpdates, Len(chain) + 1, block)
    /\ flushed' = Len(chain)
    /\ UNCHANGED <<l1Vars, up, chain, rollupVars, checkpoints, committerVars, senderVars, faultVars>>

\* The block and its account updates are stored before fork choice makes it the head.
\* The store's worker stages it after it has flushed the block before.
StoreBlock(kind) ==
    /\ up
    /\ producing = <<>>
    /\ Len(chain) < MaxBlocks
    /\ kind = "deposit" => Cardinality(OfKind(chain, "deposit")) < depositsQueued
    /\ LET block == [kind |-> kind, era |-> era]
       IN  /\ producing' = <<block>>
           /\ accountUpdates' = Put(accountUpdates, Len(chain) + 1, block)
    /\ flushed' = Len(chain)
    /\ UNCHANGED <<l1Vars, up, chain, rollupVars, checkpoints, committerVars, senderVars, faultVars>>

ApplyForkChoice ==
    /\ producing # <<>>
    /\ chain' = chain \o producing
    /\ producing' = <<>>
    /\ UNCHANGED <<l1Vars, up, flushed, accountUpdates, rollupVars, checkpoints, committerVars, senderVars, faultVars>>

-----------------------------------------------------------------------------
(* The committer.                                                          *)

\* A chain serves a state when it reaches that state or goes past it.
Serves(blocks, state) == Len(state) <= Len(blocks) /\ SubSeq(blocks, 1, Len(state)) = state

\* What the files of the main store may hold: blocks are flushed behind the
\* producer's back (PersistPipeline).
OnDisk == {SubSeq(chain, 1, k) : k \in flushed .. Len(chain)}

\* handle_commit reads the last committed batch off the L1 and makes sure of
\* the checkpoint behind it: the open one, the one on disk, or a fresh copy of
\* the main store's files.  Without the batch itself nothing can be done yet.
EnsureCheckpoint ==
    LET last == lastCommittedBatch
    IN  /\ up
        /\ committer.pc = "idle"
        /\ last < MaxBatch
        /\ \/ /\ last = 0 \/ (current.batch = last /\ last \in DOMAIN checkpoints)
              /\ UNCHANGED <<current, checkpoints>>
           \/ /\ last # 0
              /\ current.batch # last
              /\ last \in DOMAIN checkpoints
              /\ current' = [batch |-> last, state |-> checkpoints[last]]
              /\ UNCHANGED checkpoints
           \/ /\ last # 0
              /\ last \notin DOMAIN checkpoints
              /\ last \in DOMAIN sealed
              /\ \E copy \in OnDisk :
                     /\ checkpoints' = Put(checkpoints, last, copy)
                     /\ current' = [batch |-> last, state |-> copy]
        /\ committer' = [pc |-> "batch", number |-> last + 1]
        /\ UNCHANGED <<l1Vars, nodeVars, rollupVars, commitTx, senderVars, faultVars>>

\* The blocks of sealed batch n can be re-executed on the open checkpoint.
CanReexecute(n) ==
    /\ Serves(current.state, Before(sealed[n]))
    /\ Serves(chain, sealed[n].root)

CanResume(n) == current.batch = n \/ n \in DOMAIN checkpoints \/ CanReexecute(n)

\* The batch was sealed before: check_current_checkpoint takes the open
\* checkpoint, loads the one on disk, or re-executes the batch on a copy of the
\* open one.  Re-execution does not move the copy's head, so what is opened
\* afterwards is at the state the copy was taken at.
ResumeBatch ==
    LET n == committer.number
    IN  /\ up
        /\ committer.pc = "batch"
        /\ n \in DOMAIN sealed
        /\ \/ /\ current.batch = n
              /\ UNCHANGED <<current, checkpoints>>
           \/ /\ current.batch # n
              /\ n \in DOMAIN checkpoints
              /\ current' = [batch |-> n, state |-> checkpoints[n]]
              /\ UNCHANGED checkpoints
           \/ /\ current.batch # n
              /\ n \notin DOMAIN checkpoints
              /\ CanReexecute(n)
              /\ checkpoints' = Put(checkpoints, n, current.state)
              /\ current' = [batch |-> n, state |-> current.state]
        /\ committer' = [committer EXCEPT !.pc = "send"]
        /\ UNCHANGED <<l1Vars, nodeVars, rollupVars, commitTx, senderVars, faultVars>>

\* The last block of the batch before n; the genesis block ends batch 0.
LastBlockBefore(n) == IF n = 1 THEN 0 ELSE Len(sealed[n - 1].root)

\* Blocks from..to can be applied to the open checkpoint: the parent's state is
\* there, and the cached updates lead to the state roots of the headers.  A
\* block without cached updates is re-executed.
CanApply(from, to) ==
    /\ Serves(current.state, SubSeq(chain, 1, from - 1))
    /\ \A i \in from .. to : i \in DOMAIN accountUpdates => accountUpdates[i] = chain[i]

CanProduce(n) ==
    /\ n = 1 \/ n - 1 \in DOMAIN sealed
    /\ LastBlockBefore(n) < Len(chain)
    /\ CanApply(LastBlockBefore(n) + 1, LastBlockBefore(n) + 1)

\* Mutant: the batch is built again although it was sealed.
ProduceBatchAgain ==
    LET n == committer.number
    IN  /\ up
        /\ committer.pc = "batch"
        /\ CanProduce(n)
        /\ \E to \in LastBlockBefore(n) + 1 .. Len(chain) :
              LET from == LastBlockBefore(n) + 1
              IN  /\ CanApply(from, to)
                  /\ sealed' = Put(sealed, n, [blocks |-> SubSeq(chain, from, to),
                                               root   |-> SubSeq(chain, 1, to)])
        /\ inputs' = inputs \cup {n}
        /\ committer' = [committer EXCEPT !.pc = "checkpoint"]
        /\ UNCHANGED <<l1Vars, nodeVars, proofs, verifiedCursor, checkpoints, current, commitTx, senderVars, faultVars>>

\* produce_batch up to the sealing of the batch with its prover input.  Gas and
\* blob space decide how many blocks fit.
ProduceBatch ==
    LET n == committer.number
    IN  /\ up
        /\ committer.pc = "batch"
        /\ n \notin DOMAIN sealed
        /\ CanProduce(n)
        /\ \E to \in LastBlockBefore(n) + 1 .. Len(chain) :
              LET from == LastBlockBefore(n) + 1
              IN  /\ CanApply(from, to)
                  /\ sealed' = Put(sealed, n, [blocks |-> SubSeq(chain, from, to),
                                               root   |-> SubSeq(chain, 1, to)])
        /\ inputs' = inputs \cup {n}
        /\ committer' = [committer EXCEPT !.pc = "checkpoint"]
        /\ UNCHANGED <<l1Vars, nodeVars, proofs, verifiedCursor, checkpoints, current, commitTx, senderVars, faultVars>>

\* No new block, no state to build on, or a missing batch: the tick ends here.
NothingToCommit ==
    LET n == committer.number
    IN  /\ up
        /\ committer.pc = "batch"
        /\ IF n \in DOMAIN sealed THEN ~CanResume(n) ELSE ~CanProduce(n)
        /\ committer' = CommitterIdle
        /\ UNCHANGED <<l1Vars, nodeVars, rollupVars, checkpoints, current, commitTx, senderVars, faultVars>>

\* produce_batch creates the checkpoint of the new batch.  The copy is taken from
\* the files of the store the batch was built on: blocks that store's own persist
\* worker has not flushed are not in it.
\* The directory must not exist.
CreateCheckpoint ==
    LET n == committer.number
        batch == sealed[n]
    IN  /\ up
        /\ committer.pc = "checkpoint"
        /\ IF n \in DOMAIN checkpoints
             THEN /\ committer' = CommitterIdle
                  /\ UNCHANGED <<checkpoints, current, faults>>
             ELSE /\ \E len \in Len(Before(batch)) .. Len(batch.root) :
                        LET state == SubSeq(batch.root, 1, len)
                        IN  /\ IF len = Len(batch.root) THEN UNCHANGED faults ELSE Fault("lag")
                            /\ checkpoints' = Put(checkpoints, n, state)
                            /\ current' = [batch |-> n, state |-> state]
                  /\ committer' = [committer EXCEPT !.pc = "send"]
        /\ UNCHANGED <<l1Vars, nodeVars, rollupVars, commitTx, senderVars, operator, era>>

\* send_commitment: a call that would revert fails at gas estimation.
SendCommitment ==
    LET n == committer.number
    IN  /\ up
        /\ committer.pc = "send"
        /\ IF CommitAccepted(n, sealed[n])
             THEN /\ commitTx' = <<[number |-> n, batch |-> sealed[n]]>>
                  /\ committer' = [committer EXCEPT !.pc = "wait"]
             ELSE /\ committer' = CommitterIdle
                  /\ UNCHANGED commitTx
        /\ UNCHANGED <<l1Vars, nodeVars, rollupVars, checkpoints, current, senderVars, faultVars>>

\* The receipt arrived, whatever it says.
CommitReceipt ==
    /\ up
    /\ committer.pc = "wait"
    /\ commitTx = <<>>
    /\ committer' = CommitterIdle
    /\ UNCHANGED <<l1Vars, nodeVars, rollupVars, checkpoints, current, commitTx, senderVars, faultVars>>

\* No receipt after the last bump: an error, and the transaction may still land.
CommitTimeout ==
    /\ up
    /\ committer.pc = "wait"
    /\ commitTx # <<>>
    /\ Fault("timeout")
    /\ committer' = CommitterIdle
    /\ UNCHANGED <<l1Vars, nodeVars, rollupVars, checkpoints, current, commitTx, senderVars, operator, era>>

IncludeCommit ==
    /\ commitTx # <<>>
    /\ LET tx == Head(commitTx)
       IN  IF CommitAccepted(tx.number, tx.batch)
             THEN commitBatch(tx.number, tx.batch)
             ELSE UNCHANGED l1Vars
    /\ commitTx' = <<>>
    /\ UNCHANGED <<nodeVars, rollupVars, checkpoints, current, committer, senderVars, faultVars>>

-----------------------------------------------------------------------------
(* Provers, through the proof coordinator.                                 *)

\* next_batch_to_assign goes up from the cursor and stops at the first batch
\* without a prover input.
Assignable(n) == n > verifiedCursor /\ verifiedCursor + 1 .. n \subseteq inputs

StoreProof(n) ==
    /\ up
    /\ Assignable(n)
    /\ n \notin DOMAIN proofs
    /\ \/ /\ proofs' = Put(proofs, n, sealed[n])
          /\ UNCHANGED faults
       \/ /\ Fault("badproof")
          /\ proofs' = Put(proofs, n, NoBatch)
    /\ UNCHANGED <<l1Vars, nodeVars, sealed, inputs, verifiedCursor, checkpoints, committerVars, senderVars, operator, era>>

-----------------------------------------------------------------------------
(* The proof sender, without Aligned.                                      *)

\* How many consecutive committed batches from the first unverified one are proven.
ReadyCount ==
    Max({k \in 0 .. lastCommittedBatch - lastVerifiedBatch :
            \A i \in 1 .. k : lastVerifiedBatch + i \in DOMAIN proofs})

\* verify_and_send_proofs: bring the cursor up to the L1, collect the proofs.
CollectProofs ==
    /\ up
    /\ sender.pc = "idle"
    /\ verifiedCursor' = Max({verifiedCursor, lastVerifiedBatch})
    /\ \/ /\ ReadyCount = 0
          /\ UNCHANGED sender
       \/ /\ ReadyCount > 0
          /\ sender' = [pc |-> "send", first |-> lastVerifiedBatch + 1, single |-> FALSE,
                        ready |-> [i \in 1 .. ReadyCount |-> proofs[lastVerifiedBatch + i]]]
    /\ UNCHANGED <<l1Vars, nodeVars, sealed, inputs, proofs, checkpoints, committerVars, verifyTx, faultVars>>

\* The proofs that go into the next transaction.
Group == IF sender.single THEN <<Head(sender.ready)>> ELSE sender.ready

\* What an error does: several batches are retried one by one; one batch ends
\* the attempt.
AfterError == IF Len(Group) > 1 THEN [sender EXCEPT !.pc = "send", !.single = TRUE] ELSE SenderIdle

\* send_batches_proof_to_contract and send_single_batch_proof: a rejected proof is deleted so
\* that the batch is proven again.
SendProofs ==
    /\ up
    /\ sender.pc = "send"
    /\ IF VerifyAccepted(sender.first, Group)
         THEN /\ verifyTx' = <<[first |-> sender.first, proofs |-> Group]>>
              /\ sender' = [sender EXCEPT !.pc = "wait"]
              /\ UNCHANGED proofs
         ELSE /\ proofs' = IF Len(Group) = 1 /\ InvalidProof(sender.first, Head(Group))
                             THEN Restrict(proofs, DOMAIN proofs \ {sender.first}) ELSE proofs
              /\ sender' = AfterError
              /\ UNCHANGED verifyTx
    /\ UNCHANGED <<l1Vars, nodeVars, sealed, inputs, verifiedCursor, checkpoints, committerVars, faultVars>>

VerifyTimeout ==
    /\ up
    /\ sender.pc = "wait"
    /\ verifyTx # <<>>
    /\ Fault("timeout")
    /\ sender' = AfterError
    /\ UNCHANGED <<l1Vars, nodeVars, rollupVars, checkpoints, committerVars, verifyTx, operator, era>>

\* finalize_batch_proof, one batch at a time: move the cursor, drop the checkpoint
\* before the batch.
FinalizeBatch ==
    /\ up
    /\ \/ sender.pc = "wait" /\ verifyTx = <<>>
       \/ sender.pc = "finalize"
    /\ verifiedCursor' = sender.first
    /\ checkpoints' = Restrict(checkpoints, DOMAIN checkpoints \ {sender.first - 1})
    /\ sender' = IF Len(sender.ready) = 1 THEN SenderIdle
                 ELSE [sender EXCEPT !.first = @ + 1, !.ready = Tail(@),
                                     !.pc = IF sender.single THEN "send" ELSE "finalize"]
    /\ UNCHANGED <<l1Vars, nodeVars, sealed, inputs, proofs, committerVars, verifyTx, faultVars>>

IncludeVerify ==
    /\ verifyTx # <<>>
    /\ LET tx == Head(verifyTx)
       IN  IF VerifyAccepted(tx.first, tx.proofs)
             THEN verifyBatches(tx.first, tx.proofs)
             ELSE UNCHANGED l1Vars
    /\ verifyTx' = <<>>
    /\ UNCHANGED <<nodeVars, rollupVars, checkpoints, committerVars, sender, faultVars>>

-----------------------------------------------------------------------------
(* Stopping and starting the node: memory is lost, stores and the          *)
(* transactions in flight are not.                                         *)

\* Canonical blocks that were only staged are gone with the process, also from
\* under a batch that was sealed over them.
Stop ==
    /\ up
    /\ Fault("stop")
    /\ up' = FALSE
    /\ producing' = <<>>
    /\ \E kept \in OnDisk :
          /\ chain' = kept
          /\ flushed' = Len(kept)
          /\ era' = IF kept = chain THEN era ELSE era + 1
    /\ committer' = CommitterIdle
    /\ sender' = SenderIdle
    /\ UNCHANGED <<l1Vars, accountUpdates, rollupVars, checkpoints, current, commitTx, verifyTx, operator>>

\* L1Committer::new opens the checkpoint of the last committed batch, or genesis.
OpenCheckpoint ==
    IF lastCommittedBatch \in DOMAIN checkpoints
      THEN [batch |-> lastCommittedBatch, state |-> checkpoints[lastCommittedBatch]]
      ELSE [batch |-> 0, state |-> <<>>]

Start ==
    /\ ~up
    /\ operator = OperatorIdle
    /\ up' = TRUE
    /\ current' = OpenCheckpoint
    /\ UNCHANGED <<l1Vars, chain, flushed, producing, accountUpdates, rollupVars, checkpoints, committer, commitTx, senderVars, faultVars>>

\* The next batch another sequencer committed, from a peer or from the L1: it is
\* sealed once its blocks are there, and without a prover input.
ReceiveBatch ==
    LET n == Max({0} \cup DOMAIN sealed) + 1
    IN  /\ up
        /\ n <= lastCommittedBatch
        /\ Len(batchCommitments[n].root) <= Len(chain)
        /\ sealed' = Put(sealed, n, batchCommitments[n])
        /\ UNCHANGED <<l1Vars, nodeVars, inputs, proofs, verifiedCursor, checkpoints, committerVars, senderVars, faultVars>>

\* The sequencer that committed a batch we have no prover input for verifies it.
VerifiedByOther ==
    LET n == lastVerifiedBatch + 1
    IN  /\ n <= lastCommittedBatch
        /\ n \notin inputs
        /\ VerifyAccepted(n, <<batchCommitments[n]>>)
        /\ verifyBatches(n, <<batchCommitments[n]>>)
        /\ UNCHANGED <<nodeVars, rollupVars, checkpoints, committerVars, senderVars, faultVars>>

-----------------------------------------------------------------------------
(* The operator: pausing on its own, and the revert command with --pause,  *)
(* run on the data directory of a stopped node.                            *)

Pause ==
    /\ operator = OperatorIdle
    /\ ~paused
    /\ Fault("pause")
    /\ setPaused(TRUE)
    /\ UNCHANGED <<nodeVars, rollupVars, checkpoints, committerVars, senderVars, operator, era>>

Unpause ==
    /\ operator = OperatorIdle
    /\ paused
    /\ setPaused(FALSE)
    /\ UNCHANGED <<nodeVars, rollupVars, checkpoints, committerVars, senderVars, faultVars>>

RevertPauses(n, deleteBlocks) ==
    /\ ~up
    /\ operator = OperatorIdle
    /\ ~paused
    /\ Fault("revert")
    /\ setPaused(TRUE)
    /\ operator' = [pc |-> "contract", batch |-> n, deleteBlocks |-> deleteBlocks, lastKept |-> 0]
    /\ UNCHANGED <<nodeVars, rollupVars, checkpoints, committerVars, senderVars, era>>

\* A revert the contract refuses ends the command, with the contract paused.
RevertContract ==
    /\ operator.pc = "contract"
    /\ IF RevertAccepted(operator.batch)
         THEN /\ revertBatch(operator.batch)
              /\ operator' = [operator EXCEPT !.pc = "store"]
         ELSE /\ operator' = OperatorIdle
              /\ UNCHANGED l1Vars
    /\ UNCHANGED <<nodeVars, rollupVars, checkpoints, committerVars, senderVars, era, faults>>

\* delete_batch_from_rollup_store: what follows the batch is deleted, the batch stays.
RevertStore ==
    /\ operator.pc = "store"
    /\ sealed' = RestrictDomain(sealed, LAMBDA n : n <= operator.batch)
    /\ inputs' = {n \in inputs : n <= operator.batch}
    /\ proofs' = RestrictDomain(proofs, LAMBDA n : n <= operator.batch)
    /\ operator' = [operator EXCEPT !.pc = IF operator.deleteBlocks THEN "blocks" ELSE "unpause",
           !.lastKept = IF operator.batch \in DOMAIN sealed THEN Len(sealed[operator.batch].root) ELSE 0]
    /\ UNCHANGED <<l1Vars, nodeVars, verifiedCursor, checkpoints, committerVars, senderVars, era, faults>>

\* delete_blocks_from_batch; if the block to keep is not there the command ends,
\* with the contract paused.
RevertBlocks ==
    /\ operator.pc = "blocks"
    /\ IF operator.lastKept <= Len(chain)
         THEN /\ chain' = SubSeq(chain, 1, operator.lastKept)
              /\ flushed' = operator.lastKept
              /\ era' = era + 1
              /\ operator' = [operator EXCEPT !.pc = "unpause"]
         ELSE /\ operator' = OperatorIdle
              /\ UNCHANGED <<chain, flushed, era>>
    /\ UNCHANGED <<l1Vars, up, producing, accountUpdates, rollupVars, checkpoints, committerVars, senderVars, faults>>

RevertUnpauses ==
    /\ operator.pc = "unpause"
    /\ setPaused(FALSE)
    /\ operator' = OperatorIdle
    /\ UNCHANGED <<nodeVars, rollupVars, checkpoints, committerVars, senderVars, era, faults>>

-----------------------------------------------------------------------------
(* Deposits on the L1.                                                     *)

Deposit ==
    /\ sendToL2
    /\ UNCHANGED <<nodeVars, rollupVars, checkpoints, committerVars, senderVars, faultVars>>

Expire ==
    /\ Fault("expire")
    /\ DeadlinePasses
    /\ UNCHANGED <<nodeVars, rollupVars, checkpoints, committerVars, senderVars, operator, era>>

-----------------------------------------------------------------------------
FreshInit ==
    /\ ProposerInit
    /\ chain = <<>>
    /\ flushed = 0
    /\ accountUpdates = <<>>

\* A node that takes over: the first block came from another sequencer, which
\* committed it as batch 1; nothing but the block is known locally.
JoinedInit ==
    \E kind \in Kinds \ {"deposit"} :
        LET block == [kind |-> kind, era |-> 0]
        IN  /\ lastCommittedBatch = 1
            /\ lastVerifiedBatch = 0
            /\ batchCommitments = [n \in 0 .. MaxBatch |->
                   IF n = 1 THEN [blocks |-> <<block>>, root |-> <<block>>] ELSE NoBatch]
            /\ batchWithdrawalRoots = [n \in 0 .. MaxBatch |->
                   IF n = 1 THEN OfKind(<<block>>, "withdraw") ELSE {}]
            /\ paused = FALSE
            /\ depositsQueued = 0
            /\ depositIndex = 0
            /\ depositsExpired = 0
            /\ chain = <<block>>
            /\ flushed = 1
            /\ accountUpdates = <<>>

Init ==
    /\ FreshInit \/ JoinedInit
    /\ up = TRUE
    /\ producing = <<>>
    /\ sealed = <<>>
    /\ inputs = {}
    /\ proofs = <<>>
    /\ verifiedCursor = 0
    /\ checkpoints = [n \in {0} |-> <<>>]
    /\ current = [batch |-> 0, state |-> <<>>]
    /\ committer = CommitterIdle
    /\ commitTx = <<>>
    /\ sender = SenderIdle
    /\ verifyTx = <<>>
    /\ operator = OperatorIdle
    /\ era = 0
    /\ faults = 0

CommitterStep ==
    \/ EnsureCheckpoint
    \/ ResumeBatch
    \/ ProduceBatch
    \/ NothingToCommit
    \/ CreateCheckpoint
    \/ SendCommitment
    \/ CommitReceipt

SenderStep ==
    \/ CollectProofs
    \/ SendProofs
    \/ FinalizeBatch

RevertStep ==
    \/ RevertContract
    \/ RevertStore
    \/ RevertBlocks
    \/ RevertUnpauses

Next ==
    \/ \E kind \in Kinds : StoreBlock(kind)
    \/ ApplyForkChoice
    \/ CommitterStep
    \/ CommitTimeout
    \/ IncludeCommit
    \/ \E n \in 1 .. MaxBatch : StoreProof(n)
    \/ SenderStep
    \/ VerifyTimeout
    \/ IncludeVerify
    \/ Stop
    \/ Start
    \/ ReceiveBatch
    \/ VerifiedByOther
    \/ Pause
    \/ Unpause
    \/ \E n \in 1 .. MaxBatch, deleteBlocks \in BOOLEAN : RevertPauses(n, deleteBlocks)
    \/ RevertStep
    \/ Deposit
    \/ Expire

Spec == Init /\ [][Next]_vars

\* The actors run on timers and retry after every error; the L1 includes a pending
\* transaction; the node is started again and a pause is lifted; another sequencer
\* settles what it committed.
FairSpec ==
    /\ Spec
    /\ WF_vars(ApplyForkChoice)
    /\ WF_vars(CommitterStep)
    /\ WF_vars(IncludeCommit)
    /\ \A n \in 1 .. MaxBatch : WF_vars(StoreProof(n))
    /\ WF_vars(SenderStep)
    /\ WF_vars(IncludeVerify)
    /\ WF_vars(Start)
    /\ WF_vars(ReceiveBatch)
    /\ WF_vars(VerifiedByOther)
    /\ WF_vars(Unpause)
    /\ WF_vars(RevertStep)

-----------------------------------------------------------------------------
SettledBlocks == batchCommitments[lastVerifiedBatch].root

\* Every variable is in its type.
TypeOK ==
    /\ ProposerTypeOK
    /\ up \in BOOLEAN
    /\ Len(chain) + Len(producing) <= MaxBlocks
    /\ DOMAIN sealed \subseteq 1 .. MaxBatch
    /\ flushed <= Len(chain)
    /\ inputs \subseteq DOMAIN sealed
    /\ DOMAIN proofs \subseteq DOMAIN sealed
    /\ verifiedCursor \in 0 .. MaxBatch
    /\ DOMAIN checkpoints \subseteq 0 .. MaxBatch
    /\ current.batch \in 0 .. MaxBatch
    /\ committer.pc \in {"idle", "batch", "checkpoint", "send", "wait"}
    /\ Len(commitTx) <= 1
    /\ sender.pc \in {"idle", "send", "wait", "finalize"}
    /\ Len(verifyTx) <= 1
    /\ faults \in 0 .. MaxFaults

Ledger == INSTANCE BatchLedger WITH
    Blocks  <- Block,
    settled <- SettledBlocks,
    pending <- [i \in 1 .. lastCommittedBatch - lastVerifiedBatch |->
                   batchCommitments[lastVerifiedBatch + i].blocks]

\* Whatever fails, stops, is delayed or is reverted, the L1 implements the ledger
\* of BatchLedger: settled blocks are never taken back, and each verification
\* appends exactly the blocks of the batches committed next (commitBatch,
\* verifyBatches and revertBatch, driven by the committer and the sender).
LedgerImplemented == Ledger!Spec

\* A committed batch is the batch the node has sealed under that number, so that
\* its proofs are of what was committed (commit_next_batch_to_l1 after timeouts,
\* restarts and reverts).
CommittedIsSealed ==
    \A n \in lastVerifiedBatch + 1 .. lastCommittedBatch :
        n \in DOMAIN sealed => sealed[n] = batchCommitments[n]

\* The deposits taken off the bridge's queue are those of the settled blocks, in
\* order and each once (removePendingTransactionHashes).
DepositsSettleInOrder == depositIndex = Cardinality(OfKind(SettledBlocks, "deposit"))

\* The account updates cached for a block number are those of the canonical block,
\* though they are stored before the block is canonical and the producer can stop
\* in between (produce_block, prepare_batch_from_block).
CachedUpdatesAreCanonical ==
    \A i \in DOMAIN chain : i \in DOMAIN accountUpdates => accountUpdates[i] = chain[i]

\* The sender deletes a proof only if it does not prove the batch that is
\* committed: a pause, an ordering error or a deposit past its deadline must not
\* cost a valid proof (try_delete_invalid_proof).
OnlyBadProofsDeleted ==
    [][operator = OperatorIdle =>
          \A n \in DOMAIN proofs \ DOMAIN proofs' : ~ProofHolds(n, proofs[n])]_vars

\* The checkpoint kept for a batch opens at the state of its last block, or past
\* it, so that the next batch can be built on it.
CheckpointHoldsState ==
    \A n \in DOMAIN checkpoints \cap DOMAIN sealed : Serves(checkpoints[n], sealed[n].root)

\* The committer cannot build on the last committed batch: its checkpoint exists
\* and opens at an earlier state.
Starved ==
    /\ lastCommittedBatch \in DOMAIN checkpoints \cap DOMAIN sealed
    /\ ~Serves(checkpoints[lastCommittedBatch], sealed[lastCommittedBatch].root)

\* The contract takes no further batch of ours: a deposit past its deadline is
\* waiting in the queue and the next batch to verify does not consume it.
Overdue ==
    /\ lastVerifiedBatch < lastCommittedBatch
    /\ hasExpired(depositsThrough(lastVerifiedBatch + 1))

\* The bridge still holds the withdrawal root a reverted batch published, and
\* refuses to publish one for the same batch number again (publishWithdrawals).
Republished ==
    /\ lastCommittedBatch < MaxBatch
    /\ batchWithdrawalRoots[lastCommittedBatch + 1] # {}

\* A batch was sealed over blocks that a stop then lost: what is committed, proven
\* and settled under its number is no longer the chain.
Orphaned == \E n \in DOMAIN sealed : ~Serves(chain, sealed[n].root)

\* Every block produced is eventually settled, through stops, timeouts, late
\* transactions, bad proofs, pauses and reverted batches, unless one of the
\* four conditions above has stopped the sequencer for good.
BlocksSettle == <>[](SettledBlocks = chain \/ Starved \/ Overdue \/ Republished \/ Orphaned)
=============================================================================
