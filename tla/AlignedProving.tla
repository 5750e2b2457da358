--------------------------- MODULE AlignedProving ---------------------------
(***************************************************************************)
(* From sealed batches to verified ones when proofs go through Aligned:    *)
(* the proof coordinator hands batches to provers and stores what they     *)
(* send back, the proof sender submits complete batches to Aligned, the    *)
(* proof verifier turns aggregated batches into a verification on the L1.  *)
(*                                                                         *)
(* A prover connection is served by an actor of its own, so requests and   *)
(* submissions interleave.  Clocks are abstracted to what the code         *)
(* compares them with: an assignment or the last verification is recent,   *)
(* or older than its timeout.                                              *)
(***************************************************************************)
EXTENDS Integers, FiniteSets, FiniteSetsExt, Functions, TLC

CONSTANTS Provers,      \* prover connections
          TypeOf,       \* the proof type each prover makes
          NeededTypes,  \* needed_proof_types
          MaxBatch,     \* bound: batches are 1 .. MaxBatch
          FirstBatch,   \* batches below it are verified at the start
          MaxFaults     \* bound: dead provers, bad proofs, losses and restarts

ASSUME ProvingAssumption ==
    /\ TypeOf \in [Provers -> NeededTypes]
    /\ MaxBatch \in Nat
    /\ FirstBatch \in 1 .. MaxBatch
    /\ MaxFaults \in Nat

VARIABLES sealedUpTo,    \* batches with a prover input, all committed
          storedProofs,  \* <<batch, type>> -> "good" or "bad"
          assignments,   \* <<batch, type>> -> "fresh" or "stale", in memory
          prover,        \* prover -> what its connection is doing, and for which batch
          verifiedCursor,\* latest_verified_batch_proof: the batch
          verifiedAt,    \* and its time: "never", "recent" or "old"
          sentCursor,    \* latest_sent_to_aligned
          aggregating,   \* batches Aligned has accepted
          aggregated,    \* batches whose proof Aligned has aggregated
          lastVerified,  \* lastVerifiedBatch of the L1
          verifier,      \* batches just sent to the L1 and not yet recorded in the store
          faults

coordinatorVars == <<storedProofs, assignments, prover>>
alignedVars == <<sentCursor, aggregating, aggregated>>
cursorVars == <<verifiedCursor, verifiedAt, lastVerified, verifier>>
vars == <<sealedUpTo, coordinatorVars, alignedVars, cursorVars, faults>>

Batches == 1 .. MaxBatch
Jobs == Batches \X NeededTypes
Idle == [pc |-> "idle", batch |-> 0]

Fault ==
    /\ faults < MaxFaults
    /\ faults' = faults + 1

Without(f, keys) == Restrict(f, DOMAIN f \ keys)

\* seal_batch_with_prover_input, by the committer.
Seal ==
    /\ sealedUpTo < MaxBatch
    /\ sealedUpTo' = sealedUpTo + 1
    /\ UNCHANGED <<coordinatorVars, alignedVars, cursorVars, faults>>

-----------------------------------------------------------------------------
(* The proof coordinator.                                                  *)

\* Nobody works on the batch for this type, or whoever does took too long.
Unassigned(batch, type) ==
    <<batch, type>> \in DOMAIN assignments => assignments[<<batch, type>>] = "stale"

\* next_batch_to_assign: from the batch behind the cursor, claim the first one that
\* is free.  If a proof is stored, keep the claim so that the scan passes over it;
\* if there is no input yet, give the claim back and hand out nothing.  Claims
\* below the cursor are forgotten.  A claim shields the batch while the store is
\* asked about it, so the scan is one step.
Request(p) ==
    LET type == TypeOf[p]
        base == verifiedCursor + 1
        free == {b \in base .. MaxBatch + 1 : Unassigned(b, type)}
        batch == Min({b \in free : b > sealedUpTo \/ <<b, type>> \notin DOMAIN storedProofs})
        claimed == {b \in free : b < batch} \cup ({batch} \cap 1 .. sealedUpTo)
    IN  /\ prover[p].pc = "idle"
        /\ assignments' = [job \in claimed \X {type} |-> "fresh"]
                              @@ RestrictDomain(assignments, LAMBDA job : job[1] >= base)
        /\ prover' = IF batch <= sealedUpTo
                       THEN [prover EXCEPT ![p] = [pc |-> "proving", batch |-> batch]]
                       ELSE prover
        /\ UNCHANGED <<sealedUpTo, storedProofs, alignedVars, cursorVars, faults>>

\* handle_submit first looks whether a proof is stored.
Submit(p) ==
    LET job == <<prover[p].batch, TypeOf[p]>>
    IN  /\ prover[p].pc = "proving"
        /\ IF job \in DOMAIN storedProofs
             THEN /\ assignments' = Without(assignments, {job})
                  /\ prover' = [prover EXCEPT ![p] = Idle]
             ELSE /\ prover' = [prover EXCEPT ![p].pc = "storing"]
                  /\ UNCHANGED assignments
        /\ UNCHANGED <<sealedUpTo, storedProofs, alignedVars, cursorVars, faults>>

\* It then replaces whatever is stored by now, and forgets the assignment,
\* whoever holds it.
Store(p) ==
    LET job == <<prover[p].batch, TypeOf[p]>>
    IN  /\ prover[p].pc = "storing"
        /\ \/ /\ storedProofs' = (job :> "good") @@ storedProofs
              /\ UNCHANGED faults
           \/ /\ Fault
              /\ storedProofs' = (job :> "bad") @@ storedProofs
        /\ assignments' = Without(assignments, {job})
        /\ prover' = [prover EXCEPT ![p] = Idle]
        /\ UNCHANGED <<sealedUpTo, alignedVars, cursorVars>>

\* The prover is gone; the coordinator does not notice.
ProverDies(p) ==
    /\ prover[p].pc = "proving"
    /\ Fault
    /\ prover' = [prover EXCEPT ![p] = Idle]
    /\ UNCHANGED <<sealedUpTo, storedProofs, assignments, alignedVars, cursorVars>>

\* Mutant: assignments never time out.
AssignmentExpiresNever(job) == FALSE /\ UNCHANGED vars

\* prover_timeout passes for an assignment.
AssignmentExpires(job) ==
    /\ job \in DOMAIN assignments
    /\ assignments[job] = "fresh"
    /\ assignments' = [assignments EXCEPT ![job] = "stale"]
    /\ UNCHANGED <<sealedUpTo, storedProofs, prover, alignedVars, cursorVars, faults>>

-----------------------------------------------------------------------------
(* The proof sender in aligned mode: one tick.                             *)

\* Verification has not advanced for longer than the resubmission timeout.
Overdue == sentCursor > lastVerified /\ verifiedAt = "old"

\* Where the tick starts from, once the cursor is reset or brought up to the L1.
SyncedCursor == IF Overdue \/ sentCursor < lastVerified THEN lastVerified ELSE sentCursor

ProofsOf(batch) == {job \in DOMAIN storedProofs : job[1] = batch}

\* A complete batch is submitted; Aligned refuses a bad proof, which is deleted.
SenderTick ==
    LET batch == SyncedCursor + 1
        bad == {job \in ProofsOf(batch) : storedProofs[job] = "bad"}
    IN  /\ IF batch > sealedUpTo \/ Cardinality(ProofsOf(batch)) < Cardinality(NeededTypes)
             THEN /\ sentCursor' = SyncedCursor
                  /\ UNCHANGED <<storedProofs, aggregating>>
             ELSE IF bad # {}
             THEN \E job \in bad :
                  /\ sentCursor' = SyncedCursor
                  /\ storedProofs' = Without(storedProofs, {job})
                  /\ UNCHANGED aggregating
             ELSE /\ sentCursor' = batch
                  /\ aggregating' = aggregating \cup {batch}
                  /\ UNCHANGED storedProofs
        /\ UNCHANGED <<sealedUpTo, assignments, prover, aggregated, cursorVars, faults>>

\* resubmission_timeout_secs pass after the last verification.
VerificationAges ==
    /\ verifiedAt = "recent"
    /\ verifiedAt' = "old"
    /\ UNCHANGED <<sealedUpTo, coordinatorVars, alignedVars, verifiedCursor, lastVerified, verifier, faults>>

\* Aligned aggregates a batch, or loses it.
Aggregate(batch) ==
    /\ batch \in aggregating
    /\ aggregating' = aggregating \ {batch}
    /\ \/ /\ aggregated' = aggregated \cup {batch}
          /\ UNCHANGED faults
       \/ /\ Fault
          /\ UNCHANGED aggregated
    /\ UNCHANGED <<sealedUpTo, coordinatorVars, sentCursor, cursorVars>>

-----------------------------------------------------------------------------
(* The proof verifier.                                                     *)

\* The batches behind the last verified one that are proven and aggregated.
AggregatedRun ==
    {b \in lastVerified + 1 .. MaxBatch :
        \A k \in lastVerified + 1 .. b :
            k \in aggregated /\ Cardinality(ProofsOf(k)) = Cardinality(NeededTypes)}

\* main_logic brings the cursor up to the L1, then sends the run.  The transaction
\* is included, and the verifier does not look whether it succeeded there; or the
\* L1 refuses an inclusion proof, and the proofs of the whole run are deleted.
VerifierTick ==
    /\ verifier = {}
    /\ IF verifiedCursor < lastVerified
         THEN verifiedCursor' = lastVerified /\ verifiedAt' = "recent"
         ELSE UNCHANGED <<verifiedCursor, verifiedAt>>
    /\ \/ /\ AggregatedRun = {}
          /\ UNCHANGED <<storedProofs, aggregated, lastVerified, verifier, faults>>
       \/ /\ AggregatedRun # {}
          /\ \/ lastVerified' = Max(AggregatedRun) /\ UNCHANGED faults
             \/ Fault /\ UNCHANGED lastVerified
          /\ verifier' = AggregatedRun
          /\ UNCHANGED <<storedProofs, aggregated>>
       \/ /\ AggregatedRun # {}
          /\ Fault
          /\ storedProofs' = Without(storedProofs, AggregatedRun \X NeededTypes)
          /\ aggregated' = aggregated \ AggregatedRun
          /\ UNCHANGED <<lastVerified, verifier>>
    /\ UNCHANGED <<sealedUpTo, assignments, prover, sentCursor, aggregating>>

\* The rest of verify_proofs_aggregation: the cursor moves once the transaction was included.
RecordVerified ==
    /\ verifier # {}
    /\ verifiedCursor' = Max(verifier)
    /\ verifiedAt' = "recent"
    /\ verifier' = {}
    /\ UNCHANGED <<sealedUpTo, coordinatorVars, alignedVars, lastVerified, faults>>

\* The node restarts: connections, assignments and the pending write are gone.
Restart ==
    /\ Fault
    /\ assignments' = <<>>
    /\ prover' = [p \in Provers |-> Idle]
    /\ verifier' = {}
    /\ UNCHANGED <<sealedUpTo, storedProofs, alignedVars, verifiedCursor, verifiedAt, lastVerified>>

-----------------------------------------------------------------------------
\* A node that verified FirstBatch - 1 batches, or none.
Init ==
    /\ sealedUpTo = FirstBatch - 1
    /\ storedProofs = <<>>
    /\ assignments = <<>>
    /\ prover = [p \in Provers |-> Idle]
    /\ verifiedCursor = FirstBatch - 1
    /\ verifiedAt = IF FirstBatch = 1 THEN "never" ELSE "recent"
    /\ sentCursor = FirstBatch - 1
    /\ aggregating = {}
    /\ aggregated = {}
    /\ lastVerified = FirstBatch - 1
    /\ verifier = {}
    /\ faults = 0

ProverStep(p) == Request(p) \/ Submit(p) \/ Store(p)

Next ==
    \/ Seal
    \/ \E p \in Provers : ProverStep(p) \/ ProverDies(p)
    \/ \E job \in Jobs : AssignmentExpires(job)
    \/ SenderTick
    \/ VerificationAges
    \/ \E batch \in Batches : Aggregate(batch)
    \/ VerifierTick
    \/ RecordVerified
    \/ Restart

Spec == Init /\ [][Next]_vars

\* Provers keep asking and finish what they start, timers fire, the sender and
\* the verifier run on intervals, Aligned works through what it accepted.
FairSpec ==
    /\ Spec
    /\ WF_vars(Seal)
    /\ \A p \in Provers : WF_vars(ProverStep(p))
    /\ \A job \in Jobs : WF_vars(AssignmentExpires(job))
    /\ WF_vars(SenderTick)
    /\ WF_vars(VerificationAges)
    /\ \A batch \in Batches : WF_vars(Aggregate(batch))
    /\ WF_vars(VerifierTick)
    /\ WF_vars(RecordVerified)

-----------------------------------------------------------------------------
\* Every variable is in its type.
TypeOK ==
    /\ sealedUpTo \in 0 .. MaxBatch
    /\ DOMAIN storedProofs \subseteq Jobs
    /\ DOMAIN assignments \subseteq Jobs
    /\ \A p \in Provers : prover[p].pc \in {"idle", "proving", "storing"}
    /\ verifiedCursor \in 0 .. MaxBatch
    /\ verifiedAt \in {"never", "recent", "old"}
    /\ sentCursor \in 0 .. MaxBatch
    /\ aggregating \cup aggregated \subseteq Batches
    /\ lastVerified \in 0 .. sealedUpTo
    /\ faults \in 0 .. MaxFaults

\* A batch that was sent to Aligned and whose proofs were then deleted is sent
\* again, or verified after all: the sender's cursor comes back behind it
\* (verify_and_send_proofs, after verify_proofs_aggregation deleted the proofs).
DeletedIsSentAgain ==
    \A b \in Batches :
        (b > lastVerified /\ b <= sentCursor /\ ProofsOf(b) = {})
            ~> (b <= lastVerified \/ sentCursor < b)

\* Every batch is eventually verified, whatever provers, proofs and submissions
\* are lost on the way, unless a verification that failed at inclusion moved the
\* cursor past its batch, which is then never handed to a prover again
\* (next_batch_to_assign, verify_and_send_proofs, main_logic).
AllVerified == <>(lastVerified = MaxBatch) \/ <>[](verifiedCursor > lastVerified)
=============================================================================
