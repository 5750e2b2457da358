------------------------------ MODULE FrameTx ------------------------------
(***************************************************************************)
(* execute_frame_tx (crates/vm/levm/src/vm.rs): the frames of an EIP-8141  *)
(* transaction run one after the other in one VM, alone or in atomic       *)
(* batches, and the transaction is valid only if some frame approved a     *)
(* payer.  Composed with the other kinds of transaction of TxExecution.    *)
(*                                                                         *)
(* The frames are chosen as the loop reaches them, within what             *)
(* validate_static_constraints admits.                                     *)
(***************************************************************************)
EXTENDS TxExecution

Modal == {"default", "sender", "verify"}

\* A flagged frame is not VERIFY, has a successor, and that is not VERIFY.
WellFormed(fmode, flag, value) ==
    /\ flag => fmode # "verify" /\ tx.index + 1 < MaxFrames
    /\ tx.flag => fmode # "verify"
    /\ value > 0 => fmode = "sender"

AtFrame == tx.pc = "frames" /\ tx.index < MaxFrames

\* A frame of a batch that has failed is skipped, up to its first unflagged frame.
SkipFrame(flag) ==
    /\ AtFrame /\ tx.skip
    /\ WellFormed("default", flag, 0)
    /\ tx' = [tx EXCEPT !.index = @ + 1, !.flag = flag, !.skip = flag, !.batch = flag]
    /\ UNCHANGED <<vm, base, undo, entered, start>>

restore_approvals(ctx, snapshot) == snapshot

\* What follows a frame that ended with result ok and n logs: a failure unrolls
\* the batch it is in, and a failed VERIFY frame invalidates the transaction.
FrameEnds(v, ok, t, n) ==
    IF t.batch /\ ~ok
      THEN /\ vm' = clear_transient_storage(restore_cache_state(revert_backup(v)))
           /\ tx' = [t EXCEPT !.pc = "frames", !.logs = t.snapshot.logs, !.skip = t.flag,
                              !.batch = t.flag, !.ctx = restore_approvals(t.ctx, t.snapshot.ctx)]
      ELSE IF t.fmode = "verify" /\ ~ok
      THEN vm' = v /\ tx' = [t EXCEPT !.pc = "invalid"]
      ELSE /\ vm' = clear_transient_storage(IF t.batch /\ ~t.flag THEN commit_backup(v) ELSE v)
           /\ tx' = [t EXCEPT !.pc = "frames", !.logs = @ + n, !.batch = @ /\ t.flag]

FrameFails(v, t) == FrameEnds(restore_cache_state(revert_backup(v)), FALSE, t, 0)

\* Outside a batch the outer backup is absorbed and cleared at each frame.
OpensFrame == IF tx.batch THEN vm ELSE clear_backup(vm)
Opened(fmode, flag, target, value) ==
    LET starts == ~tx.batch /\ flag
    IN  [tx EXCEPT !.index = @ + 1, !.fmode = fmode, !.flag = flag, !.target = target,
                   !.value = value, !.static = (fmode = "verify"), !.batch = @ \/ flag,
                   !.snapshot = IF starts THEN [ctx |-> tx.ctx, logs |-> tx.logs] ELSE @]

ValueMoved(v, target, n) == LogTransfer(transfer(v, "sender", target, n), "sender", target, n)

\* The target has no code: VERIFY checks the signature and approves, the other
\* modes only deliver the value.  All of it runs in the outer call frame.
DefaultCode(v, t) ==
    LET moved == ValueMoved(v, t.target, t.value)
        succeeds(w, u) == FrameEnds(commit_backup(w), TRUE, u, CurrentScope(w).logs)
    IN  IF t.fmode # "verify" THEN succeeds(moved, t)
        ELSE \/ FrameFails(moved, t)
             \/ \E scope \in 1..3 :
                    LET r == apply_approve(moved, scope, t.target)
                    IN  IF r.ok THEN succeeds(r.vm, [t EXCEPT !.ctx = r.ctx])
                        ELSE FrameFails(r.vm, t)

BeginFrame(fmode, flag, target, value) ==
    /\ AtFrame /\ ~tx.skip
    /\ WellFormed(fmode, flag, value)
    /\ LET t == Opened(fmode, flag, target, value)
           v == IF ~tx.batch /\ flag THEN push_backup(OpensFrame) ELSE OpensFrame
           pushed == push_backup(v)
           outer == IF tx.batch THEN entered ELSE <<World(OpensFrame)>>
       IN  /\ base' = IF tx.batch THEN base ELSE absorb(base, Top(vm))
           /\ \/ /\ fmode = "sender" /\ ~tx.ctx.sender_approved
                 /\ vm' = v /\ tx' = [t EXCEPT !.pc = "invalid"] /\ entered' = outer
              \/ /\ fmode = "sender" => tx.ctx.sender_approved
                 /\ \/ /\ vm.cells.sender.balance < value
                       /\ FrameFails(pushed, t) /\ entered' = outer
                    \/ /\ vm.cells.sender.balance >= value /\ ~vm.cells[target].code
                       /\ DefaultCode(pushed, t) /\ entered' = outer
                    \/ /\ vm.cells.sender.balance >= value /\ vm.cells[target].code
                       /\ vm' = ValueMoved(push_frame(pushed, CallFrame(target, FALSE)), target, value)
                       /\ tx' = [t EXCEPT !.pc = "run", !.before = CurrentScope(v).logs]
                       /\ entered' = Append(outer, World(v))
    /\ UNCHANGED <<undo, start>>

\* Mutant: the whole scope is taken for the frame's logs.
frame_logs_all(v) == CurrentScope(v).logs
\* The frame's logs are those its commit added to the scope below.
frame_logs(v) == CurrentScope(v).logs - tx.before

\* The call frame of a contract target has halted.
EndFrame ==
    /\ tx.pc = "halted" /\ tx.kind = "frame"
    /\ LET inner == Top(vm)
           outer == [vm EXCEPT !.frames = Front(@)]
       IN  IF ~tx.ok THEN FrameEnds(outer, FALSE, tx, 0) /\ UNCHANGED base
           ELSE IF tx.batch
           THEN FrameEnds(merge_call_frame_backup_with_parent(outer, inner), TRUE, tx, frame_logs(vm))
                /\ UNCHANGED base
           ELSE FrameEnds(outer, TRUE, tx, frame_logs(vm)) /\ base' = absorb(base, inner)
    /\ UNCHANGED <<undo, entered, start>>

\* All frames are done: the payer is refunded, the coinbase paid.
FinishFrames ==
    /\ tx.pc = "frames" /\ tx.index > 0 /\ ~tx.flag
    /\ tx.ctx.payer # NoPayer
    /\ LET v == delete_self_destruct_accounts(Paid(vm, tx.ctx.payer))
       IN  /\ vm' = v
           /\ undo' = IF preserve_top_level_backup THEN <<absorb(base, Top(v))>> ELSE <<>>
    /\ tx' = [tx EXCEPT !.pc = "done"]
    /\ UNCHANGED <<base, entered, start>>

\* Mutant: the backup of the current frame is not absorbed first.
RejectFramesForgets ==
    /\ tx.pc = "invalid" \/ (tx.pc = "frames" /\ tx.index > 0 /\ ~tx.flag /\ tx.ctx.payer = NoPayer)
    /\ vm' = restore(vm, base)
    /\ tx' = [tx EXCEPT !.pc = "rejected"]
    /\ UNCHANGED <<base, undo, entered, start>>
\* The transaction is invalid: every frame's effect is taken back.
RejectFrames ==
    /\ tx.pc = "invalid" \/ (tx.pc = "frames" /\ tx.index > 0 /\ ~tx.flag /\ tx.ctx.payer = NoPayer)
    /\ vm' = restore(vm, absorb(base, Top(vm)))
    /\ tx' = [tx EXCEPT !.pc = "rejected"]
    /\ UNCHANGED <<base, undo, entered, start>>

-----------------------------------------------------------------------------
(* The specification: any transaction, on a sender that may carry a        *)
(* delegation and a callee that may not exist yet; the code a create       *)
(* installs may be cached already, which matters where it does not collide. *)
(* execute_frame_tx runs no hooks and asks only whether the backup is to be *)
(* kept, so that stateless execution is the same to it as the L2's.         *)

Account(nonce, balance, code) == [nonce |-> nonce, balance |-> balance, code |-> code]
Init ==
    /\ \E delegated, exists \in BOOLEAN, cached \in {{}, {"deployed"}} :
        /\ exists => cached = {}
        /\ vm = [cells |-> [sender |-> Account(0, 3, delegated),
                            callee |-> Account(IF exists THEN 1 ELSE 0, IF exists THEN Cost ELSE 0, exists),
                            slot |-> 0],
                 codes |-> cached, frames |-> <<>>, scopes |-> <<Scope(0)>>]
    /\ tx = [pc |-> "idle", kind |-> "call", mode |-> "l1", value |-> 0, ok |-> TRUE, oog |-> FALSE,
             ops |-> 0, static |-> FALSE, index |-> 0, fmode |-> "default", flag |-> FALSE,
             target |-> "sender", batch |-> FALSE, skip |-> FALSE, logs |-> 0, before |-> 0,
             ctx |-> Nobody, snapshot |-> [ctx |-> Nobody, logs |-> 0]]
    /\ base = Empty /\ undo = <<>> /\ entered = <<>>
    /\ start = [cells |-> vm.cells, codes |-> vm.codes]

FrameStep ==
    \/ \E flag \in BOOLEAN : SkipFrame(flag)
    \/ \E fmode \in Modal, flag \in BOOLEAN, target \in Accounts, n \in 0..1 : BeginFrame(fmode, flag, target, n)
    \/ EndFrame \/ FinishFrames \/ RejectFrames

OpcodeStep ==
    \/ \E x \in 0..1 : Sstore(x)
    \/ \E x \in 1..2 : Tstore(x)
    \/ \E ok \in BOOLEAN : Precompile(1, ok)
    \/ \E to \in Accounts, n \in 0..1 : Call(to, n)
    \/ \E n \in 0..1 : Create(n)
    \/ \E ok \in BOOLEAN : Return(ok)
    \/ \E scope \in 1..3 : Approve(scope)
    \/ Log \/ SelfDestruct

Next ==
    \/ \E kind \in Kinds \ {"frame"}, mode \in Modes, n \in 0..1 : Begin(kind, mode, n)
    \/ \E mode \in Modes \ {"stateless"} : "frame" \in Kinds /\ Begin("frame", mode, 0)
    \/ \E a \in Authorities : PrepareInvalid(a) \/ PrepareOog(a) \/ Run(a)
    \/ OpcodeStep
    \/ FrameStep
    \/ Finalize \/ FinalizeFails \/ UndoLast

Spec == Init /\ [][Next]_vars

-----------------------------------------------------------------------------
(* Properties.                                                             *)

AccountOK(a) == a.nonce \in Nat /\ a.balance \in Nat /\ a.code \in BOOLEAN

(* Types.  No balance goes below zero: the checks before each debit (the     *)
(* up-front cost, CALL, CREATE, a frame's value, APPROVE) are enough.        *)
TypeOK ==
    /\ tx.pc \in {"idle", "prepare", "frames", "run", "halted", "invalid", "done", "failed", "rejected", "dropped"}
    /\ \A a \in Accounts : AccountOK(vm.cells[a])
    /\ vm.cells.slot \in 0..1 /\ vm.codes \subseteq {"deployed", "delegation"}
    /\ Len(vm.frames) <= MaxDepth + 1 /\ vm.scopes # <<>>
    /\ tx.ctx.payer \in Accounts \cup {NoPayer} /\ Len(undo) <= 1

\* The scopes that stay when the frames from level i up are undone.
Below(i) == IF i < Initial THEN 1 ELSE Len(vm.scopes) - (Len(vm.frames) - i + 1)

(* The backups held are at every moment enough to undo what is under way.    *)
(* However calls, creates, self-destructs and batches nest, undoing the open *)
(* call frames from any level up gives exactly what that level found when it *)
(* was entered: accounts, storage, cached codes, and with the scopes below   *)
(* it the substate.  And the originals kept for the whole transaction        *)
(* (BackupHook, tx_level_backup, at the end db.tx_backup) lead back to the   *)
(* accounts and storage it started from, though the frame backups are        *)
(* cleared on the way.                                                       *)
Undoable ==
    /\ tx.pc = "run" \/ (tx.pc = "frames" /\ tx.batch) =>
           \A i \in DOMAIN vm.frames :
               LET v == [Unwound(vm, i) EXCEPT !.scopes = SubSeq(@, 1, Below(i))]
               IN  World(v) = entered[i]
    /\ /\ tx.pc \in {"prepare", "frames", "run", "halted", "invalid"}
       /\ tx.kind = "frame" \/ tx.mode # "l1"
       => restore(Unwound(vm, 1), base).cells = start.cells
    /\ undo # <<>> => restore(vm, Head(undo)).cells = start.cells

\* A frame of a batch fails: in its call, or before it for want of balance.
BatchFails ==
    \/ EndFrame /\ tx.batch /\ ~tx.ok
    \/ /\ AtFrame /\ ~tx.skip /\ (tx.batch \/ tx'.flag)
       /\ tx'.pc = "frames" /\ tx'.index = tx.index + 1
       /\ tx'.skip \/ vm.cells.sender.balance < tx'.value

(* A call that fails leaves everything as it found it, and so does an atomic *)
(* batch one of whose frames fails (handle_state_backup, the batch arm of    *)
(* execute_frame_tx): accounts, storage, cached codes and substate.  The     *)
(* approvals are outside it: see ApprovalsBacked.                            *)
RevertUndoes ==
    [][/\ Return(FALSE) => World(vm') = Last(entered)
       /\ BatchFails => World(vm') = Head(entered')]_vars

(* A transaction reported invalid, or undone by the L2 builder or the        *)
(* stateless executor, leaves no account or slot changed in the shared cache *)
(* the next transaction runs on, and a call or a create no code either: what *)
(* it cached is evicted, what others cached is not.  Two traces are left     *)
(* out, because the code leaves them: see RejectedEvictsCodes and            *)
(* DroppedLeavesNothing.                                                     *)
RejectedLeavesNothing ==
    tx.pc = "rejected" =>
        vm.cells = start.cells /\ (tx.kind # "frame" => vm.codes = start.codes)

(* "Removed from the cache on revert" (CallFrameBackup::inserted_code_hashes)*)
(* for every kind of transaction.  It does not hold of frame transactions:   *)
(* absorb drops the list, so the codes a rejected one cached stay cached.    *)
RejectedEvictsCodes == tx.pc = "rejected" => vm.codes = start.codes

(* "Rollback transaction state before returning error" (payload.rs,          *)
(* apply_plain_transaction).  It does not hold of the L1 builder, whose      *)
(* transactions have no backup to roll back from.                            *)
DroppedLeavesNothing == tx.pc = "dropped" => vm.cells = start.cells

Total(cells) == cells.sender.balance + cells.callee.balance

(* A call or create that is included, whether it succeeded, failed, collided *)
(* or ran out of gas in the prepare region, has used up a nonce, and the     *)
(* value and the fee went to somebody: nothing appears or is lost across     *)
(* the restore, undo_value_transfer and the refund.                          *)
IncludedPaysOnce ==
    tx.pc = "done" /\ tx.kind # "frame" =>
        vm.cells.sender.nonce > start.cells.sender.nonce /\ Total(vm.cells) = Total(start.cells)

(* The receipt's logs are those the substate kept, whatever frames failed    *)
(* and batches unrolled (all_logs against Substate::extract_logs).           *)
LogsMatch == tx.pc = "frames" => tx.logs = Flat(vm.scopes).logs

(* A frame transaction that is included was charged: the approval that       *)
(* stands is one whose nonce bump and debit stand (approval_snapshot: "a     *)
(* reverted APPROVE would leave the transaction authorized by a frame whose  *)
(* effects no longer exist").                                                *)
ApprovalsBacked ==
    tx.pc = "done" /\ tx.kind = "frame" =>
        vm.cells.sender.nonce > start.cells.sender.nonce /\ Total(vm.cells) = Total(start.cells)
=============================================================================
