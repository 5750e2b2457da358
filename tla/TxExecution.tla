---------------------------- MODULE TxExecution ----------------------------
(***************************************************************************)
(* One transaction through levm's VM (crates/vm/levm/src/vm.rs, hooks/):   *)
(* prepare, opcodes, finalize, and the caller undoing it, for a call, a    *)
(* create and a frame transaction (EIP-8141), under the L1, the L2 and the *)
(* stateless set of hooks.                                                 *)
(*                                                                         *)
(*   vm       the machine of CallFrames                                    *)
(*   tx       where the transaction stands                                 *)
(*   base     originals of cells whose frame backup was dropped:           *)
(*            BackupHook::pre_execution_backup or tx_level_backup          *)
(*   undo     db.tx_backup, a sequence of at most one backup               *)
(*   entered  what each open frame found when it was entered (history)     *)
(*   start    the cells and the cached codes before it (history)           *)
(*                                                                         *)
(* The fork is Hegota, so the Amsterdam rules are in force.  Internal      *)
(* errors of the database are not modelled.                                *)
(***************************************************************************)
EXTENDS CallFrames

CONSTANTS Modes,      \* hooks in use: subset of {"l1", "l2", "stateless"}
          Kinds,      \* subset of {"call", "create", "frame"}
          MaxOps,     \* opcodes with an effect per call or create transaction
          MaxFrameOps, \* and per frame transaction
          MaxDepth,   \* open call frames
          MaxFrames   \* frames of a frame transaction

ASSUME TxAssumption ==
    /\ Modes \subseteq {"l1", "l2", "stateless"} /\ Modes # {}
    /\ Kinds \subseteq {"call", "create", "frame"} /\ Kinds # {}
    /\ {MaxOps, MaxFrameOps, MaxDepth, MaxFrames} \subseteq Nat \ {0}

VARIABLES vm, tx, base, undo, entered, start
vars == <<vm, tx, base, undo, entered, start>>

Cost == 2        \* the most a transaction may pay for gas
CoinbaseFee == 1 \* what it does pay; the coinbase is "callee"

Empty == CallFrame("sender", FALSE)
NoPayer == "none"
Nobody == [sender_approved |-> FALSE, payer |-> NoPayer]
preserve_top_level_backup == tx.mode # "l1"
\* execute_frame_tx keeps its own outer frame below the one that runs.
Initial == IF tx.kind = "frame" THEN 2 ELSE 1
is_initial_call_frame == Len(vm.frames) = Initial

Saved(before, pushed) ==
    [cells |-> before.cells, codes |-> before.codes, sub |-> Flat(pushed.scopes)]

-----------------------------------------------------------------------------
(* VM::new, and prepare_execution of DefaultHook, L2Hook and BackupHook.   *)

Begin(kind, mode, value) ==
    /\ tx.pc = "idle"
    /\ LET to == IF kind = "frame" THEN "sender" ELSE "callee"
           v == [vm EXCEPT !.frames = <<CallFrame(to, kind = "create")>>]
       IN  vm' = IF kind = "create" THEN mark(v, "created") ELSE v
    /\ tx' = [tx EXCEPT !.pc = IF kind = "frame" THEN "frames" ELSE "prepare",
                        !.kind = kind, !.mode = mode, !.value = value]
    /\ UNCHANGED <<base, undo, entered, start>>

\* deduct_caller and the nonce bump come before the prepare region.
Charged(v) == increment_account_nonce(add_balance(v, "sender", -(Cost + tx.value)), "sender")
\* eip7702_set_access_code: the authority gets a delegation and a nonce.
set_delegation(v, a) ==
    IF a = "nobody" THEN v
    ELSE update_account_bytecode(increment_account_nonce(v, a), a, "delegation")

\* Mutant: the rollback takes the nonce and the fee back too.
fail_prepare_region_restoring(v, e) == restore_cache_state(v)
\* Undoes the writes since region entry e and keeps those before it.
fail_prepare_region(v, e) ==
    LET known == DOMAIN Top(e).orig
        new == DOMAIN Top(v).orig \ known
        cells == Restrict(e.cells, known) @@ Restrict(Top(v).orig, new) @@ v.cells
    IN  WithTop([v EXCEPT !.cells = cells, !.codes = @ \ (Top(v).codes \ Top(e).codes)], Top(e))

Afford == vm.cells.sender.balance >= Cost + tx.value
Authorities == IF tx.kind = "create" THEN {"nobody"} ELSE {"nobody"} \cup Accounts

\* Any check of prepare_execution may fail, up to the last ones, which L2Hook
\* adds after DefaultHook has run; execute() then restores everything.
PrepareInvalid(authority) ==
    /\ tx.pc = "prepare"
    /\ \E v \in {vm} \cup
               (IF ~Afford THEN {}
                ELSE LET done == set_delegation(Charged(vm), authority)
                     IN  {Charged(vm)} \cup
                         (IF tx.mode = "l2"
                          THEN {fail_prepare_region(done, Charged(vm)), add_balance(done, "callee", tx.value)}
                          ELSE {})) :
           vm' = restore_cache_state(v)
    /\ tx' = [tx EXCEPT !.pc = "rejected"]
    /\ UNCHANGED <<base, undo, entered, start>>

\* The prepare region ran out of gas: the transaction is included and reverts,
\* without value having moved.  run_execution returns before any restore.
PrepareOog(authority) ==
    /\ tx.pc = "prepare" /\ Afford
    /\ LET e == Charged(vm)
           v == fail_prepare_region(set_delegation(e, authority), e)
       IN  /\ base' = IF preserve_top_level_backup THEN Top(v) ELSE Empty
           /\ vm' = push_backup(WithTop(v, cleared(Top(v))))
    /\ tx' = [tx EXCEPT !.pc = "halted", !.ok = FALSE, !.oog = TRUE]
    /\ UNCHANGED <<undo, entered, start>>

Prepared(authority) ==
    LET v == set_delegation(Charged(vm), authority)
    IN  IF tx.kind = "create" THEN v
        ELSE LogTransfer(add_balance(v, "callee", tx.value), "sender", "callee", tx.value)

\* handle_create_transaction, once the address is known to be free.
Created(v) ==
    LET funded == add_balance(get_account_mut(v, "callee"), "callee", tx.value)
    IN  increment_account_nonce(LogTransfer(funded, "sender", "callee", tx.value), "callee")

\* The backup of the preparation is cleared so that the nonce and the fee stay
\* when the call fails, after BackupHook has copied it.
clear_backup(v) == WithTop(v, cleared(Top(v)))
Run(authority) ==
    /\ tx.pc = "prepare" /\ Afford
    /\ LET v == Prepared(authority)
           w == clear_backup(v)
           collides == tx.kind = "create" /\ create_would_collide(v)
           codeless == tx.kind = "call" /\ ~v.cells.callee.code
           pushed == push_backup(IF tx.kind = "create" THEN Created(w) ELSE w)
       IN  /\ base' = IF preserve_top_level_backup THEN Top(v) ELSE Empty
           /\ \/ /\ collides
                 /\ vm' = get_account_mut(w, "callee")
                 /\ tx' = [tx EXCEPT !.pc = "halted", !.ok = FALSE]
                 /\ UNCHANGED entered
              \/ \* is_simple_transfer_fast_path, or a precompile, which may fail:
                 \* neither reaches handle_state_backup
                 /\ codeless
                 /\ \E ok \in BOOLEAN :
                        /\ vm' = IF ok THEN w ELSE pushed
                        /\ tx' = [tx EXCEPT !.pc = "halted", !.ok = ok]
                 /\ UNCHANGED entered
              \/ /\ ~collides /\ ~codeless
                 /\ vm' = pushed
                 /\ entered' = <<Saved(w, pushed)>>
                 /\ tx' = [tx EXCEPT !.pc = "run"]
    /\ UNCHANGED <<undo, start>>

-----------------------------------------------------------------------------
(* Opcodes.                                                                *)

HasCode == Top(vm).create \/ vm.cells[Top(vm).to].code
Budget == IF tx.kind = "frame" THEN MaxFrameOps ELSE MaxOps
Executes == tx.pc = "run" /\ tx.ops < Budget /\ HasCode
Writes == Executes /\ ~tx.static
Counted == [tx EXCEPT !.ops = @ + 1]

Opcode(v) ==
    /\ vm' = v
    /\ tx' = Counted
    /\ UNCHANGED <<base, undo, entered, start>>

Sstore(x) == Writes /\ Top(vm).to = "callee" /\ Opcode(update_account_storage(vm, x))
Tstore(x) == Writes /\ Opcode(set_transient(vm, x))
Log == Writes /\ Opcode(add_log(vm))

Funds(n) == vm.cells[Top(vm).to].balance >= n
Precompile(n, ok) ==
    /\ Executes /\ Funds(n) /\ (tx.static => n = 0)
    /\ Opcode(precompile_call(vm, Other(Top(vm).to), n, ok))

Enter(v) ==
    /\ vm' = v
    /\ tx' = Counted
    /\ UNCHANGED <<base, undo, start>>

Call(to, n) ==
    /\ Executes /\ Funds(n) /\ (tx.static => n = 0)
    /\ Len(vm.frames) < MaxDepth + Initial - 1
    /\ entered' = Append(entered, World(vm))
    /\ Enter(generic_call(vm, to, n))

Create(n) ==
    /\ Writes /\ Funds(n) /\ Top(vm).to = "sender"
    /\ Len(vm.frames) < MaxDepth + Initial - 1
    /\ IF create_would_collide(Deployer(vm))
         THEN Opcode(Deployer(vm))
         ELSE entered' = Append(entered, World(Deployer(vm))) /\ Enter(generic_create(vm, n))

\* The current call halts: handle_state_backup at the first call of the
\* transaction or frame, handle_return below it.
Halts(v, ok, ctx) ==
    LET done == Deployed(v, ok)
    IN  /\ IF is_initial_call_frame
             THEN /\ vm' = handle_state_backup(done, ok, ~preserve_top_level_backup)
                  /\ tx' = [tx EXCEPT !.pc = "halted", !.ok = ok, !.ctx = ctx]
             ELSE /\ vm' = handle_return(done, ok)
                  /\ tx' = [tx EXCEPT !.ctx = ctx]
        /\ entered' = Front(entered)
        /\ UNCHANGED <<base, undo, start>>

Return(ok) == tx.pc = "run" /\ (ok \/ HasCode) /\ Halts(vm, ok, tx.ctx)
SelfDestruct == Writes /\ Halts(selfdestruct(vm), TRUE, tx.ctx)

\* apply_approve, for the scopes APPROVE_PAYMENT (1), APPROVE_EXECUTION (2) and both (3).
Pays(scope) == scope \in {1, 3}
Covers(v, scope, target) == Pays(scope) => v.cells[target].balance >= Cost
apply_approve(v, scope, target) ==
    LET ctx == tx.ctx
        permitted ==
            /\ Pays(scope) => ctx.payer = NoPayer
            /\ scope = 1 => ctx.sender_approved
            /\ scope # 1 => ~ctx.sender_approved /\ target = "sender"
        bumped == IF Pays(scope) THEN increment_account_nonce(v, "sender") ELSE v
    IN  IF ~permitted THEN [ok |-> FALSE, vm |-> v, ctx |-> ctx]
        ELSE IF ~Covers(v, scope, target) THEN [ok |-> FALSE, vm |-> bumped, ctx |-> ctx]
        ELSE [ok |-> TRUE,
              vm |-> IF Pays(scope) THEN add_balance(bumped, target, -Cost) ELSE bumped,
              ctx |-> [sender_approved |-> ctx.sender_approved \/ scope # 1,
                       payer |-> IF Pays(scope) THEN target ELSE ctx.payer]]

Approve(scope) ==
    /\ Executes /\ tx.kind = "frame"
    /\ Top(vm).to = tx.target
    /\ LET r == apply_approve(vm, scope, tx.target) IN Halts(r.vm, r.ok, r.ctx)

-----------------------------------------------------------------------------
(* finalize_execution of DefaultHook, L2Hook and BackupHook.               *)

delete_self_destruct_accounts(v) ==
    IF "doomed" \notin Flat(v.scopes).marks THEN v
    ELSE [Written(v, "callee", [v.cells.callee EXCEPT !.nonce = 0, !.code = FALSE])
            EXCEPT !.cells.slot = 0]
Paid(v, payer) == add_balance(add_balance(v, payer, Cost - CoinbaseFee), "callee", CoinbaseFee)

undo_value_transfer(v) ==
    add_balance(IF tx.kind = "create" \/ tx.oog THEN v ELSE add_balance(v, "callee", -tx.value),
                "sender", tx.value)

Outcome == IF tx.ok THEN vm ELSE undo_value_transfer(vm)
TxHalted == tx.pc = "halted" /\ tx.kind # "frame"

\* L2Hook sets the backup of the execution aside while it moves the fees, and
\* puts it back underneath theirs for BackupHook to read.
FeesSettled ==
    IF tx.mode # "l2" THEN delete_self_destruct_accounts(Paid(Outcome, "sender"))
    ELSE LET v == Paid(delete_self_destruct_accounts(clear_backup(Outcome)), "sender")
         IN  WithTop(v, extend(Top(v), Top(Outcome)))

Finalize ==
    /\ TxHalted
    /\ vm' = FeesSettled
    /\ undo' = IF preserve_top_level_backup THEN <<extend(Top(FeesSettled), base)>> ELSE <<>>
    /\ tx' = [tx EXCEPT !.pc = "done"]
    /\ UNCHANGED <<base, entered, start>>

\* Moving the fees failed half way (a fee token call): only they are undone.
FinalizeFails ==
    /\ TxHalted /\ tx.mode = "l2"
    /\ LET v == delete_self_destruct_accounts(clear_backup(Outcome))
       IN  vm' = restore_cache_state(add_balance(v, "sender", Cost - CoinbaseFee))
    /\ tx' = [tx EXCEPT !.pc = "failed"]
    /\ UNCHANGED <<base, undo, entered, start>>

\* undo_last_transaction: a block builder drops a transaction it has executed
\* (the L1 builder one that overflows the block's gas, the L2 builder one with
\* an invalid message), and stateless_execute takes every one back.  The L1
\* hooks leave no backup: there get_tx_backup fails, the builder drops the
\* transaction on that error, and what it did stays in the cache.
UndoLast ==
    /\ tx.pc = "done"
    /\ \/ /\ undo # <<>>
          /\ vm' = restore(vm, Head(undo))
          /\ tx' = [tx EXCEPT !.pc = "rejected"]
       \/ /\ undo = <<>>
          /\ tx' = [tx EXCEPT !.pc = "dropped"]
          /\ UNCHANGED vm
    /\ UNCHANGED <<base, undo, entered, start>>
=============================================================================
