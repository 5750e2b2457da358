----------------------------- MODULE CallFrames -----------------------------
(***************************************************************************)
(* How levm undoes state changes (crates/vm/levm/src).                     *)
(*                                                                         *)
(* Execution mutates one shared cache of accounts, storage slots and       *)
(* codes.  Every call frame carries a CallFrameBackup, the original value  *)
(* of each cell the frame was the first to write, and the Substate keeps a *)
(* chain of scopes (accessed and created accounts, refund, transient       *)
(* storage, logs), one per open call.  A frame that succeeds hands its     *)
(* backup and scope to its parent; one that fails restores from them.      *)
(*                                                                         *)
(* A machine v is a record                                                 *)
(*   cells   two accounts and one slot of "callee": the account cache      *)
(*   codes   the bytecodes cached by hash                                  *)
(*   frames  the open call frames with their backups, the current one last *)
(*   scopes  the substate chain, the current scope last                    *)
(*                                                                         *)
(* Addresses, slots, balances and code are abstracted to a few cells; gas  *)
(* decides nothing here beyond "this step fails", which is a free choice.  *)
(* The block access list recorder is left out.                             *)
(***************************************************************************)
EXTENDS Integers, Sequences, SequencesExt, Functions, TLC

Accounts == {"sender", "callee"}
Other(a) == CHOOSE b \in Accounts : b # a

CallFrame(to, create) == [to |-> to, create |-> create, orig |-> <<>>, codes |-> {}]
Scope(refund) == [marks |-> {}, refund |-> refund, transient |-> <<>>, logs |-> 0]

Top(v) == Last(v.frames)
WithTop(v, f) == [v EXCEPT !.frames[Len(v.frames)] = f]
cleared(f) == [f EXCEPT !.orig = <<>>, !.codes = {}]

-----------------------------------------------------------------------------
(* Writing: the first write of a frame to a cell records the original.     *)

backup(f, c, old) == [f EXCEPT !.orig = @ @@ (c :> old)]

get_account_mut(v, c) == WithTop(v, backup(Top(v), c, v.cells[c]))
Written(v, c, new) == [get_account_mut(v, c) EXCEPT !.cells[c] = new]

increment_account_nonce(v, a) == Written(v, a, [v.cells[a] EXCEPT !.nonce = @ + 1])
\* Adding nothing returns before the account is loaded.
add_balance(v, a, n) == IF n = 0 THEN v ELSE Written(v, a, [v.cells[a] EXCEPT !.balance = @ + n])
transfer(v, from, to, n) == add_balance(add_balance(v, from, -n), to, n)

\* A code already cached was put there by someone else and is not this
\* frame's to evict.
CachedCode(v, h) ==
    IF h \in v.codes THEN v
    ELSE [WithTop(v, [Top(v) EXCEPT !.codes = @ \cup {h}]) EXCEPT !.codes = @ \cup {h}]
update_account_bytecode(v, a, h) ==
    CachedCode(Written(v, a, [v.cells[a] EXCEPT !.code = TRUE]), h)

\* An SSTORE loads the account too; clearing a slot earns a refund.
update_account_storage(v, x) ==
    LET w == Written(get_account_mut(v, "callee"), "slot", x)
    IN  [w EXCEPT !.scopes[Len(w.scopes)].refund = @ + (IF x = 0 THEN v.cells.slot ELSE 0)]

-----------------------------------------------------------------------------
(* Backups: restoring from one, and handing one on.                        *)

restore(v, b) == [v EXCEPT !.cells = b.orig @@ @, !.codes = @ \ b.codes]
restore_cache_state(v) == restore(v, Top(v))

\* Mutant: the child's backup is dropped when it returns.
mergeDropsChild(v, child) == v
merge_call_frame_backup_with_parent(v, child) ==
    WithTop(v, [Top(v) EXCEPT !.orig = @ @@ child.orig, !.codes = @ \cup child.codes])

\* CallFrameBackup::extend, the argument wins; CallFrameBackup::absorb, what is
\* there already wins and the list of inserted codes is not taken over.
extend(b, other) == [b EXCEPT !.orig = other.orig @@ @, !.codes = @ \cup other.codes]
absorb(b, other) == [b EXCEPT !.orig = @ @@ other.orig]

-----------------------------------------------------------------------------
(* The substate chain.                                                     *)

push_backup(v) == [v EXCEPT !.scopes = Append(@, Scope(Last(@).refund))]
revert_backup(v) == IF Len(v.scopes) = 1 THEN v ELSE [v EXCEPT !.scopes = Front(@)]
Joined(parent, delta) ==
    [marks |-> parent.marks \cup delta.marks,
     refund |-> delta.refund,
     transient |-> delta.transient @@ parent.transient,
     logs |-> parent.logs + delta.logs]
commit_backup(v) ==
    IF Len(v.scopes) = 1 THEN v
    ELSE LET rest == Front(v.scopes)
         IN  [v EXCEPT !.scopes = Append(Front(rest), Joined(Last(rest), Last(v.scopes)))]

\* What the whole chain amounts to: lookups walk from the last scope down.
Flat(scopes) == FoldLeft(Joined, Head(scopes), Tail(scopes))

CurrentScope(v) == Last(v.scopes)
WithScope(v, s) == [v EXCEPT !.scopes[Len(v.scopes)] = s]
mark(v, m) == WithScope(v, [CurrentScope(v) EXCEPT !.marks = @ \cup {m}])
add_log(v) == WithScope(v, [CurrentScope(v) EXCEPT !.logs = @ + 1])
LogTransfer(v, from, to, n) == IF n = 0 \/ from = to THEN v ELSE add_log(v)
set_transient(v, x) == WithScope(v, [CurrentScope(v) EXCEPT !.transient = ("key" :> x) @@ @])
clear_transient_storage(v) == WithScope(v, [CurrentScope(v) EXCEPT !.transient = <<>>])

-----------------------------------------------------------------------------
(* Entering and leaving calls.                                             *)

push_frame(v, f) == [v EXCEPT !.frames = Append(@, f)]

generic_call(v, to, n) ==
    LET from == Top(v).to
    IN  LogTransfer(push_backup(transfer(push_frame(v, CallFrame(to, FALSE)), from, to, n)), from, to, n)

\* A precompile runs in the caller's own frame; value moves only if it succeeds
\* (without value such a call changes nothing).
precompile_call(v, to, n, ok) ==
    IF ok THEN LogTransfer(transfer(v, Top(v).to, to, n), Top(v).to, to, n) ELSE v

Deployer(v) == increment_account_nonce(get_account_mut(v, "callee"), Top(v).to)
create_would_collide(v) == v.cells.callee.nonce > 0 \/ v.cells.callee.code
generic_create(v, n) ==
    LET from == Top(v).to
        child == push_frame(Deployer(v), CallFrame("callee", TRUE))
        funded == transfer(increment_account_nonce(child, "callee"), from, "callee", n)
    IN  LogTransfer(mark(push_backup(funded), "created"), from, "callee", n)

\* A create frame that succeeds installs the code it returned.
Deployed(v, ok) == IF ok /\ Top(v).create THEN update_account_bytecode(v, "callee", "deployed") ELSE v

selfdestruct(v) ==
    LET to == Top(v).to
        n == v.cells[to].balance
        moved == LogTransfer(transfer(v, to, Other(to), n), to, Other(to), n)
    IN  IF to = "callee" /\ "created" \in Flat(v.scopes).marks THEN mark(moved, "doomed") ELSE moved

\* Mutant: the backup is cleared before the restore reads it.
handle_state_backup_cleared(v, ok, consume) ==
    IF ok THEN commit_backup(v)
    ELSE restore_cache_state(WithTop(revert_backup(v), cleared(Top(v))))
handle_state_backup(v, ok, consume) ==
    IF ok THEN commit_backup(v)
    ELSE LET r == restore_cache_state(revert_backup(v))
         IN  IF consume THEN WithTop(r, cleared(Top(r))) ELSE r

handle_return(v, ok) ==
    LET done == handle_state_backup(v, ok, TRUE)
        parent == [done EXCEPT !.frames = Front(@)]
    IN  IF ok THEN merge_call_frame_backup_with_parent(parent, Top(done)) ELSE parent

\* Everything a call can observe.
World(v) == [cells |-> v.cells, codes |-> v.codes, sub |-> Flat(v.scopes)]

\* The world that undoing the frames and scopes above level i would leave: the
\* oldest backup wins, and every code cached since is evicted.
Unwound(v, i) ==
    LET open == SubSeq(v.frames, i, Len(v.frames))
        undone == FoldRight(LAMBDA f, w : [w EXCEPT !.orig = f.orig @@ @, !.codes = @ \cup f.codes],
                            open, CallFrame("sender", FALSE))
    IN  restore(v, undone)
=============================================================================
