----------------------------- MODULE ForkChoice -----------------------------
(***************************************************************************)
(* Fork choice as the node runs it: several callers (engine_forkchoice-    *)
(* Updated requests, debug_setHead, the L2 block producer and fetcher)     *)
(* validate against the tables without a lock and then write through       *)
(* Store::forkchoice_update, which serialises only the write (fcu_lock).   *)
(* A head whose state is unreachable goes through the deep-reorg pass,     *)
(* which at most one caller may hold (Blockchain::enter_reorg).            *)
(*                                                                         *)
(* Which states the store can read is decided by TrieStore; here it is an  *)
(* environment choice (`stateful`), so what is shown holds whatever the    *)
(* store evicts.                                                           *)
(***************************************************************************)
EXTENDS ForkChoiceRules

CONSTANTS
    Caller,     \* tasks that may be inside apply_fork_choice at once
    NoCaller,
    FcState,    \* the fork-choice states a consensus client may send
    Threshold   \* the layer cache's commit_threshold (DB_COMMIT_THRESHOLD)

ASSUME CallerAssumption == NoCaller \notin Caller
ASSUME FcStateAssumption ==
    FcState \subseteq [head : Block, safe : Block \cup {NoBlock},
                       fin : Block \cup {NoBlock}]
ASSUME ThresholdAssumption == Threshold \in Nat \ {0}

VARIABLES
    known,               \* stored headers (block buffer or disk)
    stateful,            \* blocks whose state root has_state_root finds
    canonical,           \* CANONICAL_BLOCK_HASHES
    latest,              \* ChainData::LatestBlockNumber
    finalized,           \* ChainData::FinalizedBlockNumber, -1 when unset
    latest_block_header, \* the in-memory head header
    safe_commit_root,    \* the cell gating trie commits, NoBlock when zero
    fcu_lock,            \* holder of Store::fcu_lock
    reorg,               \* holder of Blockchain::reorg_in_progress
    call                 \* each caller's position and arguments

vars == <<known, stateful, canonical, latest, finalized, latest_block_header,
          safe_commit_root, fcu_lock, reorg, call>>

Idle == [pc |-> "idle", head |-> NoBlock, fin |-> NoBlock, branch |-> {},
         previous_head |-> NoBlock]

Init ==
    /\ known = {Genesis}
    /\ stateful = {Genesis}
    /\ canonical = [n \in Height |-> IF n = 0 THEN Genesis ELSE NoBlock]
    /\ latest = 0
    /\ finalized = -1
    /\ latest_block_header = Genesis
    /\ safe_commit_root = NoBlock
    /\ fcu_lock = NoCaller
    /\ reorg = NoCaller
    /\ call = [c \in Caller |-> Idle]

tables == <<canonical, latest, finalized, latest_block_header,
            safe_commit_root, fcu_lock, reorg, call>>

-----------------------------------------------------------------------------
(* The store's side: blocks arrive and are executed, states are evicted.   *)

\* engine_newPayload stashes a block whose parent's state is not readable:
\* header and body are stored, nothing is executed.
Stash(b) ==
    /\ b \notin known
    /\ Parent[b] \in known
    /\ Parent[b] \notin stateful
    /\ known' = known \cup {b}
    /\ UNCHANGED <<stateful, tables>>

\* Blockchain::add_block: execution on a readable parent state.
Execute(b) ==
    /\ b # Genesis
    /\ b \notin stateful
    /\ Parent[b] \in known \cap stateful
    /\ known' = known \cup {b}
    /\ stateful' = stateful \cup {b}
    /\ UNCHANGED tables

\* A trie commit moves the single on-disk version past b's state, or a cache
\* swap drops its layer.
Evict(b) ==
    /\ b \in stateful
    /\ stateful' = stateful \ {b}
    /\ UNCHANGED <<known, tables>>

-----------------------------------------------------------------------------
(* apply_fork_choice_with_deep_reorg                                       *)

\* The lock-free part: the reorg-in-progress short circuit and every check of
\* apply_fork_choice.  An error is answered at once and leaves no trace, so
\* the reorg ceiling is taken at its largest (no reorg reaches below genesis):
\* a smaller one only turns more requests into errors.
Validate(c, fc) ==
    /\ call[c].pc = "idle"
    /\ reorg = NoCaller
    /\ LET head == fc.head
           seen == Number[latest_block_header]
           answer == ApplyForkChoice(known, canonical, seen, finalized,
                        stateful, seen, head, fc.safe, fc.fin)
       IN /\ answer \in {"Ok", "StateNotReachable"}
          /\ call' = [call EXCEPT ![c] =
                [pc     |-> IF answer = "Ok" THEN "apply" ELSE "claim",
                 head   |-> head,
                 fin    |-> fc.fin,
                 branch |-> Branch(canonical, head),
                 previous_head |-> NoBlock]]
    /\ UNCHANGED <<known, stateful, canonical, latest, finalized,
                   latest_block_header, safe_commit_root, fcu_lock, reorg>>

\* Mutant of ClaimReorg: the slot is stored instead of test-and-set.
ClaimReorgUnchecked(c) ==
    /\ call[c].pc = "claim"
    /\ reorg' = c
    /\ call' = [call EXCEPT ![c].pc = "replay",
                    ![c].branch = Branch(canonical, call[c].head)]
    /\ UNCHANGED <<known, stateful, canonical, latest, finalized,
                   latest_block_header, safe_commit_root, fcu_lock>>

\* reorg_apply_deep claims the reorg slot and recomputes the branch; a caller
\* that finds the slot taken, or no link, answers SYNCING or an error.
ClaimReorg(c) ==
    /\ call[c].pc = "claim"
    /\ IF reorg = NoCaller /\ Linked(known, canonical, call[c].head)
       THEN /\ reorg' = c
            /\ call' = [call EXCEPT ![c].pc = "replay",
                            ![c].branch = Branch(canonical, call[c].head)]
       ELSE /\ call' = [call EXCEPT ![c] = Idle]
            /\ UNCHANGED reorg
    /\ UNCHANGED <<known, stateful, canonical, latest, finalized,
                   latest_block_header, safe_commit_root, fcu_lock>>

\* The overlay is installed and the side chain replayed: the branch and the
\* head become readable.
Replayed(c) ==
    /\ call[c].pc = "replay"
    /\ stateful' = stateful \cup call[c].branch \cup {call[c].head}
    /\ call' = [call EXCEPT ![c].pc = "apply"]
    /\ UNCHANGED <<known, canonical, latest, finalized, latest_block_header,
                   safe_commit_root, fcu_lock, reorg>>

\* The pass fails (no journal entry, an invalid block, a missing body): the
\* guards reset the layer cache and release the slot.
ReplayFailed(c) ==
    /\ call[c].pc = "replay"
    /\ stateful' \in SUBSET stateful
    /\ call' = [call EXCEPT ![c] = Idle]
    /\ reorg' = NoCaller
    /\ UNCHANGED <<known, canonical, latest, finalized, latest_block_header,
                   safe_commit_root, fcu_lock>>

\* Store::forkchoice_update takes fcu_lock and publishes the new head in
\* memory before the transaction.
UpdateHeadCache(c) ==
    /\ call[c].pc = "apply"
    /\ fcu_lock = NoCaller
    /\ fcu_lock' = c
    /\ latest_block_header' = call[c].head
    /\ call' = [call EXCEPT ![c].pc = "txn",
                            ![c].previous_head = latest_block_header]
    /\ UNCHANGED <<known, stateful, canonical, latest, finalized,
                   safe_commit_root, reorg>>

\* Mutant of Release: the lock outlives the call.
ReleaseKeepsLock(c) ==
    /\ reorg' = IF reorg = c THEN NoCaller ELSE reorg
    /\ call' = [call EXCEPT ![c] = Idle]
    /\ UNCHANGED fcu_lock

\* The guards dropped on return: the lock, and the reorg slot if held.
Release(c) ==
    /\ fcu_lock' = NoCaller
    /\ reorg' = IF reorg = c THEN NoCaller ELSE reorg
    /\ call' = [call EXCEPT ![c] = Idle]

\* forkchoice_update_inner: one transaction over the canonical table, the
\* head and the finalized number; then the safe-commit root is recomputed and
\* left alone when the chain is shorter than the threshold.
CommitTxn(c) ==
    /\ call[c].pc = "txn"
    /\ LET head == call[c].head
           canon == CanonicalAfter(canonical, latest, call[c].branch, head)
           safe_root == compute_safe_commit_root(canon, Threshold, head)
       IN /\ canonical' = canon
          /\ latest' = Number[head]
          /\ finalized' = IF call[c].fin \in known THEN Number[call[c].fin]
                                                  ELSE finalized
          /\ safe_commit_root' = IF safe_root # NoBlock THEN safe_root
                                                        ELSE safe_commit_root
    /\ Release(c)
    /\ UNCHANGED <<known, stateful, latest_block_header>>

\* Mutant of TxnFailed: the cached head keeps the block that was not written.
TxnFailedNoRollback(c) ==
    /\ call[c].pc = "txn"
    /\ Release(c)
    /\ stateful' \in IF reorg = c THEN SUBSET stateful ELSE {stateful}
    /\ UNCHANGED <<known, canonical, latest, finalized, latest_block_header,
                   safe_commit_root>>

\* The transaction fails: the cached head is rolled back to the header seen
\* when the lock was taken.
TxnFailed(c) ==
    /\ call[c].pc = "txn"
    /\ latest_block_header' = call[c].previous_head
    /\ Release(c)
    /\ stateful' \in IF reorg = c THEN SUBSET stateful ELSE {stateful}
    /\ UNCHANGED <<known, canonical, latest, finalized, safe_commit_root>>

-----------------------------------------------------------------------------

Env == \E b \in Block : Stash(b) \/ Execute(b) \/ Evict(b)

Fcu(c) ==
    \/ \E fc \in FcState : Validate(c, fc)
    \/ ClaimReorg(c)
    \/ Replayed(c)
    \/ ReplayFailed(c)
    \/ UpdateHeadCache(c)
    \/ CommitTxn(c)
    \/ TxnFailed(c)

Next == Env \/ \E c \in Caller : Fcu(c)

\* A caller inside the handler keeps running; the lock is granted in turn.
Progress(c) ==
    \/ ClaimReorg(c)
    \/ Replayed(c)
    \/ ReplayFailed(c)
    \/ CommitTxn(c)
    \/ TxnFailed(c)

Fairness == \A c \in Caller :
    WF_vars(Progress(c)) /\ SF_vars(UpdateHeadCache(c))

Spec == Init /\ [][Next]_vars

FairSpec == Spec /\ Fairness

-----------------------------------------------------------------------------
(* Properties.                                                             *)

CallState ==
    [pc : {"idle", "apply", "claim", "replay", "txn"},
     head : Block \cup {NoBlock}, fin : Block \cup {NoBlock},
     branch : SUBSET Block, previous_head : Block \cup {NoBlock}]

\* Every variable keeps its type.
TypeOK ==
    /\ known \in SUBSET Block
    /\ stateful \in SUBSET Block
    /\ canonical \in [Height -> Block \cup {NoBlock}]
    /\ latest \in Height
    /\ finalized \in Height \cup {-1}
    /\ latest_block_header \in Block
    /\ safe_commit_root \in Block \cup {NoBlock}
    /\ fcu_lock \in Caller \cup {NoCaller}
    /\ reorg \in Caller \cup {NoCaller}
    /\ call \in [Caller -> CallState]

\* "All head's ancestors and itself are made canonical" (apply_fork_choice):
\* up to the latest number the canonical table is exactly the ancestor chain
\* of the head, and above it there is nothing left of an earlier chain.
CanonicalChainLinked ==
    /\ canonical[latest] \in Block
    /\ \A n \in Height :
          /\ n <= latest => /\ canonical[n] \in Anc[canonical[latest]]
                           /\ Number[canonical[n]] = n
          /\ n > latest => canonical[n] = NoBlock

\* Whenever no fork-choice write is in progress, the in-memory head is the
\* canonical head of the database, failed transactions included
\* (Store::forkchoice_update's rollback).
HeadCacheAgrees ==
    fcu_lock = NoCaller => latest_block_header = canonical[latest]

\* The deep-reorg slot is always held by a caller still inside its pass: no
\* exit path leaks it (ReorgGuard), and no caller replays without it.
ReorgSlotOwned ==
    /\ reorg # NoCaller => call[reorg].pc \in {"replay", "apply", "txn"}
    /\ \A c \in Caller : call[c].pc = "replay" => reorg = c

\* Every fork-choice request is answered: no order of lock and slot
\* acquisitions leaves a caller waiting forever.
FcuAnswered ==
    \A c \in Caller : call[c].pc # "idle" ~> call[c].pc = "idle"

\* "Check that finalized and safe blocks are part of the new canonical chain"
\* (apply_fork_choice): the finalized block of an applied fork choice is on
\* the canonical chain it leaves behind.
FinalizedOnNewChain ==
    [][\A c \in Caller :
          CommitTxn(c) /\ call[c].fin \in known
            => is_canonical(canonical', call[c].fin)]_vars
=============================================================================
