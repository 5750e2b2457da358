----------------------------- MODULE TrieStore -----------------------------
(***************************************************************************)
(* The state side of the store (crates/storage/store.rs, layering.rs,      *)
(* journal.rs) and the operations that drive it.                           *)
(*                                                                         *)
(* The disk holds ONE version of the trie.  Executed blocks leave diff     *)
(* layers in memory, keyed by state root; a single persist worker takes    *)
(* messages in order, installs layers and folds those at or below the      *)
(* safe-commit root into the disk, writing a reverse diff per block to the *)
(* STATE_HISTORY journal.  A fork choice to a block whose state is neither *)
(* in a layer nor on disk runs the deep-reorg pass: the journal is folded  *)
(* into an overlay that shows the pivot's state over the disk, the layer   *)
(* cache is replaced, the side chain is executed again, and the overlay    *)
(* waits for the first commit of the new chain to be reconciled with the   *)
(* disk.  A restart loses everything but the disk.                         *)
(*                                                                         *)
(* Concurrent parties: the block worker executing a payload (exec), one    *)
(* fork-choice caller (pass; races between callers are ForkChoice's        *)
(* subject) and the persist worker (queue).  A worker message is two       *)
(* steps, install and commit, because fork choices land between them.      *)
(***************************************************************************)
EXTENDS TrieStates, Sequences

CONSTANTS
    Threshold,      \* commit_threshold (DB_COMMIT_THRESHOLD, 128)
    QueueCap,       \* persist channel capacity plus the message in hand
    FcState,        \* the fork-choice states a consensus client may send
    MaxFaults       \* bound on crashes and failed writes

ASSUME StoreAssumption ==
    /\ Threshold \in Nat \ {0}
    /\ QueueCap \in Nat \ {0}
    /\ MaxFaults \in Nat
    /\ FcState \subseteq [head : Block, safe : Block \cup {NoBlock},
                          fin : Block \cup {NoBlock}]

VARIABLES
    known,              \* stored headers and bodies
    canonical,          \* CANONICAL_BLOCK_HASHES
    latest,             \* LatestBlockNumber
    finalized,          \* FinalizedBlockNumber, -1 when unset
    safe_commit_root,   \* the commit gate's cell, NoBlock when zero
    layers,             \* blocks with a diff layer in trie_cache
    older,              \* layer -> the layers that have a smaller id
    overlay,            \* the reverse diff installed by a deep reorg
    disk,               \* the on-disk trie: path -> version
    journal,            \* STATE_HISTORY: height -> reverse diff
    queue,              \* the persist worker's channel, message in hand first
    last_flush_result,  \* an earlier commit failed and nobody was told yet
    exec,               \* the payload the block worker is executing
    pass,               \* the fork-choice caller or the startup code
    stray,              \* history: a diff was laid over a foreign base
    faults

chain_vars == <<known, canonical, latest, finalized, safe_commit_root>>
cache_vars == <<layers, older, overlay>>
disk_vars == <<disk, journal>>
vars == <<known, canonical, latest, finalized, safe_commit_root, layers,
          older, overlay, disk, journal, queue, last_flush_result, exec, pass,
          stray, faults>>

NoEntry == [block |-> NoBlock, parent |-> NoBlock, diff |-> NoDiff]
NoOverlay == [serves |-> NoBlock, to |-> 0, from |-> 0, diff |-> NoDiff]
NoExec == [pc |-> "idle", b |-> NoBlock]
NoPass == [pc |-> "idle", head |-> NoBlock, fin |-> NoBlock, todo |-> {},
           overlay |-> NoOverlay, base |-> NoBlock]

Init ==
    /\ known = {Genesis}
    /\ canonical = [n \in Height |-> IF n = 0 THEN Genesis ELSE NoBlock]
    /\ latest = 0
    /\ finalized = -1
    /\ safe_commit_root = NoBlock
    /\ layers = {}
    /\ older = [b \in Block |-> {}]
    /\ overlay = NoOverlay
    /\ disk = State[Genesis]
    /\ journal = [n \in Height |-> NoEntry]
    /\ queue = <<>>
    /\ last_flush_result = "Ok"
    /\ exec = NoExec
    /\ pass = NoPass
    /\ stray = FALSE
    /\ faults = 0

-----------------------------------------------------------------------------
(* Reading.                                                                *)

\* The layers a walk along parent links from b meets.
LayerChain(b) ==
    IF b \notin layers THEN {}
    ELSE {a \in Anc[b] : \A c \in Anc[b] : Number[c] >= Number[a] => c \in layers}

\* Mutant of overlay_serves: the layers of the new chain read the old disk.
overlay_serves_pivot_only(b) == overlay # NoOverlay /\ b = overlay.serves

\* TrieLayerCache::overlay_serves.
overlay_serves(b) ==
    overlay # NoOverlay /\ (b = overlay.serves \/ b \in layers)

\* What lies under the layers for a reader at b.
Below(b) == IF overlay_serves(b) THEN Over(overlay.diff, disk) ELSE disk

\* TrieWrapper::get: layers, then the overlay if it serves the root, then
\* the disk.
Read(b, k) ==
    LET writers == Writers(LayerChain(b), k)
    IN IF writers = {} THEN Below(b)[k] ELSE Highest(writers)

\* Store::has_state_root: the root node found at b hashes to b's state root.
has_state_root(b) == Read(b, RootKey) = b

\* PendingTrieRoots: executed, layer not installed yet.  A reader waits.
Pending == {queue[i].b : i \in {j \in 1..Len(queue) : queue[j].type = "block"}}

\* Execution on the parent's state reproduces the header's state root: every
\* path the block touches is read at its right version.
Executable(b) ==
    \A k \in Writes[b] : Read(Parent[b], k) = State[Parent[b]][k]

\* The state everything in memory is a diff against.
Base == IF overlay = NoOverlay THEN disk[RootKey] ELSE overlay.serves

\* A chain of layers is a diff against the base.
RestsOnBase(chain) ==
    \E a \in chain : Parent[a] = Base /\ \A c \in chain : Number[a] <= Number[c]

\* The layers under b lead down to the base.
Anchored(b) == IF b \in layers THEN RestsOnBase(LayerChain(b)) ELSE b = Base

-----------------------------------------------------------------------------
(* Committing layers to disk.                                              *)

\* TrieLayerCache::get_commitable: the safe-commit root, if the walk from the
\* executed block's parent meets it.
get_commitable(parent) == {safe_commit_root} \cap LayerChain(parent)

\* TrieLayerCache::get_commitable_by_depth.
get_commitable_by_depth(parent) ==
    {a \in LayerChain(parent) : Number[a] = Number[parent] - Threshold + 1}

\* TrieLayerCache::bottom_layer_root.
bottom_layer_root(root) ==
    CHOOSE a \in LayerChain(root) : \A c \in LayerChain(root) : Number[a] <= Number[c]

\* Mutant of DiskAfter: the bridge entries are not written.
DiskAfterNoBridge(chain) == WritesOver(chain, disk)

\* The layers' writes over the overlay's bridge entries over the disk.
DiskAfter(chain) == WritesOver(chain, Over(overlay.diff, disk))

\* Mutant of Entry: every pre-image is read from disk.
EntryFromDisk(b, chain) ==
    [block  |-> b,
     parent |-> Parent[b],
     diff   |-> [k \in Key |-> IF k \in Writes[b] THEN disk[k] ELSE NoBlock]]

\* The reverse diff of one committed layer: a path's pre-image comes from the
\* layers committed before it in the same batch, else from the overlay, else
\* from disk.  The reconciliation layer also journals the overlay's paths.
Entry(b, chain) ==
    LET pre == DiskAfter({a \in chain : Number[a] < Number[b]})
    IN [block  |-> b,
        parent |-> Parent[b],
        diff   |-> [k \in Key |->
                      IF k \in Writes[b] \/ overlay.diff[k] # NoBlock
                      THEN pre[k] ELSE NoBlock]]

\* One entry per committed block; a reconciliation first deletes the old
\* chain's entries in [to, from].
JournalAfter(chain) ==
    [n \in Height |->
        IF \E b \in chain : Number[b] = n
        THEN Entry(CHOOSE b \in chain : Number[b] = n, chain)
        ELSE IF /\ overlay # NoOverlay
                /\ n \in overlay.to .. overlay.from
                /\ \E b \in chain : Number[b] = overlay.to
             THEN NoEntry
        ELSE journal[n]]

\* TrieLayerCache::commit keeps only layers younger than the committed one.
Commit(root, chain) ==
    LET kept == {b \in layers \ chain : root \in older[b]}
    IN /\ layers' = kept
       /\ older' = [b \in Block |-> IF b \in kept THEN older[b] \cap kept ELSE {}]

\* commit_to_disk: while an overlay is installed only the bottom layer is
\* committed, and the overlay is folded in and cleared.
commit_to_disk(target) ==
    IF target \in layers
    THEN LET root == IF overlay = NoOverlay THEN target
                     ELSE bottom_layer_root(target)
             chain == LayerChain(root)
         IN /\ disk' = DiskAfter(chain)
            /\ journal' = JournalAfter(chain)
            /\ Commit(root, chain)
            /\ overlay' = NoOverlay
            /\ stray' = (stray \/ ~RestsOnBase(chain))
    ELSE UNCHANGED <<disk, journal, layers, older, overlay, stray>>

-----------------------------------------------------------------------------
(* The persist worker.                                                     *)

Room == Len(queue) < QueueCap
Msg(type, b, from) == [type |-> type, b |-> b, from |-> from]

\* Who waits for the acknowledgement of a message, and what they see: the
\* result of an earlier flush.
Acked(from) ==
    /\ exec' = IF from = "payload" THEN NoExec ELSE exec
    /\ pass' = CASE from = "replay" ->
                      IF last_flush_result = "Ok"
                      THEN [pass EXCEPT !.pc = "replay"]
                      ELSE [pass EXCEPT !.pc = "abort"]
                 [] from = "regen" ->
                      IF last_flush_result = "Ok"
                      THEN [pass EXCEPT !.pc = "regen"]
                      ELSE [pass EXCEPT !.pc = "down"]
                 [] OTHER -> pass

\* PersistMessage::Block, first half: stage and flush the block's data, ack
\* with the previous flush's result, install the layer.
WorkerInstall ==
    /\ queue # <<>>
    /\ Head(queue).type = "block"
    /\ LET b == Head(queue).b
       IN /\ known' = known \cup {b}
          /\ layers' = layers \cup {b}
          /\ older' = IF b \in layers THEN older ELSE [older EXCEPT ![b] = layers]
          /\ queue' = <<[Head(queue) EXCEPT !.type = "due"]>> \o Tail(queue)
          /\ Acked(Head(queue).from)
          /\ last_flush_result' = "Ok"
    /\ UNCHANGED <<canonical, latest, finalized, safe_commit_root, overlay,
                   disk_vars, stray, faults>>

\* PersistMessage::Block, second half: commit_trie_if_due, by the canonical
\* gate or, while the head state is regenerated, by depth.
WorkerCommitDue ==
    /\ queue # <<>>
    /\ Head(queue).type = "due"
    /\ LET parent == Parent[Head(queue).b]
           due == IF Head(queue).from = "regen"
                  THEN get_commitable_by_depth(parent)
                  ELSE get_commitable(parent)
       IN IF due = {}
          THEN UNCHANGED <<disk, journal, layers, older, overlay, stray>>
          ELSE commit_to_disk(CHOOSE root \in due : TRUE)
    /\ queue' = Tail(queue)
    /\ UNCHANGED <<chain_vars, last_flush_result, exec, pass, faults>>

\* PersistMessage::Commit(root), sent by a fork choice.
WorkerCommit ==
    /\ queue # <<>>
    /\ Head(queue).type = "commit"
    /\ commit_to_disk(Head(queue).b)
    /\ queue' = Tail(queue)
    /\ UNCHANGED <<chain_vars, last_flush_result, exec, pass, faults>>

\* The write batch fails: nothing is written and the layers stay.  A block's
\* message leaves the error to the next acknowledgement; a commit message
\* only logs it.
WorkerWriteFails ==
    /\ queue # <<>>
    /\ Head(queue).type \in {"due", "commit"}
    /\ faults < MaxFaults
    /\ faults' = faults + 1
    /\ queue' = Tail(queue)
    /\ last_flush_result' = IF Head(queue).type = "due" THEN "Err"
                            ELSE last_flush_result
    /\ UNCHANGED <<chain_vars, cache_vars, disk_vars, exec, pass, stray>>

\* Mutant of WorkerPing: a pending error is kept and nobody is answered.
WorkerPingNoAnswer ==
    /\ queue # <<>>
    /\ Head(queue).type = "ping"
    /\ pass' = IF last_flush_result = "Ok"
               THEN [pass EXCEPT !.pc = IF Head(queue).from = "install"
                                        THEN "swap" ELSE "reset"]
               ELSE pass
    /\ queue' = Tail(queue)
    /\ UNCHANGED <<chain_vars, cache_vars, disk_vars, last_flush_result, exec,
                   stray, faults>>

\* PersistMessage::Ping: the worker is idle; the sender learns of a pending
\* error, which makes its rendezvous fail.
WorkerPing ==
    /\ queue # <<>>
    /\ Head(queue).type = "ping"
    /\ pass' = IF last_flush_result = "Ok"
               THEN [pass EXCEPT !.pc = IF Head(queue).from = "install"
                                        THEN "swap" ELSE "reset"]
               ELSE NoPass
    /\ last_flush_result' = "Ok"
    /\ queue' = Tail(queue)
    /\ UNCHANGED <<chain_vars, cache_vars, disk_vars, exec, stray, faults>>

-----------------------------------------------------------------------------
(* engine_newPayload and the block worker.                                 *)

\* try_execute_payload answers without touching the store while a deep reorg
\* is in progress or when the block is known and its state, or not even its
\* parent's state, is readable.
PayloadWanted(b) ==
    /\ b # Genesis
    /\ pass.pc = "idle"
    /\ Parent[b] \in known
    /\ Pending \cap {b, Parent[b]} = {}
    /\ b \in known => ~has_state_root(b) /\ has_state_root(Parent[b])

\* The parent's state is not readable: stored without execution (ACCEPTED).
StashPayload(b) ==
    /\ PayloadWanted(b)
    /\ ~has_state_root(Parent[b])
    /\ known' = known \cup {b}
    /\ UNCHANGED <<canonical, latest, finalized, safe_commit_root, cache_vars,
                   disk_vars, queue, last_flush_result, exec, pass, stray, faults>>

\* The block is handed to the block worker; nothing rechecks the guards when
\* its turn comes.
AcceptPayload(b) ==
    /\ PayloadWanted(b)
    /\ has_state_root(Parent[b])
    /\ exec = NoExec
    /\ exec' = [pc |-> "queued", b |-> b]
    /\ UNCHANGED <<chain_vars, cache_vars, disk_vars, queue, last_flush_result,
                   pass, stray, faults>>

\* add_block_pipeline_inner: execute on the parent's state, check the state
\* root, register the pending root, send the block to the persist worker.
ExecutePayload ==
    /\ exec.pc = "queued"
    /\ Parent[exec.b] \notin Pending
    /\ IF Executable(exec.b)
       THEN /\ Room
            /\ queue' = Append(queue, Msg("block", exec.b, "payload"))
            /\ exec' = [exec EXCEPT !.pc = "sent"]
       ELSE exec' = NoExec /\ UNCHANGED queue
    /\ UNCHANGED <<chain_vars, cache_vars, disk_vars, last_flush_result, pass,
                   stray, faults>>

-----------------------------------------------------------------------------
(* Fork choice.                                                            *)

\* compute_reorg_ceiling, without the operator's cap.
compute_reorg_ceiling ==
    LET entries == {n \in Height : journal[n] # NoEntry}
        lowest == CHOOSE n \in entries : \A m \in entries : n <= m
        journal_reach == IF entries = {} THEN 0 ELSE latest - (lowest - 1)
        reach == IF journal_reach > Threshold THEN journal_reach ELSE Threshold
    IN IF latest < reach THEN latest ELSE reach

Answer(fc) ==
    ApplyForkChoice(known, canonical, latest, finalized,
                    {b \in Block : has_state_root(b)}, compute_reorg_ceiling,
                    fc.head, fc.safe, fc.fin)

\* Mutant of PrunedJournal: the first unfinalized entry goes too.
PrunedJournalTooFar(final) ==
    [n \in Height |-> IF n <= final + 1 THEN NoEntry ELSE journal[n]]

\* The journal without the entries at or below the finalized number.
PrunedJournal(final) ==
    [n \in Height |-> IF n <= final THEN NoEntry ELSE journal[n]]

\* Store::forkchoice_update: the canonical tables, the journal pruned up to a
\* finalized number that advanced, the safe-commit cell, and a commit message
\* when the cell changed.
forkchoice_update(branch, head, fin, prune) ==
    LET canon == CanonicalAfter(canonical, latest, branch, head)
        root == compute_safe_commit_root(canon, Threshold, head)
        final == IF fin \in known THEN Number[fin] ELSE finalized
        changed == root # NoBlock /\ root # safe_commit_root
    IN /\ changed => Room
       /\ canonical' = canon
       /\ latest' = Number[head]
       /\ finalized' = final
       /\ journal' = IF prune /\ final > finalized
                     THEN PrunedJournal(final) ELSE journal
       /\ safe_commit_root' = IF root = NoBlock THEN safe_commit_root ELSE root
       /\ queue' = IF changed THEN Append(queue, Msg("commit", root, "fcu"))
                              ELSE queue

\* apply_fork_choice succeeds: the link block's state is readable.
ShallowForkChoice(fc) ==
    /\ pass.pc = "idle"
    /\ Pending \cap Anc[fc.head] = {}
    /\ Answer(fc) = "Ok"
    /\ forkchoice_update(Branch(canonical, fc.head), fc.head, fc.fin, TRUE)
    /\ UNCHANGED <<known, cache_vars, disk, last_flush_result, exec, pass,
                   stray, faults>>

\* The highest height with a journal entry: the block whose state is on disk.
Edge == CHOOSE n \in Height :
            /\ journal[n] # NoEntry
            /\ \A m \in Height : journal[m] # NoEntry => m <= n

\* Mutant of from_journal: the newest entry wins.
from_journal_newest(from, to) ==
    LET entries(k) == {n \in to .. from : journal[n].diff[k] # NoBlock}
        newest(k) == CHOOSE n \in entries(k) : \A m \in entries(k) : m <= n
    IN [serves |-> journal[to].parent, to |-> to, from |-> from,
        diff |-> [k \in Key |-> IF entries(k) = {} THEN NoBlock
                                ELSE journal[newest(k)].diff[k]]]

\* Overlay::from_journal: the reverse diffs of [to, from], oldest first wins.
from_journal(from, to) ==
    LET entries(k) == {n \in to .. from : journal[n].diff[k] # NoBlock}
        oldest(k) == CHOOSE n \in entries(k) : \A m \in entries(k) : n <= m
    IN [serves |-> journal[to].parent, to |-> to, from |-> from,
        diff |-> [k \in Key |-> IF entries(k) = {} THEN NoBlock
                                ELSE journal[oldest(k)].diff[k]]]

\* Every entry of the range is there and names the canonical block.
JournalMatches(from, to) ==
    \A n \in to .. from :
        /\ journal[n] # NoEntry
        /\ canonical[n] # NoBlock => journal[n].block = canonical[n]

\* apply_fork_choice answers StateNotReachable; reorg_apply_deep claims the
\* reorg slot, builds the overlay of [pivot+1, edge] and pings the persist
\* worker.  A missing entry or a hash mismatch ends the pass with no trace.
BeginDeepReorg(fc) ==
    /\ pass.pc = "idle"
    /\ Pending \cap Anc[fc.head] = {}
    /\ Answer(fc) = "StateNotReachable"
    /\ \E n \in Height : journal[n] # NoEntry
    /\ LET pivot == Number[Pivot(canonical, fc.head)]
       IN /\ Edge >= pivot + 1
          /\ JournalMatches(Edge, pivot + 1)
          /\ pass' = [pc |-> "ping", head |-> fc.head, fin |-> fc.fin,
                      todo |-> Side(canonical, fc.head),
                      overlay |-> from_journal(Edge, pivot + 1),
                      base |-> disk[RootKey]]
    /\ Room
    /\ queue' = Append(queue, Msg("ping", NoBlock, "install"))
    /\ UNCHANGED <<chain_vars, cache_vars, disk_vars, last_flush_result, exec,
                   stray, faults>>

\* install_overlay_for_reorg, after the rendezvous: a fresh cache with the
\* overlay replaces the old one.  The overlay lies over a foreign base if a
\* commit that was still queued when it was built has moved the disk.
InstallOverlay ==
    /\ pass.pc = "swap"
    /\ layers' = {}
    /\ older' = [b \in Block |-> {}]
    /\ overlay' = pass.overlay
    /\ stray' = (stray \/ disk[RootKey] # pass.base)
    /\ pass' = [pass EXCEPT !.pc = "replay"]
    /\ UNCHANGED <<chain_vars, disk_vars, queue, last_flush_result, exec, faults>>

LowestTodo == CHOOSE b \in pass.todo : \A c \in pass.todo : Number[b] <= Number[c]

\* run_reorg_replay: Blockchain::add_block on the next side-chain block.
ReplayBlock ==
    /\ pass.pc = "replay"
    /\ pass.todo # {}
    /\ Parent[LowestTodo] \notin Pending
    /\ Executable(LowestTodo)
    /\ Room
    /\ queue' = Append(queue, Msg("block", LowestTodo, "replay"))
    /\ pass' = [pass EXCEPT !.pc = "sent", !.todo = @ \ {LowestTodo}]
    /\ UNCHANGED <<chain_vars, cache_vars, disk_vars, last_flush_result, exec,
                   stray, faults>>

\* A block fails to execute, or forkchoice_update fails: AbortReorgGuard
\* pings the worker before it resets the cache.
AbortDeepReorg ==
    /\ \/ pass.pc = "abort"
       \/ /\ pass.pc = "replay"
          /\ pass.todo # {}
          /\ Parent[LowestTodo] \notin Pending
          /\ ~Executable(LowestTodo)
       \/ pass.pc = "replay" /\ pass.todo = {}
    /\ Room
    /\ queue' = Append(queue, Msg("ping", NoBlock, "abort"))
    /\ pass' = [pass EXCEPT !.pc = "ping"]
    /\ UNCHANGED <<chain_vars, cache_vars, disk_vars, last_flush_result, exec,
                   stray, faults>>

\* Store::abort_reorg after its rendezvous: an empty cache over the disk.
ResetCache ==
    /\ pass.pc = "reset"
    /\ layers' = {}
    /\ older' = [b \in Block |-> {}]
    /\ overlay' = NoOverlay
    /\ pass' = NoPass
    /\ UNCHANGED <<chain_vars, disk_vars, queue, last_flush_result, exec, stray,
                   faults>>

\* The side chain is replayed: forkchoice_update (journal pruning is paused
\* for the pass), the guard is disarmed and the reorg slot released.
FinishDeepReorg ==
    /\ pass.pc = "replay"
    /\ pass.todo = {}
    /\ forkchoice_update(Branch(canonical, pass.head), pass.head, pass.fin, FALSE)
    /\ pass' = NoPass
    /\ UNCHANGED <<known, cache_vars, disk, last_flush_result, exec, stray, faults>>

-----------------------------------------------------------------------------
(* Restart.                                                                *)

\* The process stops, at any point; the disk and the tables survive.
Crash ==
    /\ faults < MaxFaults
    /\ faults' = faults + 1
    /\ safe_commit_root' = NoBlock
    /\ layers' = {}
    /\ older' = [b \in Block |-> {}]
    /\ overlay' = NoOverlay
    /\ queue' = <<>>
    /\ last_flush_result' = "Ok"
    /\ exec' = NoExec
    /\ pass' = [NoPass EXCEPT !.pc = "boot"]
    /\ UNCHANGED <<known, canonical, latest, finalized, disk_vars, stray>>

\* adopt_committed_head_above: the newest journal entry is above the head,
\* its state is the one on disk and its ancestors lead to the head.
CanAdopt ==
    /\ \E n \in Height : journal[n] # NoEntry /\ n > latest
    /\ LET committed == journal[Edge].block
       IN /\ committed \in known
          /\ has_state_root(committed)
          /\ canonical[latest] \in Anc[committed]
          /\ \A a \in Anc[committed] : Number[a] > latest => a \in known

AdoptHead ==
    /\ pass.pc = "boot"
    /\ CanAdopt
    /\ LET committed == journal[Edge].block
       IN forkchoice_update({a \in Anc[committed] : Number[a] > latest} \ {committed},
                            committed, NoBlock, TRUE)
    /\ pass' = NoPass
    /\ UNCHANGED <<known, cache_vars, disk, last_flush_result, exec, stray, faults>>

\* Mutant of WithState: the walk stops one block short of genesis.
WithStateAboveGenesis == {n \in 1 .. latest : has_state_root(canonical[n])}

\* regenerate_head_state's walk down the canonical chain: the blocks with a
\* readable state, the highest of which execution restarts from.
WithState == {n \in 0 .. latest : has_state_root(canonical[n])}

FindState ==
    /\ pass.pc = "boot"
    /\ ~CanAdopt
    /\ pass' = IF WithState = {}
               THEN [pass EXCEPT !.pc = "bricked"]
               ELSE LET last == CHOOSE n \in WithState : \A m \in WithState : m <= n
                    IN [pass EXCEPT !.pc = "regen",
                            !.todo = {canonical[n] : n \in last + 1 .. latest}]
    /\ UNCHANGED <<chain_vars, cache_vars, disk_vars, queue, last_flush_result,
                   exec, stray, faults>>

\* add_block_pipeline_bounded on the next canonical block; an execution error
\* ends the start.
RegenerateBlock ==
    /\ pass.pc = "regen"
    /\ pass.todo # {}
    /\ Parent[LowestTodo] \notin Pending
    /\ IF Executable(LowestTodo)
       THEN /\ Room
            /\ queue' = Append(queue, Msg("block", LowestTodo, "regen"))
            /\ pass' = [pass EXCEPT !.pc = "sent", !.todo = @ \ {LowestTodo}]
       ELSE /\ pass' = [pass EXCEPT !.pc = "bricked"]
            /\ UNCHANGED queue
    /\ UNCHANGED <<chain_vars, cache_vars, disk_vars, last_flush_result, exec,
                   stray, faults>>

RegenerationDone ==
    /\ pass.pc = "regen"
    /\ pass.todo = {}
    /\ pass' = NoPass
    /\ UNCHANGED <<chain_vars, cache_vars, disk_vars, queue, last_flush_result,
                   exec, stray, faults>>

-----------------------------------------------------------------------------

Worker ==
    \/ WorkerInstall
    \/ WorkerCommitDue
    \/ WorkerCommit
    \/ WorkerWriteFails
    \/ WorkerPing

Payload == \E b \in Block : StashPayload(b) \/ AcceptPayload(b)

ForkChoiceCall == \E fc \in FcState : ShallowForkChoice(fc) \/ BeginDeepReorg(fc)

DeepReorg ==
    \/ InstallOverlay
    \/ ReplayBlock
    \/ AbortDeepReorg
    \/ ResetCache
    \/ FinishDeepReorg

Boot ==
    \/ AdoptHead
    \/ FindState
    \/ RegenerateBlock
    \/ RegenerationDone

Next ==
    \/ Worker
    \/ Payload
    \/ ExecutePayload
    \/ ForkChoiceCall
    \/ DeepReorg
    \/ Crash
    \/ Boot

Spec == Init /\ [][Next]_vars

\* The persist worker, the block worker and a pass under way are threads the
\* operating system keeps scheduling; requests and faults are not owed.
Fairness ==
    /\ WF_vars(Worker)
    /\ WF_vars(ExecutePayload)
    /\ WF_vars(DeepReorg)
    /\ WF_vars(Boot)

FairSpec == Spec /\ Fairness

-----------------------------------------------------------------------------
(* Properties.                                                             *)

OverlayState == [serves : Block \cup {NoBlock}, to : Nat, from : Nat, diff : Diff]
EntryState == [block : Block \cup {NoBlock}, parent : Block \cup {NoBlock}, diff : Diff]
Message == [type : {"block", "due", "commit", "ping"}, b : Block \cup {NoBlock},
            from : {"payload", "replay", "regen", "fcu", "install", "abort"}]
PassState ==
    [pc : {"idle", "ping", "swap", "replay", "sent", "abort", "reset",
           "boot", "regen", "down", "bricked"},
     head : Block \cup {NoBlock}, fin : Block \cup {NoBlock},
     todo : SUBSET Block, overlay : OverlayState, base : Block \cup {NoBlock}]

\* Every variable keeps its type.
TypeOK ==
    /\ known \in SUBSET Block
    /\ canonical \in [Height -> Block \cup {NoBlock}]
    /\ latest \in Height
    /\ finalized \in Height \cup {-1}
    /\ safe_commit_root \in Block \cup {NoBlock}
    /\ layers \in SUBSET Block
    /\ older \in [Block -> SUBSET Block]
    /\ overlay \in OverlayState
    /\ disk \in [Key -> Block]
    /\ journal \in [Height -> EntryState]
    /\ queue \in Seq(Message)
    /\ Len(queue) <= QueueCap
    /\ last_flush_result \in {"Ok", "Err"}
    /\ exec \in [pc : {"idle", "queued", "sent"}, b : Block \cup {NoBlock}]
    /\ pass \in PassState
    /\ stray \in BOOLEAN
    /\ faults \in 0 .. MaxFaults

\* The on-disk trie is one consistent state, never a mixture of two blocks'
\* states (commit_to_disk, reconciliation included), as long as every diff
\* was laid over the base it was computed against.
DiskIsOneState == stray \/ disk = State[disk[RootKey]]

\* Undoing the journal's entry at n from the state of its block gives the
\* state of its parent, neighbouring entries are linked, and the newest entry
\* names the block whose state is on disk (Store::get_state_history_block_hash).
JournalReverses ==
    stray \/ \A n \in Height : journal[n] # NoEntry =>
        LET e == journal[n]
        IN /\ Number[e.block] = n
           /\ e.parent = Parent[e.block]
           /\ Over(e.diff, State[e.block]) = State[e.parent]
           /\ \/ e.block = disk[RootKey] /\ \A m \in Height : journal[m] # NoEntry => m <= n
              \/ \E m \in Height : /\ m = n + 1
                                   /\ journal[m] # NoEntry
                                   /\ journal[m].parent = e.block

\* "The surviving entries cover [finalized_number+1, cache_edge_D]": every
\* block between the finalized one and the disk can be undone (journal.rs).
JournalCoversWindow ==
    stray \/ \A n \in Height :
        n \in finalized + 1 .. Number[disk[RootKey]] /\ n > 0 => journal[n] # NoEntry

\* While an overlay is installed, overlay and disk together show exactly the
\* state of the pivot, whatever the persist worker has done since.
OverlayShowsPivot ==
    stray \/ overlay = NoOverlay \/ Over(overlay.diff, disk) = State[overlay.serves]

\* A reader at any block whose layers lead down to the base sees that block's
\* state, through layers, overlay and disk.
AnchoredReads ==
    stray \/ \A b \in Block : Anchored(b) => \A k \in Key : Read(b, k) = State[b][k]

\* A node whose disk holds the state of a canonical block at or below the head
\* starts again: regeneration never meets an unreadable parent.
RestartRecovers ==
    pass.pc = "bricked" =>
        \/ stray
        \/ ~is_canonical(canonical, disk[RootKey])
        \/ Number[disk[RootKey]] > latest

\* Every deep-reorg pass and every start ends: the rendezvous with the worker
\* cannot deadlock with the bounded queue.
PassEnds == pass.pc # "idle" ~> pass.pc \in {"idle", "down", "bricked"}

\* Layers dropped on exit "are re-executed on the next start from the deep,
\* reorg-safe on-disk base": a restart finds a base to execute from.
NeverBricked == pass.pc # "bricked"
=============================================================================
