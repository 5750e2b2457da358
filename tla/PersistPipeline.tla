-------------------------- MODULE PersistPipeline --------------------------
(***************************************************************************)
(* The block-data side of the store (crates/storage/store.rs,              *)
(* block_data_buffer.rs): a block that was executed is acknowledged when   *)
(* it is staged in memory; one persist worker installs its trie layer,     *)
(* flushes the staged blocks in one transaction with the flushed_upto      *)
(* marker, and commits trie layers that are due.  Fork choices write the   *)
(* canonical tables at once, so a crash can leave them ahead of the        *)
(* blocks; the next start walks the head down to what is on disk.          *)
(*                                                                         *)
(* Unlike TrieStore this module opens up the worker's handling of one      *)
(* message, the acknowledgements, the read gate and the buffer.  The trie  *)
(* itself is reduced to the block whose root is on disk (base) and the     *)
(* layers above it, oldest first.                                          *)
(***************************************************************************)
EXTENDS ForkChoiceRules, Sequences, FiniteSetsExt, Functions

CONSTANTS
    Threshold,      \* commit_threshold
    QueueCap,       \* persist_channel_capacity
    Readable,       \* the blocks whose root the reader may open
    MaxFaults,      \* bound on failed write batches
    MaxRestarts     \* bound on crashes and restarts

ASSUME PipelineAssumption ==
    /\ Threshold \in Nat \ {0}
    /\ QueueCap \in Nat \ {0}
    /\ Readable \subseteq Block
    /\ MaxFaults \in Nat
    /\ MaxRestarts \in Nat

VARIABLES
    \* On disk.
    canonical,          \* CANONICAL_BLOCK_HASHES
    latest,             \* LatestBlockNumber
    durable,            \* blocks with header, body and receipts on disk
    marker,             \* FLUSHED_UPTO_KEY
    base,               \* the block whose state root the on-disk trie has
    \* In memory.
    safe_commit_root,
    buffer,             \* BlockDataBuffer: staged, not known to be on disk
    flushed_upto,       \* the buffer's mirror of the marker
    pending,            \* PendingTrieRoots
    layers,             \* trie_cache: blocks with a layer, in the order of their ids
    acked,              \* blocks whose import was answered
    queue,              \* the channel
    worker,             \* the persist worker: pc and the message in hand
    last_flush_result,
    importer,           \* the thread in apply_updates
    pinger,             \* the caller of wait_for_persistence_idle or shutdown
    reader,             \* a thread opening a trie at a root
    boot,               \* where the process is between its start and serving
    installed,          \* history: blocks whose layer was put into trie_cache
    unreported,         \* history: a block message failed and no answer said so yet
    faults, restarts

disk_vars == <<canonical, latest, durable, marker, base>>
bound_vars == <<faults, restarts>>
vars == <<canonical, latest, durable, marker, base, safe_commit_root, buffer,
          flushed_upto, pending, layers, installed, acked, queue, worker,
          last_flush_result, importer, pinger, reader, boot, unreported,
          faults, restarts>>

cache_vars == <<layers, installed>>
Nobody == [pc |-> "idle", b |-> NoBlock]
NoWork == [pc |-> "idle", b |-> NoBlock, wait |-> FALSE, depth |-> FALSE]
NoPing == [pc |-> "idle", result |-> "Ok"]

Init ==
    /\ canonical = [n \in Height |-> IF n = 0 THEN Genesis ELSE NoBlock]
    /\ latest = 0
    /\ durable = {Genesis}
    /\ marker = 0
    /\ base = Genesis
    /\ safe_commit_root = NoBlock
    /\ buffer = {}
    /\ flushed_upto = 0
    /\ pending = {}
    /\ layers = <<>>
    /\ installed = {}
    /\ acked = {}
    /\ queue = <<>>
    /\ worker = NoWork
    /\ last_flush_result = "Ok"
    /\ importer = Nobody
    /\ pinger = NoPing
    /\ reader = Nobody
    /\ boot = "up"
    /\ unreported = FALSE
    /\ faults = 0
    /\ restarts = 0

-----------------------------------------------------------------------------

Visible == buffer \cup durable

\* has_layer, and has_state_root: a layer's own root, or the one on disk.
has_layer(b) == b \in Range(layers)
Stateful(b) == has_layer(b) \/ b = base

\* TrieLayerCache::commit: the layers not younger than the committed one go.
LayersAfter(root) ==
    LET id == CHOOSE i \in DOMAIN layers : layers[i] = root
    IN  SubSeq(layers, id + 1, Len(layers))

Room == Len(queue) < QueueCap
Send(m) == Room /\ queue' = Append(queue, m)
Msg(type, b) == [type |-> type, b |-> b, wait |-> FALSE, depth |-> FALSE]

Worst(r, s) == IF r = "Ok" THEN s ELSE r

-----------------------------------------------------------------------------
(* Importing: Store::apply_updates.                                        *)

\* What may be executed: a payload or a synced batch on a readable parent, or
\* the next block of regenerate_head_state.
Wanted(b) ==
    /\ b # Genesis
    /\ Parent[b] \in Visible \ pending
    /\ Stateful(Parent[b])
    /\ ~Stateful(b)
    /\ \/ boot = "up"
       \/ boot = "regen" /\ Number[b] <= latest /\ is_canonical(canonical, b)

\* Send the block and wait for its acknowledgement.  Once the worker has exited
\* the send fails.  wait is wait_for_flush: full-sync batches are acknowledged
\* after the flush.  Batches and regeneration commit by depth.
SendBlock(b, wait) ==
    IF worker.pc = "stopped" THEN UNCHANGED <<queue, importer>>
    ELSE /\ Send([type |-> "block", b |-> b, wait |-> wait,
                  depth |-> wait \/ boot = "regen"])
         /\ importer' = [pc |-> "sent", b |-> b]

\* Mutant of Import: the pending root is registered by nobody.
ImportUnregistered(b, wait) ==
    /\ importer = Nobody
    /\ Wanted(b)
    /\ boot = "regen" => ~wait
    /\ SendBlock(b, wait)
    /\ UNCHANGED <<disk_vars, safe_commit_root, buffer, flushed_upto, pending,
                   cache_vars, acked, worker, last_flush_result, pinger, reader,
                   boot, unreported, bound_vars>>

\* Register the pending root, then send: a send that fails leaves it registered.
Import(b, wait) ==
    /\ importer = Nobody
    /\ Wanted(b)
    /\ boot = "regen" => ~wait
    /\ pending' = pending \cup {b}
    /\ SendBlock(b, wait)
    /\ UNCHANGED <<disk_vars, safe_commit_root, buffer, flushed_upto, cache_vars,
                   acked, worker, last_flush_result, pinger, reader, boot,
                   unreported, bound_vars>>

\* The importer's ack_rx.recv(): an error ends regeneration and the start.
Answered(b, result) ==
    /\ importer' = Nobody
    /\ acked' = acked \cup {b}
    /\ boot' = IF boot = "regen" /\ result = "Err" THEN "down" ELSE boot

-----------------------------------------------------------------------------
(* The persist worker's handling of PersistMessage::Block.                 *)

\* Stage the block in the buffer; the live path answers now, with the result
\* of the previous flush.
StageBlock ==
    /\ worker.pc = "idle"
    /\ queue # <<>>
    /\ Head(queue).type = "block"
    /\ LET m == Head(queue)
       IN /\ buffer' = buffer \cup {m.b}
          /\ worker' = [pc |-> "install", b |-> m.b, wait |-> m.wait, depth |-> m.depth]
          /\ IF m.wait
             THEN UNCHANGED <<importer, acked, boot, last_flush_result, unreported>>
             ELSE /\ Answered(m.b, last_flush_result)
                  /\ last_flush_result' = "Ok"
                  /\ unreported' = (unreported /\ last_flush_result = "Ok")
    /\ queue' = Tail(queue)
    /\ UNCHANGED <<disk_vars, safe_commit_root, flushed_upto, pending, cache_vars,
                   pinger, reader, bound_vars>>

\* apply_trie_phase1: the layer is swapped in, then the pending root cleared.
InstallLayer ==
    /\ worker.pc = "install"
    /\ layers' = IF has_layer(worker.b) THEN layers ELSE Append(layers, worker.b)
    /\ installed' = installed \cup {worker.b}
    /\ worker' = [worker EXCEPT !.pc = "clear"]
    /\ UNCHANGED <<disk_vars, safe_commit_root, buffer, flushed_upto, pending,
                   acked, queue, last_flush_result, importer, pinger, reader,
                   boot, unreported, bound_vars>>

\* Mutant of ClearPending: the root stays registered.
ClearPendingForgets ==
    /\ worker.pc = "clear"
    /\ worker' = [worker EXCEPT !.pc = "flush"]
    /\ UNCHANGED <<disk_vars, safe_commit_root, buffer, flushed_upto, pending,
                   cache_vars, acked, queue, last_flush_result, importer, pinger,
                   reader, boot, unreported, bound_vars>>

ClearPending ==
    /\ worker.pc = "clear"
    /\ pending' = pending \ {worker.b}
    /\ worker' = [worker EXCEPT !.pc = "flush"]
    /\ UNCHANGED <<disk_vars, safe_commit_root, buffer, flushed_upto, cache_vars,
                   acked, queue, last_flush_result, importer, pinger, reader,
                   boot, unreported, bound_vars>>

\* Mutants of Flush: only the newest block is written; the marker points one
\* past the last block.
FlushNewestOnly ==
    /\ durable' = durable \cup (IF worker.b \in buffer THEN {worker.b} ELSE buffer)
    /\ flushed_upto' = Max({flushed_upto} \cup {Number[b] : b \in buffer})
    /\ marker' = flushed_upto'
    /\ buffer' = {}

\* flush_block_data: every staged block and the marker in one transaction,
\* then the blocks leave the buffer.
Flush ==
    IF buffer = {} THEN UNCHANGED <<durable, marker, flushed_upto, buffer>>
    ELSE /\ durable' = durable \cup buffer
         /\ flushed_upto' = Max({flushed_upto} \cup {Number[b] : b \in buffer})
         /\ marker' = flushed_upto'
         /\ buffer' = {}

FlushBlock ==
    /\ worker.pc = "flush"
    /\ Flush
    /\ worker' = [worker EXCEPT !.pc = "commit"]
    /\ UNCHANGED <<canonical, latest, base, safe_commit_root, pending, cache_vars,
                   acked, queue, last_flush_result, importer, pinger, reader,
                   boot, unreported, bound_vars>>

\* Mutant of Done: a failure is only logged.
DoneLogged(result) ==
    /\ worker' = NoWork
    /\ IF worker.wait
       THEN /\ Answered(worker.b, last_flush_result)
            /\ last_flush_result' = "Ok"
            /\ unreported' = (unreported /\ last_flush_result = "Ok")
       ELSE /\ unreported' = (unreported \/ result = "Err")
            /\ UNCHANGED <<importer, acked, boot, last_flush_result>>

\* The message is done: a batch is answered now, with an earlier error first;
\* the live path keeps the result for the next answer.
Done(result) ==
    /\ worker' = NoWork
    /\ IF worker.wait
       THEN /\ Answered(worker.b, Worst(last_flush_result, result))
            /\ last_flush_result' = "Ok"
            /\ unreported' = FALSE
       ELSE /\ last_flush_result' = result
            /\ unreported' = (unreported \/ result = "Err")
            /\ UNCHANGED <<importer, acked, boot>>

\* The transaction fails: nothing is written, the blocks stay staged, and no
\* layer is committed.
FlushFails ==
    /\ worker.pc = "flush"
    /\ buffer # {}
    /\ faults < MaxFaults
    /\ faults' = faults + 1
    /\ Done("Err")
    /\ UNCHANGED <<disk_vars, safe_commit_root, buffer, flushed_upto, pending,
                   cache_vars, queue, pinger, reader, restarts>>

\* The layers met on the walk down from b.
Walk(b) == {a \in Anc[b] : \A c \in Anc[b] : Number[c] >= Number[a] => has_layer(c)}

\* commit_trie_if_due: the safe-commit root, or the layer Threshold deep, when
\* the walk down from the parent meets it.
Due ==
    LET parent == Parent[worker.b]
    IN IF worker.depth
       THEN {a \in Walk(parent) : Number[a] = Number[parent] - Threshold + 1}
       ELSE Walk(parent) \cap {safe_commit_root}

\* commit_to_disk: a root without a layer commits nothing.
commit_to_disk(roots) ==
    IF \E root \in roots : has_layer(root)
    THEN \E root \in roots : has_layer(root) /\ base' = root /\ layers' = LayersAfter(root)
    ELSE UNCHANGED <<base, layers>>

CommitLayer ==
    /\ worker.pc = "commit"
    /\ commit_to_disk(Due)
    /\ Done("Ok")
    /\ UNCHANGED <<canonical, latest, durable, marker, safe_commit_root, buffer,
                   flushed_upto, pending, installed, queue, pinger, reader,
                   bound_vars>>

CommitFails ==
    /\ worker.pc = "commit"
    /\ Due # {}
    /\ faults < MaxFaults
    /\ faults' = faults + 1
    /\ Done("Err")
    /\ UNCHANGED <<disk_vars, safe_commit_root, buffer, flushed_upto, pending,
                   cache_vars, queue, pinger, reader, restarts>>

-----------------------------------------------------------------------------
(* The worker's other messages.                                            *)

\* PersistMessage::Commit(root): the blocks' data is not looked at.  A commit
\* that fails is only logged.
HandleCommit ==
    /\ worker.pc = "idle"
    /\ queue # <<>>
    /\ Head(queue).type = "commit"
    /\ \/ commit_to_disk({Head(queue).b}) /\ UNCHANGED faults
       \/ /\ has_layer(Head(queue).b) /\ faults < MaxFaults
          /\ faults' = faults + 1
          /\ UNCHANGED <<base, layers>>
    /\ queue' = Tail(queue)
    /\ UNCHANGED <<canonical, latest, durable, marker, safe_commit_root, buffer,
                   flushed_upto, pending, installed, acked, worker,
                   last_flush_result, importer, pinger, reader, boot, unreported,
                   restarts>>

\* PersistMessage::Ping: answered with the pending flush result.
HandlePing ==
    /\ worker.pc = "idle"
    /\ queue # <<>>
    /\ Head(queue).type = "ping"
    /\ pinger' = [pc |-> "idle", result |-> last_flush_result]
    /\ last_flush_result' = "Ok"
    /\ unreported' = (unreported /\ last_flush_result = "Ok")
    /\ queue' = Tail(queue)
    /\ UNCHANGED <<disk_vars, safe_commit_root, buffer, flushed_upto, pending,
                   cache_vars, acked, worker, importer, reader, boot, bound_vars>>

\* PersistMessage::Shutdown is taken from the channel, which stays open until
\* the worker exits.
HandleShutdown ==
    /\ worker.pc = "idle"
    /\ queue # <<>>
    /\ Head(queue).type = "shutdown"
    /\ worker' = [NoWork EXCEPT !.pc = "shutdown"]
    /\ queue' = Tail(queue)
    /\ UNCHANGED <<disk_vars, safe_commit_root, buffer, flushed_upto, pending,
                   cache_vars, acked, last_flush_result, importer, pinger, reader,
                   boot, unreported, bound_vars>>

\* One more flush, an answer that folds in an earlier error, and the worker
\* exits.
ShutdownFlush ==
    /\ worker.pc = "shutdown"
    /\ \/ /\ Flush
          /\ pinger' = [pc |-> "stopped", result |-> last_flush_result]
          /\ UNCHANGED faults
       \/ /\ buffer # {} /\ faults < MaxFaults
          /\ faults' = faults + 1
          /\ pinger' = [pc |-> "stopped", result |-> "Err"]
          /\ UNCHANGED <<durable, marker, flushed_upto, buffer>>
    /\ worker' = [NoWork EXCEPT !.pc = "stopped"]
    /\ last_flush_result' = "Ok"
    /\ unreported' = FALSE
    /\ UNCHANGED <<canonical, latest, base, safe_commit_root, pending, cache_vars,
                   acked, queue, importer, reader, boot, restarts>>

\* wait_for_persistence_idle and shutdown, from any thread.
SendPing(type) ==
    /\ boot = "up"
    /\ pinger.pc = "idle"
    /\ Send(Msg(type, NoBlock))
    /\ pinger' = [pc |-> "sent", result |-> "Ok"]
    /\ UNCHANGED <<disk_vars, safe_commit_root, buffer, flushed_upto, pending,
                   cache_vars, acked, worker, last_flush_result, importer, reader,
                   boot, unreported, bound_vars>>

\* The worker exited with the importer's message still queued: recv fails.
ImportDisconnected ==
    /\ worker.pc = "stopped"
    /\ importer.pc = "sent"
    /\ importer' = Nobody
    /\ UNCHANGED <<disk_vars, safe_commit_root, buffer, flushed_upto, pending,
                   cache_vars, acked, queue, worker, last_flush_result, pinger,
                   reader, boot, unreported, bound_vars>>

-----------------------------------------------------------------------------
(* Reading at a root: Store::gated_snapshot.                               *)

\* wait_until_ready's fast path: nothing is in flight.
OpenTrie(b) ==
    /\ reader = Nobody
    /\ b \in acked \cap Readable
    /\ reader' = [pc |-> IF pending = {} THEN "snapshot" ELSE "wait", b |-> b]
    /\ UNCHANGED <<disk_vars, safe_commit_root, buffer, flushed_upto, pending,
                   cache_vars, acked, queue, worker, last_flush_result, importer,
                   pinger, boot, unreported, bound_vars>>

RootReady ==
    /\ reader.pc = "wait"
    /\ reader.b \notin pending
    /\ reader' = [reader EXCEPT !.pc = "snapshot"]
    /\ UNCHANGED <<disk_vars, safe_commit_root, buffer, flushed_upto, pending,
                   cache_vars, acked, queue, worker, last_flush_result, importer,
                   pinger, boot, unreported, bound_vars>>

Snapshot ==
    /\ reader.pc = "snapshot"
    /\ reader' = Nobody
    /\ UNCHANGED <<disk_vars, safe_commit_root, buffer, flushed_upto, pending,
                   cache_vars, acked, queue, worker, last_flush_result, importer,
                   pinger, boot, unreported, bound_vars>>

-----------------------------------------------------------------------------
(* Fork choice and restart.                                                *)

\* Store::forkchoice_update; that the worker is gone does not matter to it.
forkchoice_update(branch, head) ==
    LET canon == CanonicalAfter(canonical, latest, branch, head)
        root == compute_safe_commit_root(canon, Threshold, head)
        changed == root # NoBlock /\ root # safe_commit_root
    IN /\ canonical' = canon
       /\ latest' = Number[head]
       /\ safe_commit_root' = IF root = NoBlock THEN safe_commit_root ELSE root
       /\ IF changed /\ worker.pc # "stopped"
          THEN Send(Msg("commit", root)) ELSE UNCHANGED queue

\* apply_fork_choice, shallow; it reads the link block's state behind the gate.
ForkChoice(head) ==
    /\ boot = "up"
    /\ ApplyForkChoice(Visible, canonical, latest, -1,
                       {b \in Block : Stateful(b)}, latest,
                       head, NoBlock, NoBlock) = "Ok"
    /\ LinkBlock(canonical, head) \notin pending
    /\ forkchoice_update(Branch(canonical, head), head)
    /\ UNCHANGED <<durable, marker, base, buffer, flushed_upto, pending,
                   cache_vars, acked, worker, last_flush_result, importer, pinger,
                   reader, boot, unreported, bound_vars>>

\* The process ends, at any point, and starts again: from_backend.
Restart ==
    /\ restarts < MaxRestarts
    /\ restarts' = restarts + 1
    /\ safe_commit_root' = NoBlock
    /\ buffer' = {}
    /\ flushed_upto' = marker
    /\ pending' = {}
    /\ layers' = <<>>
    /\ installed' = {}
    /\ acked' = {}
    /\ queue' = <<>>
    /\ worker' = NoWork
    /\ last_flush_result' = "Ok"
    /\ importer' = Nobody
    /\ pinger' = NoPing
    /\ reader' = Nobody
    /\ boot' = "anchor"
    /\ unreported' = FALSE
    /\ UNCHANGED <<disk_vars, faults>>

\* Mutant of Anchor: the recorded head is trusted.
AnchorAtLatest ==
    /\ boot = "anchor"
    /\ marker' = latest
    /\ boot' = "regen"
    /\ UNCHANGED <<canonical, latest, durable, base, safe_commit_root, buffer,
                   flushed_upto, pending, cache_vars, acked, queue, worker,
                   last_flush_result, importer, pinger, reader, unreported,
                   bound_vars>>

\* anchor_to_durable_head: the highest height, not above the marker, whose
\* canonical block is on disk becomes the head and the marker.
Anchor ==
    /\ boot = "anchor"
    /\ latest' = Max({n \in 0 .. latest : n <= marker /\ canonical[n] \in durable})
    /\ marker' = latest'
    /\ boot' = "regen"
    /\ UNCHANGED <<canonical, durable, base, safe_commit_root, buffer,
                   flushed_upto, pending, cache_vars, acked, queue, worker,
                   last_flush_result, importer, pinger, reader, unreported,
                   bound_vars>>

\* adopt_committed_head_above: the state on disk is above the head (an
\* interrupted batch) and its headers lead down to the head.
AdoptHead ==
    /\ boot = "regen"
    /\ Number[base] > latest
    /\ canonical[latest] \in Anc[base]
    /\ {a \in Anc[base] : Number[a] > latest} \subseteq durable
    /\ forkchoice_update({a \in Anc[base] : Number[a] > latest} \ {base}, base)
    /\ boot' = "adopted"
    /\ UNCHANGED <<durable, marker, base, buffer, flushed_upto, pending,
                   cache_vars, acked, worker, last_flush_result, importer, pinger,
                   reader, unreported, bound_vars>>

\* Store::advance_flushed_upto, the adoption's second write.
advance_flushed_upto ==
    /\ boot = "adopted"
    /\ marker' = Max({marker, latest})
    /\ flushed_upto' = Max({flushed_upto, latest})
    /\ boot' = "up"
    /\ UNCHANGED <<canonical, latest, durable, base, safe_commit_root, buffer,
                   pending, cache_vars, acked, queue, worker, last_flush_result,
                   importer, pinger, reader, unreported, bound_vars>>

\* regenerate_head_state finds no state at or below the head.  An interrupted
\* batch whose commits were not journalled ends here too.
NoStateFound ==
    /\ boot = "regen"
    /\ Number[base] > latest \/ ~is_canonical(canonical, base)
    /\ boot' = "down"
    /\ UNCHANGED <<disk_vars, safe_commit_root, buffer, flushed_upto, pending,
                   cache_vars, acked, queue, worker, last_flush_result, importer,
                   pinger, reader, unreported, bound_vars>>

Regenerated ==
    /\ boot = "regen"
    /\ importer = Nobody
    /\ Number[base] <= latest
    /\ \A n \in Number[base] .. latest : Stateful(canonical[n])
    /\ boot' = "up"
    /\ UNCHANGED <<disk_vars, safe_commit_root, buffer, flushed_upto, pending,
                   cache_vars, acked, queue, worker, last_flush_result, importer,
                   pinger, reader, unreported, bound_vars>>

-----------------------------------------------------------------------------

Worker ==
    \/ StageBlock
    \/ InstallLayer
    \/ ClearPending
    \/ FlushBlock
    \/ FlushFails
    \/ CommitLayer
    \/ CommitFails
    \/ HandleCommit
    \/ HandlePing
    \/ HandleShutdown
    \/ ShutdownFlush

Callers ==
    \/ \E b \in Block, wait \in BOOLEAN : Import(b, wait)
    \/ ImportDisconnected
    \/ \E type \in {"ping", "shutdown"} : SendPing(type)
    \/ \E b \in Block : ForkChoice(b)

Reader == (\E b \in Block : OpenTrie(b)) \/ RootReady \/ Snapshot

Boot == Anchor \/ AdoptHead \/ advance_flushed_upto \/ NoStateFound \/ Regenerated

Next == Worker \/ Callers \/ Reader \/ Restart \/ Boot

Spec == Init /\ [][Next]_vars

\* The worker and a reader that was woken are threads; an importer that lost its
\* worker sees the closed channel.
Fairness ==
    /\ WF_vars(Worker)
    /\ WF_vars(ImportDisconnected)
    /\ WF_vars(RootReady \/ Snapshot)

FairSpec == Spec /\ Fairness

-----------------------------------------------------------------------------
(* Properties.                                                             *)

Message == [type : {"block", "commit", "ping", "shutdown"},
            b : Block \cup {NoBlock}, wait : BOOLEAN, depth : BOOLEAN]

\* Every variable keeps its type.
TypeOK ==
    /\ canonical \in [Height -> Block \cup {NoBlock}]
    /\ latest \in Height
    /\ durable \in SUBSET Block
    /\ marker \in Height
    /\ base \in Block
    /\ safe_commit_root \in Block \cup {NoBlock}
    /\ buffer \in SUBSET Block
    /\ flushed_upto \in Height
    /\ pending \in SUBSET Block
    /\ layers \in Seq(Block)
    /\ installed \in SUBSET Block
    /\ acked \in SUBSET Block
    /\ queue \in Seq(Message)
    /\ Len(queue) <= QueueCap
    /\ worker \in [pc : {"idle", "install", "clear", "flush", "commit", "shutdown", "stopped"},
                   b : Block \cup {NoBlock}, wait : BOOLEAN, depth : BOOLEAN]
    /\ last_flush_result \in {"Ok", "Err"}
    /\ importer \in [pc : {"idle", "sent"}, b : Block \cup {NoBlock}]
    /\ pinger \in [pc : {"idle", "sent", "stopped"}, result : {"Ok", "Err"}]
    /\ reader \in [pc : {"idle", "wait", "snapshot"}, b : Block \cup {NoBlock}]
    /\ boot \in {"up", "anchor", "regen", "adopted", "down"}
    /\ unreported \in BOOLEAN
    /\ faults \in 0 .. MaxFaults
    /\ restarts \in 0 .. MaxRestarts

\* The head and all its ancestors resolve to block data: in the buffer or on
\* disk while the node runs, and, as regenerate_head_state relies on, on disk
\* alone from the moment a start has anchored the head.
HeadResolves ==
    /\ boot # "anchor" => Anc[canonical[latest]] \subseteq Visible
    /\ boot = "regen" => Anc[canonical[latest]] \subseteq durable

\* A block's data reaches the disk only with or after its parent's, so a walk
\* back along parent hashes never meets a hole, whatever was lost in a crash.
DurableAncestry == \A b \in durable : Anc[b] \subseteq durable

\* Nothing on disk runs ahead of the block data on disk.  Some block at the
\* marker's height is there, so the start never anchors at a height nothing was
\* flushed for (flush_block_data, anchor_to_durable_head, advance_flushed_upto);
\* and so is the block whose state the trie holds, unless more than Threshold
\* flushes failed: the message that commits a root follows the flush of a block
\* Threshold above it.  (Until a restart: a start that lowers the head leaves
\* canonical rows of the lost chain above it.)
NothingAheadOfBlocks ==
    /\ \E b \in durable : Number[b] = marker
    /\ \E b \in durable : Number[b] = flushed_upto
    /\ faults <= Threshold /\ restarts = 0 => base \in durable

\* No success hides a loss.  What was acknowledged is staged or on disk, also
\* after a failed flush; an error of a block message that no caller has seen yet
\* waits in the worker for the next acknowledgement; a shutdown answered with
\* success left nothing in memory only.  A failing PersistMessage::Commit is told
\* to nobody, so there the promise is another one: the safe-commit root is on
\* disk or below it, or still a layer that a later block message commits, or was
\* outrun by a commit on another branch.
NoSilentLoss ==
    /\ acked \subseteq Visible
    /\ unreported /\ worker.pc = "idle" => last_flush_result = "Err"
    /\ pinger.pc = "stopped" /\ pinger.result = "Ok" => acked \subseteq durable
    /\ safe_commit_root \in Block /\ base \in Anc[safe_commit_root] =>
         Stateful(safe_commit_root)

\* A reader that opens the root of an acknowledged block takes its snapshot
\* after the block's layer was swapped in (PendingTrieRoots).
ReadsOwnBlock == [][Snapshot => reader.b \in installed]_vars

\* Every import and every gated read is answered, whatever fails: also with the
\* worker gone and the roots of refused imports registered for ever.
Answers ==
    /\ importer.pc = "sent" ~> importer.pc = "idle"
    /\ reader.pc # "idle" ~> reader.pc = "idle"

\* "Block until the persist worker has fully processed all previously-sent
\* Block messages (staged, trie-layer built, flushed, evicted)": when the
\* handshake succeeds with no import under way, nothing staged is left.
IdleMeansFlushed ==
    [][HandlePing /\ pinger'.result = "Ok" /\ importer = Nobody => buffer = {}]_vars
=============================================================================
