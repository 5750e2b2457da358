# A TLA+ verification of ethrex

ethrex is an Ethereum execution client (`crates/blockchain`, `crates/storage`,
`crates/vm`, `crates/networking`) that can also run as a ZK rollup
(`crates/l2`, `crates/prover`, `crates/guest-program`). This directory holds
TLA+ models of the parts where the order of steps decides correctness, the TLC
instances that check them, and proofs checked by TLAPS.

    tlc -workers 2 -config MCTrieStore_live.cfg MCTrieStore
    tlc -workers 2 -config MCFrameTx_undo.cfg MCFrameTx
    tlapm TrieStoreProofs.tla

`PROJECT.json` lists components, runs, the mutants that show each property can
fail, the source lines of every definition, findings, hazards and theorems.

## 1. The system

| Part | State | Operations that change it | What makes it hard | Module |
|---|---|---|---|---|
| Fork choice (`blockchain/fork_choice.rs`, `Store::forkchoice_update`) | canonical table, head, finalized number, cached head, reorg slot | `engine_forkchoiceUpdated`, deep-reorg pass | validation is lock-free, only the write is serialised; the cache is swapped before the transaction | `ForkChoice` |
| Trie storage (`storage/store.rs`, `layering.rs`, `journal.rs`) | single-version trie on disk, diff layers, reverse-diff journal, overlay, commit gate | layer installation, commit, overlay installation and reconciliation, pruning, crash, start | four parties over one disk version; a reorg below the disk has to undo it | `TrieStore` |
| Persistence pipeline (`store.rs`, `block_data_buffer.rs`) | block buffer, queue, flush marker, pending roots | import, staging, flush, commit, ping, shutdown, crash, anchoring | a block is acknowledged before it is on disk | `PersistPipeline` |
| Flat key-values (`store.rs`) | flat tables, frontier, generator thread | walk, batch commit, Stop/Continue, restart | generator and commits write the same tables | `FkvGenerator` |
| Startup (`cmd/ethrex/initializers.rs`) | head, regenerated layers | anchor, adopt, find a state, re-execute | whatever a crash left behind | `TrieStore`, `PersistPipeline` |
| Transaction pool (`blockchain/mempool.rs`) | several indexes of one set, reservations, bundles | add, replace, evict, remove, clean-up after a head | validation is outside the lock that inserts | `Mempool` |
| Transaction fetching (`p2p/rlpx/connection/server.rs`) | hashes in flight, alternates, per-connection buffers and requests | announce, flush, answer, sweep, retry, teardown | many actors release one shared reservation | `TxFetch` |
| EVM (`vm/levm`) | account cache, call-frame backups, substate scopes | calls, creates, reverts, hooks, frame transactions | nested reverts over one mutable cache | `CallFrames`, `TxExecution`, `FrameTx` |
| L2 committer, proof sender, operator (`l2/sequencer`, `cmd/ethrex/l2`) | batches, checkpoints, proofs, cursors | timers, L1 transactions, revert command | stops between local and L1 steps, resends | `Settlement` |
| L1 contracts (`OnChainProposer.sol`, `CommonBridge.sol`) | committed and verified batches, deposit queue, withdrawal roots | commit, verify, revert, pause, deposit | order between the deposit queue and batches | `OnChainProposer`, `BatchLedger` |
| Proof coordinator, Aligned mode | assignments, proofs, cursors | prover connections, timers, aggregation | provers and submissions get lost | `AlignedProving` |
| Sync, discovery, JSON-RPC, L1 watcher, based sequencing | | | | not modelled (section 5) |

## 2. Modules

    BlockTree  <-  ForkChoiceRules  <-  ForkChoice
                        ^        ^
                   TrieStates    PersistPipeline          FkvGenerator
                        ^
                    TrieStore

    OnChainProposer  <-  Settlement  --implements-->  BatchLedger
    CallFrames  <-  TxExecution  <-  FrameTx
    AlignedProving        Mempool        TxFetch

### The node's storage

**`BlockTree`** is the block universe: any set of blocks with parents, numbers
and ancestor sets. Its assumptions describe a tree with one root; TLC evaluates
them for the instances and the proofs use them for all trees.

**`ForkChoiceRules`** has the pure decisions of `fork_choice.rs` as operators:
the walk to the canonical link, the order of the early returns of
`apply_fork_choice` (`ApplyForkChoice`), the rewrite of
`CANONICAL_BLOCK_HASHES` (`CanonicalAfter`) and the safe-commit root. All
modules that take fork choices use these definitions.

**`ForkChoice`** runs several callers. `Validate` is the lock-free part of the
handler, `ClaimReorg`, `Replayed` and `ReplayFailed` the deep-reorg pass,
`UpdateHeadCache`, `CommitTxn` and `TxnFailed` the write under `fcu_lock`.
Which states are readable is an environment choice, so the results hold
whatever the store evicts. The reorg ceiling is at its largest; a smaller one
turns more requests into errors, which leave no trace.

**`TrieStates`** and **`TrieStore`** model the single-version trie. A path holds
the *version* (the block that last wrote it), so a state is a function from
paths to blocks and a mixture of two states is visible. The parties are the
block worker executing a payload (`exec`), one fork-choice caller or the startup
code (`pass`) and the persist worker (`queue`). A message of the worker is two
steps, install and commit, because fork choices land between them. A commit is
one step: readers between its disk write and the swap of the layer cache
(`store.rs:5566` to `5583`), and a swap that overwrites another one, are not
represented.

The history variable `stray` records that a diff was laid over a base it was not
computed against: a layer chain that does not rest on the current base was
committed, or an overlay was installed after the disk had moved. The code does
not prevent either (section 6); the properties that mention `stray` say what
holds until then, and `stray` never influences a step.

**`PersistPipeline`** opens up the handling of one message: staging,
acknowledgement, layer installation, the pending-root barrier, flush with its
marker, commit, ping, shutdown, crash, and the three startup steps. The trie is
reduced to the block whose state is on disk (`base`) and the layers above it in
the order they were installed (`layers`), of which a commit drops what is older.
An import registers its pending root and then sends (`SendBlock`), which fails
when the worker is gone and leaves the root registered. A `Commit` message that
fails is logged and forgotten (`HandleCommit`). Its fork choice is atomic; races
between callers are `ForkChoice`'s subject. Blocks have distinct state roots, and
poisoned locks are not modelled.

**`FkvGenerator`** has the generator thread, the commit that stops it over a
rendezvous channel and writes flat rows at or below the frontier, and the
readers, who choose between flat rows and the trie. After an account's last slot
the code looks at the channel twice in a row; the model looks once.

### The rollup

**`BatchLedger`** is the promise of the L1 to the users of the L2: a list of
settled blocks that only grows, and a queue of committed batches that settles
from its front and loses only its tail to a revert.

**`OnChainProposer`** has the two contracts as guards (`CommitAccepted`,
`VerifyAccepted`, `RevertAccepted`) and updates. A batch is the list of its
blocks and the root they lead to; a root is the list of all blocks up to it, so
a proof holds exactly if it starts at the root before and ends in the root
committed. The deposit queue is a length, the number already processed and the
deadline; a withdrawal root is the list of withdrawals.

**`Settlement`** runs the sequencer against them. The committer seals a batch,
copies a checkpoint, sends and waits; the sender collects consecutive proofs,
sends them together, splits the group when it is refused and deletes a proof the
contract calls invalid; the revert command pauses, reverts the contract, the
rollup store and the blocks, and unpauses. Each of these is a separate step,
and the node can stop between any two (`Stop`, `Start`). A transaction is
included later (`IncludeCommit`, `IncludeVerify`): after its sender has given up
waiting (`CommitTimeout`), after a revert, or when it no longer succeeds, which the
sender does not notice because the code never looks at the receipt's status.
`Stop` loses the canonical blocks that were not yet written (`flushed` counts
those that surely were; any number above it may survive), and blocks produced
afterwards belong to a new `era`, so that a replacement differs from what was
lost. A node starts from nothing or takes over from another sequencer
(`JoinedInit`), in which case it seals the committed batches as it receives them
(`ReceiveBatch`). Such a batch has no prover input here (`inputs`), so the
coordinator never hands it out (`Assignable`); the other sequencer verifies it
(`VerifiedByOther`, external).

**`AlignedProving`** follows batches through the proof coordinator and Aligned:
assignment with its timeout, concurrent prover connections, the sender's
cursor, Aligned's aggregation (external), the verifier's run of aggregated
batches, deletion of bad proofs, restarts of the process. Timestamps are
"recent" or "old", as the code compares them with a timeout.

### The pool and its peers

**`Mempool`** splits a submission where the code releases the lock: reading the
account and the fork, finding the transaction it would replace, the gates, storing the bundle,
inserting, rolling the bundle back. `Insert` is `add_transaction_inner` as a whole,
with admission re-checked under the lock, replacement, eviction of either sub-pool
and the paymaster's reservation. New heads queue the three clean-up tasks of the
fork-choice handler, which run interleaved with everything else. The pool
(`inner`) is one record with a field for each map of `MempoolInner`.

**`TxFetch`** has one actor for each connection. A handler that awaits between two
accesses to the shared maps is a list of tasks, during which its actor takes no
other message; `stopped` and the teardown come after the task that failed. A
swept request stays in the table as "swept" so that its late answer can arrive.

### The EVM

**`CallFrames`** has the functions that record, merge and restore: the backup of
a call frame keeps the original of each cell the frame was the first to write,
the substate is a chain of scopes. They are pure operators on a machine record;
`generic_call`, `generic_create`, `selfdestruct` and `handle_return` are built
from them in the order of the code. Two accounts, one storage slot, one transient slot and a
count of logs are the cells.

**`TxExecution`** is one transaction through the hooks (L1, L2, stateless):
prepare with its atomic region, the opcodes that touch undoable state,
finalize, and the caller's undo, which fails under the L1 hooks for want of a
backup (`UndoLast`). Whether a check, an opcode or the gas fails is a free
choice. **`FrameTx`** adds `execute_frame_tx`: frames of three modes, atomic batches, default
code, `APPROVE`, skipped frames, and the two ways a transaction becomes
invalid. The frames are chosen as the loop reaches them.

Each `MC...` module only names the instances its `.cfg` files use.

## 3. Runs

| Run | Shows | Distinct states |
|---|---|---|
| `fork_choice_one` | one caller, all safe/finalized choices: the canonical table is the head's ancestor chain | 173k |
| `fork_choice_two` | two callers: cached head, reorg slot, every request answered | 8k |
| `trie_store_live` | disk, journal and overlay are exact; the journal covers everything above finality | 168k |
| `trie_store_faults` | one crash or failed write: reads are right, starts recover, every pass and start ends | 95k |
| `persist_faults` | a crash and a failed write: what is left can be started from, nothing is lost silently, everybody is answered | 222k |
| `fkv_generation` | flat tables and readers exact; commits proceed; generation completes | 50k |
| `settlement_faults` | two deposits, two faults of seven kinds: the contracts implement the ledger, what is committed was sealed, deposits in order, blocks settle | 504k |
| `aligned_losses` | two faults: every batch is verified | 152k |
| `mempool_races` | two submissions, a new head, its clean-up, the builder: indexes, reservations, memory caps, budgets | 567k |
| `tx_fetch` | three peers, one hash: reserved by exactly one holder, always released | 139k |
| `evm_undo` | all kinds of transaction under all hooks: whatever fails is undone, what is included pays | 2.14M |
| `frame_approvals` | a disagreement with a doc comment, section 6 | |

**Properties.** *ForkChoice*: `CanonicalChainLinked`, `HeadCacheAgrees`,
`ReorgSlotOwned`, `FcuAnswered`. *TrieStore*: `DiskIsOneState` (the disk is one
block's state), `JournalReverses` (undoing an entry gives the parent's state),
`JournalCoversWindow`, `OverlayShowsPivot`, `AnchoredReads` (a reader through
layers, overlay and disk sees its block's state), `RestartRecovers`, `PassEnds`.
*PersistPipeline*: `HeadResolves`, `DurableAncestry`, `NothingAheadOfBlocks`
(marker and trie point into the block data on disk), `NoSilentLoss`,
`ReadsOwnBlock`, `Answers`. *FkvGenerator*: `FlatCorrect`, `ReadsAgree`,
`CommitProceeds`, `GenerationCompletes`. *Settlement*: `LedgerImplemented`,
`CommittedIsSealed`, `DepositsSettleInOrder`, `CachedUpdatesAreCanonical`,
`OnlyBadProofsDeleted`, `BlocksSettle`. *AlignedProving*: `AllVerified`.
*Mempool*: `SlotsAgree`, `NoOrphanBundle`, `MemoryWithinCaps`, `ReservationsMatch`,
`PendingWithinBalance`. *TxFetch*: `InFlightIsHeld`, `Released`. *FrameTx*:
`Undoable` (the backups held suffice, at every level and for the transaction),
`RevertUndoes` (a failed call or batch uses them), `RejectedLeavesNothing`,
`IncludedPaysOnce`, `LogsMatch`. Each module has a `TypeOK` besides; the one of
`ForkChoice` is proved, those of `TrieStore` and `FkvGenerator` as part of the
inductive invariants; the others document the state.

**Refinement.** `LedgerImplemented` is `BatchLedger`'s specification with
`settled` read off the last verified commitment and `pending` off the
commitments above it. Every step of the sequencer, the operator and the L1 is
thereby a commit of the next batch, a settlement of a prefix, a revert of a suffix
or no change to the ledger.

**Excepted cases.** `BlocksSettle` says that all blocks are eventually settled
unless the code has stopped the sequencer for good in one of four ways, which
are conditions of the model and not assumptions: a checkpoint that opens before
its batch's end (`Starved`), a deposit past its deadline that the next batch does
not consume (`Overdue`), a withdrawal root that a reverted batch left behind
(`Republished`), a sealed batch whose blocks a stop has lost (`Orphaned`).
`AllVerified` excepts a verification that was included and
failed, after which the cursor has passed its batch. `GenerationCompletes` is
about behaviours without a failed commit: a `Continue` that an early return loses
stops the generator until the next start. `RejectedLeavesNothing` leaves out the
two traces of section 6.

**Bounds.** Trees have two chains from genesis, up to three blocks long, with a
commit threshold of 1 (2 in `ForkChoice`) instead of 128: the shortest instances
in which a block is committed, abandoned, undone and committed again. In
`TrieStore` the blocks write overlapping sets of three paths, so a missing or
misplaced reverse diff changes a value. `trie_store_live` needs the longer main
chain (a finalized block below two committed ones); the runs with faults use the
shorter one. `QueueCap` 2 or 3 makes the channel full while a reorg waits for the
worker. In the two largest of these runs no fork choice names the main chain's
first block as its head (`SkippingHeads`); genesis stays, as the one head below
the threshold. `MaxFaults`, `MaxRestarts` and `MaxCommits` bound counters only.
The flat tables have two accounts with two slots, the smallest case with a
frontier inside an account that has a left and a right neighbour, and batches of
one leaf; every set of leaves may be stored at the start (`StoredTries`), with
one value, because values only tell old leaves from new ones.

`Settlement` has two batches, two blocks and two deposits: enough for a group of
two proofs of which one is bad, deposits consumed by two batches at once or one
by one, a revert of one batch behind another, and a batch committed again after a
revert; two faults allow a stop and a late transaction, or either and a revert, in
one behaviour. `AlignedProving` has three batches, the first verified at the start,
two provers of one type and two faults. `Mempool` has six transactions of two
senders that compete for nonces, a paymaster with funds for one of two frame
transactions, a regular cap of two and a blob cap of one, so that every
submission meets a full pool in some behaviour, and four submissions, so that a
transaction can leave and come back. `TxFetch` has three peers for one hash (an
owner and two alternates) and one fault; hashes interact only through the size of requests. In
`FrameTx` call depth is two, opcodes with an effect are three (two in a frame
transaction), frames three: a batch of two with a frame before or after it, a
nested call whose parent reverts after it succeeded, and an undo of both.

**Deadlock** is not checked where bounds let the system rest: every block
imported, every fault, submission or announcement spent, the transaction done.
Liveness properties say that nobody who waits does so for ever.

**Fairness** is weak fairness of threads (persist worker, block worker, a pass
under way, generator, startup code): the operating system keeps scheduling them
and none of them waits on a condition the others can withdraw. The exception is
strong fairness of `UpdateHeadCache`: `fcu_lock` is a tokio mutex, which is
granted in order of arrival. In `Settlement` the committer and the sender run on
timers and retry after every error, the L1 includes what is pending, provers
deliver, a stopped node is started again and a pause is lifted. In
`AlignedProving` the same holds of coordinator, sender, verifier and Aligned, and time
passes. In `TxFetch` timers fire and handlers finish; nothing makes a peer
answer. Requests, faults, submissions and commits are never owed.

## 4. What is proved

    TrieStore  <-  TrieCommitProofs  <-  TrieStoreProofs  <-  TrieRestartProofs
    ForkChoice  <-  ForkChoiceProofs        BlockTree  <-  BlockTreeProofs
    FkvGenerator  <-  FkvGeneratorProofs    TxFetch  <-  TxFetchProofs
    Mempool  <-  MempoolProofs

Every theorem holds for all values of the constants: any block tree, any sets
of paths, accounts, transactions, peers and callers, any threshold, cap, queue
length and number of faults.

**The trie store.** `DiskIsOneStateAlways`, `JournalReversesAlways`,
`OverlayShowsPivotAlways` and `AnchoredReadsAlways` are inductive only together:
a commit through an overlay leaves the disk in one state because the overlay and
the disk show the pivot's state, which they do because the journal reversed the
disk. The invariant `IInv` (in `TrieCommitProofs`) adds to the types

- `TableInv`: the canonical table is the ancestor chain of the head;
- `PassInv`: at most one message in the queue is owed an answer, and it is the
  one the pass under way waits for;
- `DiskInv`: while `stray` is false, the disk is the state of the block its root
  key names, the journal's entries link that block to its ancestors and undo them
  exactly (`JournalOK`), and an overlay, installed or still in the hands of the
  pass that built it, shows its pivot when laid over the state it was built from
  (`OverlayOK`).

`JournalCoversWindowAlways` needs one hypothesis about the outside, that the
consensus client does not move finality back. `RestartRecoversAlways` needs what
a start knows: nothing is in memory but the layers it has built, which are a
contiguous segment of the head's chain above the disk's block (`Regenerating`),
even while the worker commits the lower end of it; and a start that gave up found
no canonical block's state (`BootInv`).

**Fork choice.** `TypeCorrect`, `HeadCacheCorrect`, `ReorgSlotCorrect` hold for
any number of concurrent callers. `SharedInv` adds to the three properties that
a caller in `txn` is the one that holds `fcu_lock`, and that the head it saved is
the stored one: without it a failed transaction could restore anything.
`CanonicalChainCorrect` is for one caller. `SoloInv` adds that the branch the
caller carries was computed from the table as it still is; the core is that
rewriting a linked table along the branch of a head gives a table linked to that
head, because two chains of a tree meet in one block. The restriction to one
caller is needed (section 6).

**The tree.** `BlockTree` assumes what parents, numbers and ancestor sets are,
and three consequences that the proofs cite: `AncestryAssumption`,
`MeetAssumption` and `LowestAssumption`. `AncestryFollows`, `MeetFollows` and
`LowestFollows` (`BlockTreeProofs`) derive them from the others, by the
well-foundedness of heights, so nothing rests on them.

**Flat tables.** `FlatCorrectAlways` and `ReadsAgreeAlways` assume that no
account is removed from the trie (`Removable = {}`, which is the case from Cancun
on). `FlatInv` relates the generator to the trie it walks: at the start of a pass
it stands at the frontier (`Fresh`), inside a pass its batch is exactly the leaves
between the frontier and its position (`Walking`), and the worker writes only
while the generator is stopped (`Handshake`).

**Fetching.** `InFlightCorrect` rests on `HeldInv`: a reserved hash has exactly
one holder, a connection that buffers it or a request that still waits, and the
requests a sweep has collected are its own connection's and still outstanding when
it comes to them.

**The pool.** `SlotsAgreeAlways`, `NoOrphanBundleAlways` and
`ReservationsMatchAlways` follow from `MempoolInv`, in which `PoolInv` says of the
pool alone what every step under the lock keeps, and `Flights` what a submission
carries between two locks. `PendingWithinBalanceAlways` adds `BudgetInv`: the
nonce a submission has read is never above the account's, so what it left out of
the sum is already spent. Sums over sets are handled with the library's theorems on
finite sets.

Only model-checked: `Settlement` with the refinement of `BatchLedger`,
`PersistPipeline`, `AlignedProving`, the EVM modules, `MemoryWithinCaps`, and all
liveness properties, which are outside the prover's reach.

## 5. What is not modelled

- Block validity and execution, to the storage modules: a block's effect is the
  set of paths it writes. Execution on a wrong state is detected exactly if a
  path it touches has the wrong version (`Executable`), as the state-root check
  does.
- RocksDB: a write batch is atomic, and a crash loses no completed batch.
- Snap-sync healing, migrations, batch imports of full sync, several readers.
- Removal of accounts with storage (before Cancun) in the flat tables:
  `Removable` is empty in the run. No deletion is written for the storage leaves
  of a removed account (`store.rs:2809`), so its old slots stay visible left of
  the frontier. Nor is progress of the generator under ever-recurring commits:
  each Stop drops the batch that is not yet written (`store.rs:5730`).
- Rollup: messages between rollups, verification keys and versions, claims and
  tokens, based mode, sizing of batches, the time gate of commits, the depth of
  state a checkpoint keeps. The L1 does not reorganise.
- Pool: L2 privileged transactions, the broadcast and private sets, senders
  without an account, canonical paymasters. Prices are levels; validity of a
  frame transaction's simulation is a free choice.
- Fetching: the eth/72 tables and cells, requests split at 256 hashes,
  transactions that leave the pool, the gate while syncing.
- EVM: gas, opcodes that only compute, `CALLCODE`, `DELEGATECALL` and `STATICCALL`
  inside a frame, the block access list, system calls, privileged and fee-token
  transactions of the L2 (a failing fee token is `FinalizeFails`), internal
  database errors.
- Peer table and discovery, full and snap sync, JSON-RPC, in-flight payload
  deduplication, the L1 watcher, based sequencing, provers, tooling: see the
  component list for the reasons. Most of them are I/O or data
  conversion; sync, the watcher and the payload deduplication have protocol
  state and are next in section 7.

## 6. Where the code and its words disagree

Checked as a run: `frame_approvals`. `APPROVE` records the approval in the
transaction's context and its nonce bump and charge in the call frame's backup.
When a caller between the approving call and the frame reverts, outside a batch,
the backup is restored and the approval stays; the transaction is included and
its payer was never charged. `vm.rs:533` explains why approvals have to be rolled
back with their effects, for batches.

The modules also state what other comments say, in definitions that no run
lists; TLC refutes each with the configuration named here.

- `CanonicalChainLinked` with two callers (`MCForkChoice_race.cfg`,
  `fork_choice.rs:68`: "all head's ancestors and itself are made canonical"):
  the branch is computed outside `fcu_lock` and applied without being validated
  again, so overlapping fork choices can leave an ancestor of the head out of the
  canonical table.
- `FinalizedOnNewChain` (`MCForkChoice_finalized.cfg`, `fork_choice.rs:184`:
  "Check that finalized and safe blocks are part of the new canonical chain."): a
  finalized block of the old chain at the new head's own height passes the test.
- `NeverBricked` (`MCTrieStore_bricked.cfg`, `store.rs:715`: dropped layers "are
  re-executed on the next start from the deep, reorg-safe on-disk base"): after
  one branch was committed, a fork choice to a sibling whose layer survived, then
  a crash, leaves no state to start from.
- `IdleMeansFlushed` (`MCPersistPipeline_idle.cfg`, `store.rs:680`): after a
  failed flush was reported once, the next handshake succeeds with the block
  still only in memory.
- `CheckpointHoldsState` (`MCSettlement_checkpoint.cfg`, `l1_committer.rs`,
  `ensure_checkpoint_for_committed_batch`): a checkpoint directory that exists is
  taken for complete, although the copy may open at an earlier state.
- `DeletedIsSentAgain` (`MCAlignedProving_first.cfg`, `l1_proof_verifier.rs:293`:
  "The sender will detect the stale verified_at timestamp and reset its own
  aligned cursor."): not before the first verification, when there is no timestamp.
- `BlobsKeepTheirBundle` (`MCMempool_bundle.cfg`, `payload.rs:1215`: "No blob tx
  should enter the mempool without its blobs bundle"): when a transaction is
  submitted twice at once, the second insertion replaces the first entry of its
  own slot and removes that entry's bundle, which is also its own.
- `BlobsWithinCap` (`MCMempool_cap.cfg`, `mempool.rs:92`: "Maximum number of blob
  (EIP-4844) transactions retained in the mempool"): the cap counts bundles, so a
  transaction that lost its bundle this way is not counted and another one enters.
  `MemoryWithinCaps` is what remains true: the bundles themselves are bounded.
- `DroppedLeavesNothing` (`MCFrameTx_dropped.cfg`, `payload.rs:1480`: "Rollback
  transaction state before returning error"): the L1 builder undoes a transaction
  that overflows the block's gas, but no L1 hook leaves a backup (`vm.rs:2353`: "on
  L1 the field is never consulted"). The undo fails, the transaction is dropped on
  that error, and what it did stays in the cache the next ones run on.
- `RejectedEvictsCodes` (`MCFrameTx_codes.cfg`, `call_frame.rs:350`: cached codes
  are "Removed from the cache on revert"): `absorb` does not take the list of
  inserted codes over, so those of a rejected frame transaction stay cached.

Windows the code leaves open without a word about them: a queued commit of a root
that has left the canonical chain; a safe-commit cell that outlives its chain
below the threshold; an overlay built before the worker was drained; canonical
rows above a head that a start has lowered; a fee settlement that fails half way on
the L2, which undoes the fees and keeps the execution (`FinalizeFails`); a
price-bump test that is not repeated under the pool's lock; alternates that are
forgotten after 30 seconds while a silent request is swept after 30 to 45.

## 7. Plan

1. Proofs: `LedgerImplemented` and `CommittedIsSealed` of `Settlement`;
   `DurableAncestry` and `NoSilentLoss` of `PersistPipeline`; `MemoryWithinCaps`
   of `Mempool`; `Undoable` of `FrameTx`.
2. `InFlightPayloads`: leader and followers of a duplicated `newPayload`.
3. `L1Watcher`: deposits and messages from log to block, with restarts.
4. Snap sync: pivot staleness and healing.
5. Base fee, RLP lengths and nibble paths as operators checked against reference
   definitions.
