------------------------------ MODULE Mempool ------------------------------
(***************************************************************************)
(* The transaction pool of an L1 node.  Submissions from peers and from    *)
(* the RPC run concurrently: each reads the sender's account, compares     *)
(* prices with the transaction it would replace and passes the unlocked    *)
(* gates of validate_transaction, and only then takes the write lock and   *)
(* inserts.  Everything under one write lock is one step here.  New heads  *)
(* and their housekeeping interleave with the submissions.                 *)
(*                                                                         *)
(* A transaction is a record of what the pool tells apart; the record is   *)
(* its hash.  A fee is a level: the next level is a sufficient price bump. *)
(* Whether a hash is queued for gossip or kept private is left out.        *)
(***************************************************************************)
EXTENDS Integers, FiniteSets, FiniteSetsExt, Sequences, Functions

CONSTANTS Submitters,    \* concurrent submissions
          Txs,           \* records: sender, nonce, kind, cost, fee, paymaster
          Senders,
          Paymasters,
          Balance,       \* sender -> balance at the start
          Funds,         \* paymaster -> balance
          MaxPool,       \* max_mempool_size
          MaxBlobs,      \* max_blob_mempool_size
          QueuedMax,     \* max_queued_txs_per_account
          GapThreshold,  \* gap_admit_occupancy_threshold, in percent
          MaxHeads,      \* bound: new heads
          MaxSubmissions \* bound: submissions started

\* What the constants are.
ConstantsOK ==
    /\ \A t \in Txs : /\ t.sender \in Senders
                      /\ t.kind \in {"regular", "blob", "frame"}
                      /\ t.kind = "frame" => t.paymaster \in Paymasters
                      /\ {t.nonce, t.cost, t.fee} \subseteq Nat
    /\ Balance \in [Senders -> Nat]
    /\ Funds \in [Paymasters -> Nat]
    /\ MaxPool \in Nat \ {0}
    /\ {MaxBlobs, QueuedMax, GapThreshold, MaxHeads, MaxSubmissions} \subseteq Nat

ASSUME MempoolAssumption == ConstantsOK

VARIABLES inner,        \* MempoolInner
          submission,   \* submitter -> where its transaction stands
          account,      \* sender -> nonce and balance at the head
          housekeeping, \* what the fork-choice handler still has to do
          heads,
          started

vars == <<inner, submission, account, housekeeping, heads, started>>

MaxPending == 1   \* FRAME_TX_MAX_PENDING_NONCANONICAL_PAYMASTER

IsBlob(t) == t.kind = "blob"
IsFrame(t) == t.kind = "frame"
Slot(t) == <<t.sender, t.nonce>>
Cost(t) == t.cost
Idle == [step |-> "idle"]

Empty ==
    [pool      |-> {},          \* transaction_pool
     bundles   |-> {},          \* blobs_bundle_pool, by transaction
     byNonce   |-> << >>,       \* txs_by_sender_nonce
     order     |-> << >>,       \* txs_order
     pendingFrame |-> << >>,    \* pending_frame_tx_by_sender
     sponsored |-> {},          \* frame_tx_paymaster: recorded reservations
     reserved  |-> [p \in Paymasters |-> 0],  \* reserved_pending_cost
     pending   |-> [p \in Paymasters |-> 0]]  \* noncanonical_paymaster_pending

----------------------------------------------------------------------------
\* Removal: the one path that releases everything a transaction holds.

Minus(n, k) == IF n > k THEN n - k ELSE 0

Without(f, keys) == Restrict(f, DOMAIN f \ keys)

With(f, key, value) ==
    [k \in DOMAIN f \cup {key} |-> IF k = key THEN value ELSE f[k]]

\* What the frame transactions "recorded" hold of a paymaster.
HeldOf(recorded, p) == {t \in recorded : t.paymaster = p}

\* Mutant: releases the reservation and forgets the pending slot.
ReleasedFramesKeepCount(m, frames) ==
    LET recorded == frames \cap m.sponsored
    IN  [m EXCEPT
           !.pendingFrame = Without(@, {t.sender : t \in frames}),
           !.sponsored = @ \ recorded,
           !.reserved = [p \in Paymasters |->
                            Minus(@[p], MapThenSumSet(Cost, HeldOf(recorded, p)))]]

ReleasedFrames(m, frames) ==
    LET recorded == frames \cap m.sponsored
        current == {t \in frames : t.sender \in DOMAIN m.pendingFrame
                                    /\ m.pendingFrame[t.sender] = t}
    IN  [m EXCEPT
           !.pendingFrame = Without(@, {t.sender : t \in current}),
           !.sponsored = @ \ recorded,
           !.reserved = [p \in Paymasters |->
                            Minus(@[p], MapThenSumSet(Cost, HeldOf(recorded, p)))],
           !.pending = [p \in Paymasters |->
                            Minus(@[p], Cardinality(HeldOf(recorded, p)))]]

\* remove_transaction_with_lock for one transaction after the other: each is
\* gone with its index entries and its reservation, whatever the order.  The
\* order queue keeps its entries.
RemovedAll(m, ts) ==
    LET gone == ts \cap m.pool
    IN  ReleasedFrames([m EXCEPT !.pool = @ \ gone,
                                 !.bundles = @ \ {t \in gone : IsBlob(t)},
                                 !.byNonce = Without(@, {Slot(t) : t \in gone})],
                       {t \in gone : IsFrame(t)})

Removed(m, t) == RemovedAll(m, {t})

FreedSlot(m, t) ==
    IF Slot(t) \in DOMAIN m.byNonce THEN Removed(m, m.byNonce[Slot(t)]) ELSE m

----------------------------------------------------------------------------
\* The per-sender gates, evaluated on a pool state m.

next_executable_nonce(m, sender, n) ==
    Min({k \in n .. n + Cardinality(m.pool) : <<sender, k>> \notin DOMAIN m.byNonce})

is_future(m, t, n) == t.nonce > next_executable_nonce(m, t.sender, n)

OfSender(m, sender, n) ==
    {slot \in DOMAIN m.byNonce : slot[1] = sender /\ slot[2] >= n}

queued_count(m, sender, n) ==
    Cardinality(OfSender(m, sender, next_executable_nonce(m, sender, n)))

occupancy_pct(m) ==
    LET pct == (100 * Cardinality(m.pool)) \div MaxPool
    IN  IF pct > 100 THEN 100 ELSE pct

\* sum_cost_for_sender, without the transaction in slot "except".
SumCost(m, sender, n, except) ==
    MapThenSumSet(LAMBDA slot : m.byNonce[slot].cost,
                  OfSender(m, sender, n) \ {except})

GapDenied(m, t, n) ==
    /\ t.nonce # n
    /\ GapThreshold < 100
    /\ occupancy_pct(m) >= GapThreshold

OverBudget(m, t, seen) ==
    /\ ~IsFrame(t)
    /\ SumCost(m, t.sender, seen.nonce, Slot(t)) + t.cost > seen.balance

\* Mutant: trusts the unlocked gates for the balance.
check_admissionUnlocked(m, t, seen) ==
    Slot(t) \notin DOMAIN m.byNonce =>
        /\ is_future(m, t, seen.nonce)
             => queued_count(m, t.sender, seen.nonce) < QueuedMax
        /\ ~GapDenied(m, t, seen.nonce)

\* check_admission, on the live pool and the account as it was read.
check_admission(m, t, seen) ==
    /\ Slot(t) \notin DOMAIN m.byNonce =>
         /\ is_future(m, t, seen.nonce)
              => queued_count(m, t.sender, seen.nonce) < QueuedMax
         /\ ~GapDenied(m, t, seen.nonce)
    /\ ~OverBudget(m, t, seen)

\* check_frame_tx_sender_pending and the paymaster re-check under the lock.
FrameAccepted(m, t) ==
    LET held == t.sender \in DOMAIN m.pendingFrame /\ m.pendingFrame[t.sender] # t
        old == m.pendingFrame[t.sender]
        bumped == held /\ old \in m.sponsored /\ old.paymaster = t.paymaster
    IN  /\ held => old.nonce = t.nonce
        /\ Minus(m.pending[t.paymaster], IF bumped THEN 1 ELSE 0) < MaxPending
        /\ Minus(Funds[t.paymaster],
                 Minus(m.reserved[t.paymaster], IF bumped THEN old.cost ELSE 0))
             >= t.cost

----------------------------------------------------------------------------
\* Eviction.

blob_tx_count(m) == Cardinality(m.bundles)

regular_tx_count(m) == Minus(Cardinality(m.pool), blob_tx_count(m))

\* The entries of the queue whose transaction is pooled, in their order.
LiveOrder(m) ==
    LET live[k \in 0 .. Len(m.order)] ==
            IF k = 0 THEN << >>
            ELSE IF m.order[k] \in m.pool THEN Append(live[k - 1], m.order[k])
            ELSE live[k - 1]
    IN  live[Len(m.order)]

PrunedOrder(m) ==
    IF Len(m.order) > MaxPool + MaxPool \div 2
    THEN [m EXCEPT !.order = LiveOrder(m)]
    ELSE m

\* remove_oldest_regular_transaction: pops the queue until there is room.
EvictedOldest(m) ==
    LET after(k) == RemovedAll(m, Range(SubSeq(m.order, 1, k)))
        enough == {k \in 0 .. Len(m.order) : regular_tx_count(after(k)) < MaxPool}
        k == IF enough = {} THEN Len(m.order) ELSE Min(enough)
    IN  [after(k) EXCEPT !.order = SubSeq(@, k + 1, Len(@))]

\* How deep a pooled blob transaction sits in its sender's queue.
Offset(m, t) ==
    t.nonce - Min({u.nonce : u \in {v \in m.bundles \cap m.pool : v.sender = t.sender}})

\* remove_worst_blob_transaction: the deepest first, then the lowest blob fee.
\* Fees of one depth are distinct, so there is one worst.
WorstBlob(m) ==
    CHOOSE t \in m.bundles \cap m.pool : \A u \in (m.bundles \cap m.pool) \ {t} :
        \/ Offset(m, t) > Offset(m, u)
        \/ Offset(m, t) = Offset(m, u) /\ t.fee <= u.fee

\* One after the other, each the worst of what the others left, until the blob
\* pool is within its cap or nothing can be evicted.
EvictedWorst(m) ==
    LET evictable == m.bundles \cap m.pool
        n == Min({Minus(blob_tx_count(m), MaxBlobs), Cardinality(evictable)})
        worst == CHOOSE w \in [1 .. n -> evictable] : \A i \in 1 .. n :
                    w[i] = WorstBlob(RemovedAll(m, {w[j] : j \in 1 .. i - 1}))
    IN  RemovedAll(m, Range(worst))

\* Mutant: a frame transaction is not put in the order queue.
MadeRoomUnordered(m, t) ==
    IF IsBlob(t) \/ IsFrame(t) THEN m
    ELSE LET kept == IF regular_tx_count(m) >= MaxPool THEN EvictedOldest(m) ELSE m
         IN  [kept EXCEPT !.order = Append(@, t)]

MadeRoom(m, t) ==
    IF IsBlob(t) THEN EvictedWorst(m)
    ELSE LET kept == IF regular_tx_count(m) >= MaxPool THEN EvictedOldest(m) ELSE m
         IN  [kept EXCEPT !.order = Append(@, t)]

Inserted(m, t) ==
    LET stored == [m EXCEPT !.pool = @ \cup {t}, !.byNonce = With(@, Slot(t), t)]
    IN  IF ~IsFrame(t) THEN stored
        ELSE [stored EXCEPT !.pendingFrame = With(@, t.sender, t),
                            !.sponsored = @ \cup {t},
                            !.reserved[t.paymaster] = @ + t.cost,
                            !.pending[t.paymaster] = @ + 1]

\* Mutant: a frame transaction frees the slot only of a pending frame transaction.
ReplacedFrameOnly(m, t) ==
    LET freed == IF IsFrame(t) /\ t.sender \notin DOMAIN m.pendingFrame THEN m
                 ELSE FreedSlot(m, t)
    IN  Inserted(MadeRoom(PrunedOrder(freed), t), t)

\* The slot's occupant leaves, the queue is pruned, room is made.
Replaced(m, t) == Inserted(MadeRoom(PrunedOrder(FreedSlot(m, t)), t), t)

----------------------------------------------------------------------------
\* A submission.

\* contains_tx, then the account at the head: nonce too low and not enough
\* balance end the submission before anything is shared.
Submit(s, t) ==
    /\ submission[s] = Idle
    /\ started < MaxSubmissions
    /\ t \notin inner.pool
    /\ t.nonce >= account[t.sender].nonce
    /\ IsFrame(t) \/ t.cost <= account[t.sender].balance
    /\ submission' = [submission EXCEPT
                        ![s] = [step |-> "price", tx |-> t, seen |-> account[t.sender]]]
    /\ started' = started + 1
    /\ UNCHANGED <<inner, account, housekeeping, heads>>

At(s, step) == submission[s].step = step
Goto(s, step) == submission' = [submission EXCEPT ![s].step = step]
Leave(s) == submission' = [submission EXCEPT ![s] = Idle]

\* find_tx_to_replace: no change between blob and non-blob, and a price bump.
MayReplace(m, t) ==
    LET old == m.byNonce[Slot(t)]
    IN  Slot(t) \in DOMAIN m.byNonce /\ old # t =>
            /\ IsBlob(old) = IsBlob(t)
            /\ t.fee > old.fee

FindReplaced(s) ==
    /\ At(s, "price")
    /\ IF MayReplace(inner, submission[s].tx) THEN Goto(s, "gates") ELSE Leave(s)
    /\ UNCHANGED <<inner, account, housekeeping, heads, started>>

\* The unlocked gates of validate_transaction.  A replacement is exempt from
\* the gap gate and from the paymaster pre-filter.
Gates(m, t, seen) ==
    LET fresh == Slot(t) \notin DOMAIN m.byNonce \/ m.byNonce[Slot(t)] = t
        existing == SumCost(m, t.sender, seen.nonce,
                            IF fresh THEN <<>> ELSE Slot(t))
    IN  /\ ~IsFrame(t) => existing + t.cost <= seen.balance
        /\ fresh => ~GapDenied(m, t, seen.nonce)
        /\ fresh /\ IsFrame(t) =>
             /\ Minus(Funds[t.paymaster], m.reserved[t.paymaster]) >= t.cost
             /\ m.pending[t.paymaster] < MaxPending

PassGates(s) ==
    /\ At(s, "gates")
    /\ LET t == submission[s].tx
       IN  IF Gates(inner, t, submission[s].seen)
           THEN Goto(s, IF IsBlob(t) THEN "bundle" ELSE "insert")
           ELSE Leave(s)
    /\ UNCHANGED <<inner, account, housekeeping, heads, started>>

\* add_blobs_bundle, before the transaction itself.
AddBundle(s) ==
    /\ At(s, "bundle")
    /\ inner' = [inner EXCEPT !.bundles = @ \cup {submission[s].tx}]
    /\ Goto(s, "insert")
    /\ UNCHANGED <<account, housekeeping, heads, started>>

\* add_transaction_inner under the write lock.
Insert(s) ==
    /\ At(s, "insert")
    /\ LET t == submission[s].tx
           accepted == /\ check_admission(inner, t, submission[s].seen)
                       /\ IsFrame(t) => FrameAccepted(inner, t)
       IN  \/ /\ accepted
              /\ inner' = Replaced(inner, t)
              /\ Leave(s)
           \/ /\ ~accepted
              /\ IF IsBlob(t) THEN Goto(s, "rollback") ELSE Leave(s)
              /\ UNCHANGED inner
    /\ UNCHANGED <<account, housekeeping, heads, started>>

\* Mutant: the bundle of a rejected blob transaction stays.
RollbackNothing(s) ==
    /\ At(s, "rollback")
    /\ Leave(s)
    /\ UNCHANGED <<inner, account, housekeeping, heads, started>>

\* remove_blobs_bundle after a failed insert.
Rollback(s) ==
    /\ At(s, "rollback")
    /\ inner' = [inner EXCEPT !.bundles = @ \ {submission[s].tx}]
    /\ Leave(s)
    /\ UNCHANGED <<account, housekeeping, heads, started>>

----------------------------------------------------------------------------
\* New heads.

\* A fork-choice update makes a block with t canonical.  The block is the new
\* head, or one of the blocks below it, whose transactions are not removed.
NewHead(t, isHead) ==
    /\ housekeeping = <<>>
    /\ heads < MaxHeads
    /\ t.nonce = account[t.sender].nonce
    /\ IsFrame(t) \/ t.cost <= account[t.sender].balance
    /\ account' = [account EXCEPT
                     ![t.sender].nonce = @ + 1,
                     ![t.sender].balance = IF IsFrame(t) THEN @ ELSE @ - t.cost]
    /\ housekeeping' = (IF isHead THEN <<[task |-> "block", tx |-> t]>> ELSE <<>>)
                         \o <<[task |-> "blobs"], [task |-> "frames"]>>
    /\ heads' = heads + 1
    /\ UNCHANGED <<inner, submission, started>>

NextTask(task) ==
    /\ housekeeping # <<>>
    /\ Head(housekeeping).task = task
    /\ housekeeping' = Tail(housekeeping)
    /\ UNCHANGED <<submission, account, heads, started>>

\* remove_block_transactions_from_pool
RemoveIncluded ==
    /\ NextTask("block")
    /\ inner' = Removed(inner, Head(housekeeping).tx)

\* remove_stale_blob_txs: only what has a bundle is looked at.
RemoveStaleBlobs ==
    /\ NextTask("blobs")
    /\ LET stale == {t \in inner.bundles \cap inner.pool :
                        t.nonce < account[t.sender].nonce}
       IN  inner' = RemovedAll(inner, stale)

\* revalidate_frame_txs_after_block: which of the pending frame transactions
\* expired or fail their simulation on the new state is free.
RevalidateFrames ==
    /\ NextTask("frames")
    /\ \E failing \in SUBSET inner.sponsored :
         inner' = RemovedAll(inner, failing)

\* The payload builder drops a transaction its execution proves unusable:
\* a frame transaction, or one that no state makes valid under the fork.
BuilderDrops(t) ==
    /\ t \in inner.pool
    /\ IsFrame(t) => t.nonce = account[t.sender].nonce
    /\ inner' = Removed(inner, t)
    /\ UNCHANGED <<submission, account, housekeeping, heads, started>>

----------------------------------------------------------------------------
Init ==
    /\ inner = Empty
    /\ submission = [s \in Submitters |-> Idle]
    /\ account = [a \in Senders |-> [nonce |-> 0, balance |-> Balance[a]]]
    /\ housekeeping = <<>>
    /\ heads = 0
    /\ started = 0

SubmitterStep(s) ==
    \/ \E t \in Txs : Submit(s, t)
    \/ FindReplaced(s)
    \/ PassGates(s)
    \/ AddBundle(s)
    \/ Insert(s)
    \/ Rollback(s)

Next ==
    \/ \E s \in Submitters : SubmitterStep(s)
    \/ \E t \in Txs, isHead \in BOOLEAN : NewHead(t, isHead)
    \/ RemoveIncluded
    \/ RemoveStaleBlobs
    \/ RevalidateFrames
    \/ \E t \in Txs : BuilderDrops(t)

Spec == Init /\ [][Next]_vars

----------------------------------------------------------------------------
Pooled(kind) == {t \in inner.pool : t.kind = kind}

\* The submissions that stored a bundle and have not ended.
Bundling == {s \in Submitters :
    /\ submission[s] # Idle
    /\ IsBlob(submission[s].tx)
    /\ submission[s].step \in {"insert", "rollback"}}

\* Every variable keeps its type; the eviction queue holds no blob transaction
\* and only pooled frame transactions hold a reservation.
TypeOK ==
    /\ inner.pool \subseteq Txs
    /\ inner.bundles \subseteq {t \in Txs : IsBlob(t)}
    /\ Range(inner.order) \subseteq {t \in Txs : ~IsBlob(t)}
    /\ inner.sponsored \subseteq Pooled("frame")
    /\ \A a \in Senders : account[a].nonce \in Nat /\ account[a].balance \in Nat
    /\ \A s \in Submitters :
         submission[s] # Idle => /\ submission[s].tx \in Txs
                                 /\ submission[s].seen.balance \in Nat

\* The sender-nonce index and the pool hold the same transactions, so no two
\* pooled transactions share a slot and sum_cost_for_sender_inner never meets
\* its "index/pool inconsistency" (mempool.rs, add_transaction_inner).
SlotsAgree ==
    /\ Range(inner.byNonce) = inner.pool
    /\ \A slot \in DOMAIN inner.byNonce : Slot(inner.byNonce[slot]) = slot

\* A bundle belongs to a pooled transaction or to a submission that is still
\* on its way to insert it or to roll it back: none is left behind
\* (blockchain.rs, add_blob_transaction_to_pool_inner).
NoOrphanBundle ==
    inner.bundles \subseteq inner.pool \cup {submission[s].tx : s \in Bundling}

\* What the pool keeps in memory stays within its caps: the blobs' bundles,
\* those of submissions on their way aside ("blobs are held in RAM, so the
\* bound is this count", MAX_BLOB_MEMPOOL_SIZE), and the regular transactions.
\* A bundle stored ahead of its transaction hides one regular transaction from
\* regular_tx_count, so these may exceed their cap by the other submissions at
\* most.  The number of pooled blob transactions is not bounded: see
\* BlobsWithinCap.
MemoryWithinCaps ==
    /\ Cardinality(inner.bundles \ {submission[s].tx : s \in Bundling}) <= MaxBlobs
    /\ Cardinality(inner.pool \ Pooled("blob")) <= MaxPool + Cardinality(Submitters) - 1

\* "Maximum number of blob (EIP-4844) transactions retained in the mempool"
\* (MAX_BLOB_MEMPOOL_SIZE).  It does not hold: blob_tx_count counts bundles,
\* and a second submission of a pooled blob takes its bundle away.
BlobsWithinCap == Cardinality(Pooled("blob")) <= MaxBlobs

\* The reservation maps say exactly what the pooled frame transactions hold:
\* one per sender, at most MaxPending per paymaster, within its funds, however
\* transactions were replaced, evicted, included or dropped.
ReservationsMatch ==
    /\ Range(inner.pendingFrame) = Pooled("frame")
    /\ inner.sponsored = Pooled("frame")
    /\ \A p \in Paymasters :
         LET held == {t \in inner.sponsored : t.paymaster = p}
         IN  /\ inner.reserved[p] = MapThenSumSet(Cost, held)
             /\ inner.reserved[p] <= Funds[p]
             /\ inner.pending[p] = Cardinality(held)
             /\ inner.pending[p] <= MaxPending

\* Two submissions of one sender cannot race past its budget: what the
\* sender's pooled transactions can still cost is covered by the balance the
\* account had, whichever head each submission read (check_admission).
PendingWithinBalance ==
    \A a \in Senders :
        MapThenSumSet(Cost, {t \in inner.pool : /\ t.sender = a
                                                /\ ~IsFrame(t)
                                                /\ t.nonce >= account[a].nonce})
            <= Balance[a]

\* "No blob tx should enter the mempool without its blobs bundle"
\* (payload.rs, apply_blob_transaction).  It does not hold either, for the same
\* reason.
BlobsKeepTheirBundle == Pooled("blob") \subseteq inner.bundles

============================================================================
