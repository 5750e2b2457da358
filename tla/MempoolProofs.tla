---------------------------- MODULE MempoolProofs ---------------------------
(***************************************************************************)
(* Proofs about Mempool, for every set of transactions and of concurrent   *)
(* submissions and every cap.  First the indexes, the bundles and the      *)
(* reservations; then what the senders' transactions can cost together,    *)
(* with the library's theorems on finite sets.                             *)
(***************************************************************************)
EXTENDS Mempool, FiniteSetTheorems, TLAPS

\* A pool state has its eight fields.
Shaped(m) ==
    DOMAIN m = {"pool", "bundles", "byNonce", "order", "pendingFrame", "sponsored",
                "reserved", "pending"}

\* The sender-nonce index and the pool hold the same transactions.
Indexed(m) ==
    /\ \A slot \in DOMAIN m.byNonce :
          m.byNonce[slot] \in m.pool /\ Slot(m.byNonce[slot]) = slot
    /\ \A t \in m.pool : Slot(t) \in DOMAIN m.byNonce /\ m.byNonce[Slot(t)] = t

\* A sender has at most one pooled frame transaction, and each is recorded.
FramesIndexed(m) ==
    /\ \A a \in DOMAIN m.pendingFrame :
          /\ m.pendingFrame[a] \in m.pool
          /\ IsFrame(m.pendingFrame[a])
          /\ m.pendingFrame[a].sender = a
    /\ \A t \in m.pool : IsFrame(t) =>
          t.sender \in DOMAIN m.pendingFrame /\ m.pendingFrame[t.sender] = t
    /\ m.sponsored = {t \in m.pool : IsFrame(t)}

\* What a paymaster has reserved: nothing, or the cost of one transaction.
ReservedFor(m, p) ==
    \/ /\ HeldOf(m.sponsored, p) = {}
       /\ m.reserved[p] = 0
       /\ m.pending[p] = 0
    \/ \E t \in Txs :
          /\ HeldOf(m.sponsored, p) = {t}
          /\ m.reserved[p] = t.cost
          /\ m.pending[p] = 1
          /\ t.cost <= Funds[p]

\* The invariant of the pool, kept by every step under the lock.
PoolInv(m) ==
    /\ Shaped(m)
    /\ m.pool \subseteq Txs
    /\ m.bundles \subseteq {t \in Txs : IsBlob(t)}
    /\ Indexed(m)
    /\ FramesIndexed(m)
    /\ DOMAIN m.reserved = Paymasters /\ DOMAIN m.pending = Paymasters
    /\ \A p \in Paymasters : ReservedFor(m, p)

\* Removing transactions: nothing comes in, and a bundle stays only with its
\* transaction.
Shrunk(m, r) ==
    /\ r.pool \subseteq m.pool
    /\ r.bundles \subseteq m.bundles
    /\ r.bundles \cap m.pool \subseteq r.pool

-----------------------------------------------------------------------------
(* Removing, making room and storing.                                      *)

\* The cardinality of no element and of one.
LEMMA CountFew ==
    ASSUME NEW x PROVE Cardinality({}) = 0 /\ Cardinality({x}) = 1
<1>1. ASSUME NEW S, S \subseteq {x} PROVE Cardinality(S) = IF S = {} THEN 0 ELSE 1
  <2> DEFINE Rec(f) == [T \in SUBSET S |->
                          IF T = {} THEN 0 ELSE 1 + f[T \ {CHOOSE y : y \in T}]]
             g == [T \in SUBSET S |-> IF T = {} THEN 0 ELSE 1]
             f == CHOOSE h : h = Rec(h)
  <2>1. Cardinality(S) = f[S]
    BY Zenon DEF Cardinality
  <2>2. ASSUME NEW T \in SUBSET S, T # {}
        PROVE  T \ {CHOOSE y : y \in T} = {} /\ {} \in SUBSET S
    BY Zenon, <1>1, <2>2
  <2>3. g = Rec(g)
    BY <2>2
  <2>4. f = Rec(f)
    BY Zenon, <2>3
  <2> HIDE DEF f
  <2>5. f[{}] = 0
    BY Zenon, <2>4
  <2>6. f[S] = IF S = {} THEN 0 ELSE 1
    BY <2>2, <2>4, <2>5
  <2> QED BY Zenon, <2>1, <2>6
<1> QED BY Zenon, <1>1

\* What nothing reserves: MapThenSumSet over no transaction.
LEMMA SumNone == MapThenSumSet(Cost, {}) = 0
<1> DEFINE Rec(f) == [s \in SUBSET {} |->
                        IF s = {} THEN 0
                        ELSE LET x == CHOOSE x \in s : TRUE IN Cost(x) + f[s \ {x}]]
           g == [s \in SUBSET {} |-> 0]
           f == CHOOSE h : h = Rec(h)
<1>1. MapThenSumSet(Cost, {}) = f[{}]
  BY Zenon DEF MapThenSumSet, MapThenFoldSet
<1>2. g = Rec(g)
  BY Zenon
<1>3. f = Rec(f)
  BY Zenon, <1>2
<1>4. f[{}] = 0
  BY Zenon, <1>3
<1> QED BY Zenon, <1>1, <1>4

\* What one transaction reserves: its cost.
LEMMA SumOne ==
    ASSUME NEW t, t.cost \in Nat
    PROVE  MapThenSumSet(Cost, {t}) = t.cost
<1> DEFINE Rec(f) == [s \in SUBSET {t} |->
                        IF s = {} THEN 0
                        ELSE LET x == CHOOSE x \in s : TRUE IN Cost(x) + f[s \ {x}]]
           g == [s \in SUBSET {t} |-> IF s = {} THEN 0 ELSE t.cost]
           f == CHOOSE h : h = Rec(h)
<1>1. MapThenSumSet(Cost, {t}) = f[{t}]
  BY Zenon DEF MapThenSumSet, MapThenFoldSet
<1>2. g = Rec(g)
  <2>1. ASSUME NEW s \in SUBSET {t} PROVE g[s] = Rec(g)[s]
    <3>1. CASE s = {}
      BY Zenon, <3>1
    <3>2. CASE s = {t}
      <4>1. (CHOOSE x \in s : TRUE) = t /\ s \ {t} = {} /\ s # {}
        BY Zenon, <3>2
      <4>2. g[{}] = 0 /\ g[s] = t.cost
        BY Zenon, <4>1
      <4>3. Rec(g)[s] = Cost(t) + g[{}]
        BY Zenon, <4>1
      <4> QED BY <4>2, <4>3 DEF Cost
    <3> QED BY Zenon, <3>1, <3>2
  <2> QED BY Zenon, <2>1
<1>3. f = Rec(f)
  BY Zenon, <1>2
<1>4. f[{}] = 0 /\ f[{t}] = t.cost
  <2> HIDE DEF f
  <2>1. f[{}] = 0
    BY Zenon, <1>3
  <2>2. (CHOOSE x \in {t} : TRUE) = t /\ {t} \ {t} = {} /\ {t} # {}
    BY Zenon
  <2>3. f[{t}] = Cost(t) + f[{}]
    BY Zenon, <1>3, <2>2
  <2> QED BY <2>1, <2>3 DEF Cost
<1> QED BY Zenon, <1>1, <1>4

\* What a pool state r is, field by field, once the transactions "gone", of
\* which "frames" are frame transactions, have left m.
RemovedOf(m, gone, frames, r) ==
    /\ Shaped(r)
    /\ r.pool = m.pool \ gone
    /\ r.bundles = m.bundles \ {t \in gone : IsBlob(t)}
    /\ r.byNonce = Without(m.byNonce, {Slot(t) : t \in gone})
    /\ r.pendingFrame = Without(m.pendingFrame,
          {t.sender : t \in {u \in frames : u.sender \in DOMAIN m.pendingFrame
                                            /\ m.pendingFrame[u.sender] = u}})
    /\ r.sponsored = m.sponsored \ (frames \cap m.sponsored)
    /\ r.reserved = [p \in Paymasters |->
          Minus(m.reserved[p],
                     MapThenSumSet(Cost, HeldOf(frames \cap m.sponsored, p)))]
    /\ r.pending = [p \in Paymasters |->
          Minus(m.pending[p], Cardinality(HeldOf(frames \cap m.sponsored, p)))]

\* remove_transaction_with_lock, field by field.
LEMMA RemovedFields ==
    ASSUME NEW m, Shaped(m), NEW ts,
           NEW gone, gone = ts \cap m.pool,
           NEW frames, frames = {t \in gone : IsFrame(t)},
           NEW r, r = RemovedAll(m, ts)
    PROVE  RemovedOf(m, gone, frames, r)
<1> DEFINE n == [m EXCEPT !.pool = @ \ gone,
                          !.bundles = @ \ {t \in gone : IsBlob(t)},
                          !.byNonce = Without(@, {Slot(t) : t \in gone})]
<1>1. r = ReleasedFrames(n, frames)
  BY Zenon DEF RemovedAll
<1>2. /\ Shaped(n)
      /\ n.pool = m.pool \ gone
      /\ n.bundles = m.bundles \ {t \in gone : IsBlob(t)}
      /\ n.byNonce = Without(m.byNonce, {Slot(t) : t \in gone})
      /\ n.pendingFrame = m.pendingFrame
      /\ n.sponsored = m.sponsored
      /\ n.reserved = m.reserved
      /\ n.pending = m.pending
  BY Zenon DEF Shaped
<1> HIDE DEF n
<1>3. /\ Shaped(r)
      /\ r.pool = n.pool
      /\ r.bundles = n.bundles
      /\ r.byNonce = n.byNonce
  BY <1>1, <1>2 DEF ReleasedFrames, Shaped
<1>4. r.pendingFrame = Without(n.pendingFrame,
                 {t.sender : t \in {u \in frames : u.sender \in DOMAIN n.pendingFrame
                                                   /\ n.pendingFrame[u.sender] = u}})
  BY Zenon, <1>1, <1>2 DEF ReleasedFrames, Shaped
<1>5. r.sponsored = n.sponsored \ (frames \cap n.sponsored)
  BY Zenon, <1>1, <1>2 DEF ReleasedFrames, Shaped
<1>6. r.reserved = [p \in Paymasters |->
                 Minus(n.reserved[p],
                            MapThenSumSet(Cost, HeldOf(frames \cap n.sponsored, p)))]
  BY Zenon, <1>1, <1>2 DEF ReleasedFrames, Shaped
<1>7. r.pending = [p \in Paymasters |->
                 Minus(n.pending[p], Cardinality(HeldOf(frames \cap n.sponsored, p)))]
  BY Zenon, <1>1, <1>2 DEF ReleasedFrames, Shaped
<1> QED BY <1>2, <1>3, <1>4, <1>5, <1>6, <1>7, Zenon DEF RemovedOf

\* Whatever set of transactions leaves, the pool keeps its invariant
\* (remove_transaction_with_lock).
LEMMA RemovedKeeps ==
    ASSUME ConstantsOK, NEW m, PoolInv(m), NEW ts, NEW r, r = RemovedAll(m, ts)
    PROVE  PoolInv(r) /\ Shrunk(m, r) /\ r.pool = m.pool \ ts
<1>a. PICK gone : gone = ts \cap m.pool
  BY Zenon
<1>b. PICK frames : frames = {t \in gone : IsFrame(t)}
  BY Zenon
<1>0. /\ Shaped(m)
      /\ m.pool \subseteq Txs
      /\ m.bundles \subseteq {t \in Txs : IsBlob(t)}
  BY Zenon DEF PoolInv
<1>1. /\ Shaped(r)
      /\ r.pool = m.pool \ gone
      /\ r.bundles = m.bundles \ {t \in gone : IsBlob(t)}
      /\ r.byNonce = Without(m.byNonce, {Slot(t) : t \in gone})
      /\ r.pendingFrame = Without(m.pendingFrame,
            {t.sender : t \in {u \in frames : u.sender \in DOMAIN m.pendingFrame
                                              /\ m.pendingFrame[u.sender] = u}})
      /\ r.sponsored = m.sponsored \ (frames \cap m.sponsored)
      /\ r.reserved = [p \in Paymasters |->
            Minus(m.reserved[p],
                       MapThenSumSet(Cost, HeldOf(frames \cap m.sponsored, p)))]
      /\ r.pending = [p \in Paymasters |->
            Minus(m.pending[p], Cardinality(HeldOf(frames \cap m.sponsored, p)))]
  <2>1. RemovedOf(m, gone, frames, r)
    BY Zenon, <1>a, <1>b, <1>0, RemovedFields
  <2> QED BY <2>1, Zenon DEF RemovedOf
<1>2. r.pool = m.pool \ ts
  BY Zenon, <1>a, <1>1
<1>3. Shrunk(m, r)
  BY Zenon, <1>a, <1>0, <1>1 DEF Shrunk
<1>4. Indexed(r)
  <2> DEFINE slots == {Slot(t) : t \in gone}
  <2>1. /\ DOMAIN r.byNonce = DOMAIN m.byNonce \ slots
        /\ \A slot \in DOMAIN r.byNonce : r.byNonce[slot] = m.byNonce[slot]
    BY Zenon, <1>1 DEF Without, Restrict
  <2>2. \A slot \in DOMAIN m.byNonce :
           m.byNonce[slot] \in m.pool /\ Slot(m.byNonce[slot]) = slot
    BY Zenon DEF PoolInv, Indexed
  <2>3. \A t \in m.pool : Slot(t) \in DOMAIN m.byNonce /\ m.byNonce[Slot(t)] = t
    BY Zenon DEF PoolInv, Indexed
  <2>4. ASSUME NEW slot \in DOMAIN r.byNonce
        PROVE  r.byNonce[slot] \in r.pool /\ Slot(r.byNonce[slot]) = slot
    BY <1>a, <1>1, <2>1, <2>2
  <2>5. ASSUME NEW t \in r.pool
        PROVE  Slot(t) \in DOMAIN r.byNonce /\ r.byNonce[Slot(t)] = t
    <3>1. t \in m.pool /\ t \notin gone
      BY Zenon, <1>1
    <3>2. Slot(t) \notin slots
      BY Zenon, <1>a, <2>3, <3>1
    <3> QED BY Zenon, <2>1, <2>3, <3>1, <3>2
  <2> QED BY Zenon, <2>4, <2>5 DEF Indexed
<1>5. /\ \A a \in DOMAIN m.pendingFrame :
            /\ m.pendingFrame[a] \in m.pool
            /\ IsFrame(m.pendingFrame[a])
            /\ m.pendingFrame[a].sender = a
      /\ \A t \in m.pool : IsFrame(t) =>
            t.sender \in DOMAIN m.pendingFrame /\ m.pendingFrame[t.sender] = t
      /\ m.sponsored = {t \in m.pool : IsFrame(t)}
  BY Zenon DEF PoolInv, FramesIndexed
<1>6. r.sponsored = {t \in r.pool : IsFrame(t)} /\ frames \cap m.sponsored = frames
  BY Zenon, <1>a, <1>b, <1>1, <1>5
<1>7. FramesIndexed(r)
  <2> DEFINE senders == {t.sender : t \in {u \in frames : u.sender \in DOMAIN m.pendingFrame
                                                          /\ m.pendingFrame[u.sender] = u}}
  <2>1. /\ DOMAIN r.pendingFrame = DOMAIN m.pendingFrame \ senders
        /\ \A a \in DOMAIN r.pendingFrame : r.pendingFrame[a] = m.pendingFrame[a]
    BY Zenon, <1>1 DEF Without, Restrict
  <2>2. ASSUME NEW a \in DOMAIN r.pendingFrame
        PROVE  /\ r.pendingFrame[a] \in r.pool
               /\ IsFrame(r.pendingFrame[a])
               /\ r.pendingFrame[a].sender = a
    BY <1>a, <1>b, <1>1, <1>5, <2>1
  <2>3. ASSUME NEW t \in r.pool, IsFrame(t)
        PROVE  t.sender \in DOMAIN r.pendingFrame /\ r.pendingFrame[t.sender] = t
    <3>1. t \in m.pool /\ t \notin gone
      BY Zenon, <1>1
    <3>2. t.sender \notin senders
      BY <1>b, <1>5, <2>3, <3>1
    <3> QED BY Zenon, <1>5, <2>1, <2>3, <3>1, <3>2
  <2> QED BY Zenon, <1>6, <2>2, <2>3 DEF FramesIndexed
<1>8. ASSUME NEW p \in Paymasters PROVE ReservedFor(r, p)
  <2>0. /\ r.reserved[p] = Minus(m.reserved[p],
                              MapThenSumSet(Cost, HeldOf(frames, p)))
        /\ r.pending[p] = Minus(m.pending[p], Cardinality(HeldOf(frames, p)))
    BY ZenonT(60), <1>1, <1>6
  <2>1. ReservedFor(m, p)
    BY Zenon DEF PoolInv
  <2>2. CASE /\ HeldOf(m.sponsored, p) = {}
             /\ m.reserved[p] = 0
             /\ m.pending[p] = 0
    <3>1. HeldOf(frames, p) = {} /\ HeldOf(r.sponsored, p) = {}
      BY Zenon, <1>a, <1>b, <1>1, <1>5, <2>2 DEF HeldOf
    <3>2. r.reserved[p] = 0 /\ r.pending[p] = 0
      <4>1. MapThenSumSet(Cost, HeldOf(frames, p)) = 0 /\ Cardinality(HeldOf(frames, p)) = 0
        BY Zenon, <3>1, SumNone, CountFew
      <4> QED BY <2>0, <2>2, <4>1 DEF Minus
    <3> QED BY Zenon, <3>1, <3>2 DEF ReservedFor
  <2>3. ASSUME NEW t \in Txs,
               HeldOf(m.sponsored, p) = {t},
               m.reserved[p] = t.cost,
               m.pending[p] = 1,
               t.cost <= Funds[p]
        PROVE  ReservedFor(r, p)
    <3>0. t \in m.pool /\ IsFrame(t) /\ t.paymaster = p
      BY Zenon, <1>5, <2>3 DEF HeldOf
    <3>1. t.cost \in Nat
      BY Zenon DEF ConstantsOK
    <3>2. CASE t \in ts
      <4>1. HeldOf(frames, p) = {t} /\ HeldOf(r.sponsored, p) = {}
        BY <1>a, <1>b, <1>1, <1>5, <2>3, <3>0, <3>2 DEF HeldOf
      <4>2. r.reserved[p] = 0 /\ r.pending[p] = 0
        <5>1. /\ MapThenSumSet(Cost, {t}) = t.cost
              /\ Cardinality({t}) = 1
          BY <3>1, SumOne, CountFew, Zenon
        <5> QED BY <2>0, <2>3, <3>1, <4>1, <5>1 DEF Minus
      <4> QED BY Zenon, <4>1, <4>2 DEF ReservedFor
    <3>3. CASE t \notin ts
      <4>1. HeldOf(frames, p) = {} /\ HeldOf(r.sponsored, p) = {t}
        BY <1>a, <1>b, <1>1, <1>5, <2>3, <3>0, <3>3 DEF HeldOf
      <4>2. r.reserved[p] = t.cost /\ r.pending[p] = 1
        <5>1. MapThenSumSet(Cost, {}) = 0 /\ Cardinality({}) = 0
          BY SumNone, CountFew, Zenon
        <5> QED BY <2>0, <2>3, <3>1, <4>1, <5>1 DEF Minus
      <4> QED BY Zenon, <2>3, <4>1, <4>2 DEF ReservedFor
    <3> QED BY Zenon, <3>2, <3>3
  <2> QED BY Zenon, <2>1, <2>2, <2>3 DEF ReservedFor
<1> QED BY Zenon, <1>0, <1>1, <1>2, <1>3, <1>4, <1>7, <1>8 DEF PoolInv

\* The order queue is no part of the pool's invariant.
LEMMA OrderKeeps ==
    ASSUME NEW m, PoolInv(m), NEW q, NEW r, r = [m EXCEPT !.order = q]
    PROVE  PoolInv(r) /\ r.pool = m.pool /\ r.bundles = m.bundles
<1>1. /\ Shaped(r)
      /\ r.pool = m.pool /\ r.bundles = m.bundles /\ r.byNonce = m.byNonce
      /\ r.pendingFrame = m.pendingFrame /\ r.sponsored = m.sponsored
      /\ r.reserved = m.reserved /\ r.pending = m.pending
  BY Zenon DEF PoolInv, Shaped
<1> QED BY <1>1 DEF PoolInv, Indexed, FramesIndexed, ReservedFor

\* Pruning the queue, making room and removing take nothing in: the queue is
\* pruned and popped, transactions leave only through RemovedAll (prune_order,
\* remove_oldest_regular_transaction, remove_worst_blob_transaction).
LEMMA RoomKeeps ==
    ASSUME ConstantsOK, NEW m, PoolInv(m), NEW t,
           NEW r, r = MadeRoom(PrunedOrder(m), t)
    PROVE  PoolInv(r) /\ Shrunk(m, r)
<1>1. PICK n : n = PrunedOrder(m)
  BY Zenon
<1>2. PoolInv(n) /\ n.pool = m.pool /\ n.bundles = m.bundles
  BY Zenon, <1>1, OrderKeeps DEF PrunedOrder
<1>3. Shrunk(n, n)
  BY Zenon DEF Shrunk
<1>4. CASE IsBlob(t)
  <2>1. PICK ts : r = RemovedAll(n, ts)
    BY Zenon, <1>1, <1>4 DEF MadeRoom, EvictedWorst
  <2>2. PoolInv(r) /\ Shrunk(n, r)
    BY Zenon, <1>2, <2>1, RemovedKeeps
  <2> QED BY Zenon, <1>2, <2>2 DEF Shrunk
<1>5. CASE ~IsBlob(t)
  <2>1. PICK kept :
           /\ kept = IF regular_tx_count(n) >= MaxPool THEN EvictedOldest(n) ELSE n
           /\ r = [kept EXCEPT !.order = Append(@, t)]
    BY Zenon, <1>1, <1>5 DEF MadeRoom
  <2>2. PoolInv(kept) /\ Shrunk(n, kept)
    <3>1. CASE kept = EvictedOldest(n)
      <4>1. PICK ts, q : kept = [RemovedAll(n, ts) EXCEPT !.order = q]
        BY <3>1, Zenon DEF EvictedOldest
      <4>2. PICK o : o = RemovedAll(n, ts)
        BY Zenon
      <4>3. PoolInv(o) /\ Shrunk(n, o)
        BY Zenon, <1>2, <4>2, RemovedKeeps
      <4>4. PoolInv(kept) /\ kept.pool = o.pool /\ kept.bundles = o.bundles
        BY Zenon, <4>1, <4>2, <4>3, OrderKeeps
      <4> QED BY Zenon, <4>3, <4>4 DEF Shrunk
    <3>2. CASE kept = n
      BY Zenon, <1>2, <1>3, <3>2
    <3> QED BY Zenon, <2>1, <3>1, <3>2
  <2>3. PICK q : r = [kept EXCEPT !.order = q]
    BY Zenon, <2>1
  <2>4. PoolInv(r) /\ r.pool = kept.pool /\ r.bundles = kept.bundles
    BY <2>2, <2>3, OrderKeeps
  <2> QED BY Zenon, <1>2, <2>2, <2>4 DEF Shrunk
<1> QED BY Zenon, <1>4, <1>5

\* Freeing the slot a transaction takes (add_transaction_inner).
LEMMA FreedKeeps ==
    ASSUME ConstantsOK, NEW m, PoolInv(m), NEW t \in Txs,
           NEW r, r = FreedSlot(m, t)
    PROVE  /\ PoolInv(r)
           /\ Shrunk(m, r)
           /\ \A u \in r.pool : Slot(u) # Slot(t)
<1>1. \A u \in m.pool : Slot(u) \in DOMAIN m.byNonce /\ m.byNonce[Slot(u)] = u
  BY Zenon DEF PoolInv, Indexed
<1>2. CASE Slot(t) \in DOMAIN m.byNonce
  <2>1. PICK old : old = m.byNonce[Slot(t)]
    BY Zenon
  <2>2. r = RemovedAll(m, {old})
    BY Zenon, <1>2, <2>1 DEF FreedSlot, Removed
  <2>3. PoolInv(r) /\ Shrunk(m, r) /\ r.pool = m.pool \ {old}
    BY Zenon, <2>2, RemovedKeeps
  <2> QED BY Zenon, <1>1, <2>1, <2>3
<1>3. CASE Slot(t) \notin DOMAIN m.byNonce
  <2>1. r = m
    BY Zenon, <1>3 DEF FreedSlot
  <2> QED BY Zenon, <1>1, <1>3, <2>1 DEF Shrunk
<1> QED BY Zenon, <1>2, <1>3

\* A transaction can go in: its slot is free, and a frame transaction meets no
\* other of its sender and no reservation of its paymaster.
Fits(m, t) ==
    /\ \A u \in m.pool : Slot(u) # Slot(t)
    /\ IsFrame(t) =>
         /\ \A u \in m.pool : IsFrame(u) => u.sender # t.sender
         /\ \A u \in m.pool : IsFrame(u) => u.paymaster # t.paymaster
         /\ t.cost <= Funds[t.paymaster]

\* What a pool state r is, field by field, once t has been stored in m.
InsertedOf(m, t, r) ==
    /\ Shaped(r)
    /\ r.pool = m.pool \cup {t}
    /\ r.bundles = m.bundles
    /\ r.byNonce = With(m.byNonce, Slot(t), t)
    /\ ~IsFrame(t) => /\ r.pendingFrame = m.pendingFrame
                           /\ r.sponsored = m.sponsored
                           /\ r.reserved = m.reserved
                           /\ r.pending = m.pending
    /\ IsFrame(t) =>
          /\ r.pendingFrame = With(m.pendingFrame, t.sender, t)
          /\ r.sponsored = m.sponsored \cup {t}
          /\ r.reserved = [m.reserved EXCEPT ![t.paymaster] = @ + t.cost]
          /\ r.pending = [m.pending EXCEPT ![t.paymaster] = @ + 1]

\* Storing a transaction, field by field (add_transaction_inner).
LEMMA InsertedFields ==
    ASSUME NEW m, Shaped(m), NEW t, NEW r, r = Inserted(m, t)
    PROVE  InsertedOf(m, t, r)
<1> DEFINE n == [m EXCEPT !.pool = @ \cup {t}, !.byNonce = With(@, Slot(t), t)]
<1>1. /\ Shaped(n)
      /\ n.pool = m.pool \cup {t}
      /\ n.bundles = m.bundles
      /\ n.byNonce = With(m.byNonce, Slot(t), t)
      /\ n.pendingFrame = m.pendingFrame
      /\ n.sponsored = m.sponsored
      /\ n.reserved = m.reserved
      /\ n.pending = m.pending
  BY Zenon DEF Shaped
<1>2. CASE ~IsFrame(t)
  <2>1. r = n
    BY Zenon, <1>2 DEF Inserted
  <2> QED BY <1>1, <1>2, <2>1, Zenon DEF InsertedOf
<1>3. CASE IsFrame(t)
  <2>1. r = [n EXCEPT !.pendingFrame = With(@, t.sender, t),
                      !.sponsored = @ \cup {t},
                      !.reserved[t.paymaster] = @ + t.cost,
                      !.pending[t.paymaster] = @ + 1]
    BY Zenon, <1>3 DEF Inserted
  <2> HIDE DEF n
  <2>2. Shaped(r) /\ r.pool = n.pool /\ r.bundles = n.bundles /\ r.byNonce = n.byNonce
    BY Zenon, <1>1, <2>1 DEF Shaped
  <2>3. /\ r.pendingFrame = With(n.pendingFrame, t.sender, t)
        /\ r.sponsored = n.sponsored \cup {t}
    BY Zenon, <1>1, <2>1 DEF Shaped
  <2>4. r.reserved = [n.reserved EXCEPT ![t.paymaster] = @ + t.cost]
    BY Zenon, <1>1, <2>1 DEF Shaped
  <2>5. r.pending = [n.pending EXCEPT ![t.paymaster] = @ + 1]
    BY Zenon, <1>1, <2>1 DEF Shaped
  <2> QED BY <1>1, <1>3, <2>2, <2>3, <2>4, <2>5, Zenon DEF InsertedOf
<1> QED BY Zenon, <1>2, <1>3

\* A transaction that fits leaves the pool's invariant (add_transaction_inner).
LEMMA InsertedKeeps ==
    ASSUME ConstantsOK, NEW m, PoolInv(m), NEW t \in Txs, Fits(m, t),
           NEW r, r = Inserted(m, t)
    PROVE  PoolInv(r) /\ r.pool = m.pool \cup {t} /\ r.bundles = m.bundles
<1>0. Shaped(m) /\ m.pool \subseteq Txs
  BY Zenon DEF PoolInv
<1>1. /\ Shaped(r)
      /\ r.pool = m.pool \cup {t}
      /\ r.bundles = m.bundles
      /\ r.byNonce = With(m.byNonce, Slot(t), t)
      /\ ~IsFrame(t) => /\ r.pendingFrame = m.pendingFrame
                             /\ r.sponsored = m.sponsored
                             /\ r.reserved = m.reserved
                             /\ r.pending = m.pending
      /\ IsFrame(t) =>
            /\ r.pendingFrame = With(m.pendingFrame, t.sender, t)
            /\ r.sponsored = m.sponsored \cup {t}
            /\ r.reserved = [m.reserved EXCEPT ![t.paymaster] = @ + t.cost]
            /\ r.pending = [m.pending EXCEPT ![t.paymaster] = @ + 1]
  <2>1. InsertedOf(m, t, r)
    BY Zenon, <1>0, InsertedFields
  <2> QED BY <2>1, Zenon DEF InsertedOf
<1>2. Indexed(r)
  <2>1. /\ DOMAIN r.byNonce = DOMAIN m.byNonce \cup {Slot(t)}
        /\ r.byNonce[Slot(t)] = t
        /\ \A slot \in DOMAIN m.byNonce :
              slot # Slot(t) => r.byNonce[slot] = m.byNonce[slot]
    BY Zenon, <1>1 DEF With
  <2>2. /\ \A slot \in DOMAIN m.byNonce :
              m.byNonce[slot] \in m.pool /\ Slot(m.byNonce[slot]) = slot
        /\ \A u \in m.pool : Slot(u) \in DOMAIN m.byNonce /\ m.byNonce[Slot(u)] = u
    BY Zenon DEF PoolInv, Indexed
  <2>3. \A u \in m.pool : Slot(u) # Slot(t)
    BY Zenon DEF Fits
  <2> QED BY <1>1, <2>1, <2>2, <2>3 DEF Indexed
<1>3. CASE ~IsFrame(t)
  <2>1. FramesIndexed(r)
    <3>1. FramesIndexed(m)
      BY Zenon DEF PoolInv
    <3> QED BY Zenon, <1>1, <1>3, <3>1 DEF FramesIndexed
  <2>2. \A p \in Paymasters : ReservedFor(r, p)
    BY Zenon, <1>1, <1>3 DEF PoolInv, ReservedFor
  <2> QED BY Zenon, <1>0, <1>1, <1>2, <2>1, <2>2 DEF PoolInv
<1>4. CASE IsFrame(t)
  <2>0. /\ \A a \in DOMAIN m.pendingFrame :
              /\ m.pendingFrame[a] \in m.pool
              /\ IsFrame(m.pendingFrame[a])
              /\ m.pendingFrame[a].sender = a
        /\ \A u \in m.pool : IsFrame(u) =>
              u.sender \in DOMAIN m.pendingFrame /\ m.pendingFrame[u.sender] = u
        /\ m.sponsored = {u \in m.pool : IsFrame(u)}
    BY Zenon DEF PoolInv, FramesIndexed
  <2>1. /\ \A u \in m.pool : IsFrame(u) => u.sender # t.sender
        /\ \A u \in m.pool : IsFrame(u) => u.paymaster # t.paymaster
        /\ t.cost <= Funds[t.paymaster]
    BY Zenon, <1>4 DEF Fits
  <2>2. FramesIndexed(r)
    <3>1. /\ DOMAIN r.pendingFrame = DOMAIN m.pendingFrame \cup {t.sender}
          /\ r.pendingFrame[t.sender] = t
          /\ \A a \in DOMAIN m.pendingFrame :
                a # t.sender => r.pendingFrame[a] = m.pendingFrame[a]
      BY Zenon, <1>1, <1>4 DEF With
    <3>2. \A a \in DOMAIN r.pendingFrame :
              /\ r.pendingFrame[a] \in r.pool
              /\ IsFrame(r.pendingFrame[a])
              /\ r.pendingFrame[a].sender = a
      BY <1>1, <1>4, <2>0, <3>1
    <3>3. \A u \in r.pool : IsFrame(u) =>
              u.sender \in DOMAIN r.pendingFrame /\ r.pendingFrame[u.sender] = u
      BY <1>1, <2>0, <2>1, <3>1
    <3>4. r.sponsored = {u \in r.pool : IsFrame(u)}
      BY Zenon, <1>1, <1>4, <2>0
    <3> QED BY Zenon, <3>2, <3>3, <3>4 DEF FramesIndexed
  <2>3. DOMAIN m.reserved = Paymasters /\ DOMAIN m.pending = Paymasters
    BY Zenon DEF PoolInv
  <2>4. DOMAIN r.reserved = Paymasters /\ DOMAIN r.pending = Paymasters
    BY Zenon, <1>1, <1>4, <2>3
  <2>5. ASSUME NEW p \in Paymasters PROVE ReservedFor(r, p)
    <3>1. ReservedFor(m, p) /\ ReservedFor(m, t.paymaster) /\ t.paymaster \in Paymasters
      BY Zenon, <1>4 DEF PoolInv, ConstantsOK, IsFrame
    <3>2. CASE p # t.paymaster
      <4>1. HeldOf(r.sponsored, p) = HeldOf(m.sponsored, p)
        BY Zenon, <1>1, <1>4, <3>2 DEF HeldOf
      <4>2. r.reserved[p] = m.reserved[p] /\ r.pending[p] = m.pending[p]
        BY Zenon, <1>1, <1>4, <2>3, <3>2
      <4> QED BY Zenon, <3>1, <4>1, <4>2 DEF ReservedFor
    <3>3. CASE p = t.paymaster
      <4>1. HeldOf(m.sponsored, p) = {}
        BY Zenon, <2>0, <2>1, <3>3 DEF HeldOf
      <4>2. HeldOf(r.sponsored, p) = {t}
        BY Zenon, <1>1, <1>4, <3>3, <4>1 DEF HeldOf
      <4>3. m.reserved[p] = 0 /\ m.pending[p] = 0
        BY Zenon, <3>1, <4>1 DEF ReservedFor
      <4>4. t.cost \in Nat
        BY Zenon DEF ConstantsOK
      <4>5. r.reserved[p] = t.cost /\ r.pending[p] = 1
        BY <1>1, <1>4, <2>3, <3>3, <4>3, <4>4
      <4> QED BY Zenon, <2>1, <3>3, <4>2, <4>5 DEF ReservedFor
    <3> QED BY Zenon, <3>2, <3>3
  <2> QED BY Zenon, <1>0, <1>1, <1>2, <2>2, <2>4, <2>5 DEF PoolInv
<1> QED BY Zenon, <1>1, <1>3, <1>4

\* A frame transaction that passes the check under the lock fits once its slot
\* is free: what still holds its sender or its paymaster was in that slot
\* (check_frame_tx_sender_pending and the paymaster re-check).
LEMMA AcceptedFits ==
    ASSUME ConstantsOK, NEW m, PoolInv(m), NEW t \in Txs,
           IsFrame(t) => FrameAccepted(m, t),
           NEW f, f = FreedSlot(m, t)
    PROVE  Fits(f, t)
<1>1. /\ f.pool \subseteq m.pool
      /\ \A u \in f.pool : Slot(u) # Slot(t)
  BY Zenon, FreedKeeps DEF Shrunk
<1>2. SUFFICES ASSUME IsFrame(t)
               PROVE  /\ \A u \in f.pool : IsFrame(u) => u.sender # t.sender
                      /\ \A u \in f.pool : IsFrame(u) => u.paymaster # t.paymaster
                      /\ t.cost <= Funds[t.paymaster]
  BY Zenon, <1>1 DEF Fits
<1> DEFINE p == t.paymaster
           old == m.pendingFrame[t.sender]
           held == t.sender \in DOMAIN m.pendingFrame /\ old # t
           bumped == held /\ old \in m.sponsored /\ old.paymaster = p
<1>3. /\ held => old.nonce = t.nonce
      /\ Minus(m.pending[p], IF bumped THEN 1 ELSE 0) < 1
      /\ Minus(Funds[p], Minus(m.reserved[p], IF bumped THEN old.cost ELSE 0)) >= t.cost
  BY Zenon, <1>2 DEF FrameAccepted, MaxPending
<1>4. p \in Paymasters /\ t.cost \in Nat /\ Funds[p] \in Nat
  BY Zenon, <1>2 DEF ConstantsOK, IsFrame
<1>5. /\ \A u \in m.pool : IsFrame(u) =>
            u.sender \in DOMAIN m.pendingFrame /\ m.pendingFrame[u.sender] = u
      /\ m.sponsored = {u \in m.pool : IsFrame(u)}
  BY Zenon DEF PoolInv, FramesIndexed
<1>6. ASSUME NEW u \in f.pool, IsFrame(u), u.sender = t.sender
      PROVE  FALSE
  <2>1. u \in m.pool /\ Slot(u) # Slot(t)
    BY Zenon, <1>1
  <2>2. t.sender \in DOMAIN m.pendingFrame /\ old = u
    BY Zenon, <1>5, <1>6, <2>1
  <2>3. u # t
    BY Zenon, <2>1
  <2>4. u.nonce = t.nonce
    BY Zenon, <1>3, <2>2, <2>3
  <2> QED BY Zenon, <1>6, <2>1, <2>4 DEF Slot
<1>7. ReservedFor(m, p)
  BY Zenon, <1>4 DEF PoolInv
<1>8. \/ HeldOf(m.sponsored, p) = {} /\ m.reserved[p] = 0
      \/ \E u \in Txs : /\ HeldOf(m.sponsored, p) = {u}
                        /\ u = old /\ held
                        /\ m.reserved[p] = u.cost /\ bumped
  <2>1. ASSUME NEW u \in Txs, HeldOf(m.sponsored, p) = {u},
               m.reserved[p] = u.cost, m.pending[p] = 1
        PROVE  u = old /\ held /\ bumped
    <3>1. bumped
      BY <1>3, <2>1 DEF Minus
    <3>2. old \in HeldOf(m.sponsored, p)
      BY Zenon, <3>1 DEF HeldOf
    <3> QED BY Zenon, <2>1, <3>1, <3>2
  <2> QED BY Zenon, <1>7, <2>1 DEF ReservedFor
<1>9. ASSUME NEW u \in f.pool, IsFrame(u), u.paymaster = p
      PROVE  FALSE
  <2>1. u \in HeldOf(m.sponsored, p)
    BY Zenon, <1>1, <1>5, <1>9 DEF HeldOf
  <2>2. u = old /\ held
    BY Zenon, <1>8, <2>1
  <2>3. u.sender = t.sender
    BY Zenon, <2>2 DEF PoolInv, FramesIndexed
  <2> QED BY Zenon, <1>6, <1>9, <2>3
<1>10. t.cost <= Funds[p]
  <2>1. CASE m.reserved[p] = 0
    <3>1. PICK c : c = IF bumped THEN old.cost ELSE 0
      BY Zenon
    <3>2. Minus(0, c) = 0
      <4>1. c \in Nat
        <5>1. bumped => old \in Txs
          BY Zenon, <1>5 DEF PoolInv
        <5>2. \A u \in Txs : u.cost \in Nat
          BY Zenon DEF ConstantsOK
        <5> QED BY Zenon, <3>1, <5>1, <5>2
      <4> QED BY <4>1 DEF Minus
    <3> QED BY <1>3, <1>4, <2>1, <3>1, <3>2 DEF Minus
  <2>2. CASE bumped /\ m.reserved[p] = old.cost /\ old \in Txs
    <3>1. old.cost \in Nat
      BY Zenon, <2>2 DEF ConstantsOK
    <3>2. Minus(old.cost, old.cost) = 0
      BY <3>1 DEF Minus
    <3>3. Minus(Funds[p], 0) >= t.cost
      BY Zenon, <1>3, <2>2, <3>2
    <3> QED BY <1>4, <3>3 DEF Minus
  <2> QED BY Zenon, <1>8, <2>1, <2>2
<1> QED BY Zenon, <1>6, <1>9, <1>10

\* An accepted transaction replaces the slot's occupant, and the pool keeps its
\* invariant: what made room took nothing in.
LEMMA ReplacedKeeps ==
    ASSUME ConstantsOK, NEW m, PoolInv(m), NEW t \in Txs,
           IsFrame(t) => FrameAccepted(m, t),
           NEW r, r = Replaced(m, t)
    PROVE  /\ PoolInv(r)
           /\ r.bundles \subseteq m.bundles
           /\ r.bundles \cap m.pool \subseteq r.pool
           /\ t \in r.pool
<1>1. PICK f : f = FreedSlot(m, t)
  BY Zenon
<1>2. PICK n : n = MadeRoom(PrunedOrder(f), t)
  BY Zenon
<1>3. PoolInv(f) /\ Shrunk(m, f)
  BY Zenon, <1>1, FreedKeeps
<1>4. PoolInv(n) /\ Shrunk(f, n)
  BY Zenon, <1>2, <1>3, RoomKeeps
<1>5. Fits(f, t)
  BY Zenon, <1>1, AcceptedFits
<1>6. Fits(n, t)
  BY Zenon, <1>4, <1>5 DEF Fits, Shrunk
<1>7. r = Inserted(n, t)
  BY Zenon, <1>1, <1>2 DEF Replaced
<1>8. PoolInv(r) /\ r.pool = n.pool \cup {t} /\ r.bundles = n.bundles
  BY <1>4, <1>6, <1>7, InsertedKeeps
<1> QED BY Zenon, <1>3, <1>4, <1>8 DEF Shrunk

-----------------------------------------------------------------------------
(* The submissions and the heads.                                          *)

\* Where the submissions stand.
Flights ==
    /\ DOMAIN submission = Submitters
    /\ \A s \in Submitters :
          \/ submission[s] = Idle
          \/ /\ DOMAIN submission[s] = {"step", "tx", "seen"}
             /\ submission[s].tx \in Txs
             /\ submission[s].step = "bundle" => IsBlob(submission[s].tx)

\* The inductive invariant of the pool and its submissions.
MempoolInv ==
    /\ PoolInv(inner)
    /\ Flights
    /\ NoOrphanBundle

\* The empty pool.
LEMMA EmptyInv == ASSUME ConstantsOK, Init PROVE MempoolInv
<1>1. /\ inner.pool = {} /\ inner.bundles = {} /\ inner.sponsored = {}
      /\ DOMAIN inner.byNonce = {} /\ DOMAIN inner.pendingFrame = {}
      /\ inner.reserved = [p \in Paymasters |-> 0]
      /\ inner.pending = [p \in Paymasters |-> 0]
      /\ Shaped(inner)
  BY DEF Init, Empty, Shaped
<1>2. \A p \in Paymasters : ReservedFor(inner, p)
  BY Zenon, <1>1 DEF ReservedFor, HeldOf
<1>3. PoolInv(inner)
  BY Zenon, <1>1, <1>2 DEF PoolInv, Indexed, FramesIndexed
<1>4. Flights
  BY Zenon DEF Init, Flights
<1>5. NoOrphanBundle
  BY Zenon, <1>1 DEF NoOrphanBundle
<1> QED BY Zenon, <1>3, <1>4, <1>5 DEF MempoolInv

\* A submission moves and the others stay: the bundles on their way are the
\* same but for the mover's.
LEMMA Others ==
    ASSUME Flights, NEW s \in Submitters, NEW q,
           submission' = [submission EXCEPT ![s] = q],
           \/ q = Idle
           \/ /\ DOMAIN q = {"step", "tx", "seen"}
              /\ q.tx \in Txs
              /\ q.step = "bundle" => IsBlob(q.tx)
    PROVE  /\ Flights'
           /\ submission'[s] = q
           /\ \A u \in Bundling : u # s =>
                 u \in Bundling' /\ submission'[u].tx = submission[u].tx
<1>1. /\ DOMAIN submission' = Submitters
      /\ submission'[s] = q
      /\ \A u \in Submitters : u # s => submission'[u] = submission[u]
  BY Zenon DEF Flights
<1>2. Flights'
  BY Zenon, <1>1 DEF Flights
<1>3. \A u \in Bundling : u # s =>
         u \in Bundling' /\ submission'[u].tx = submission[u].tx
  BY Zenon, <1>1 DEF Bundling
<1> QED BY Zenon, <1>1, <1>2, <1>3

\* A submission goes on with another step.
LEMMA Moved ==
    ASSUME Flights, NEW s \in Submitters, submission[s] # Idle, NEW step,
           Goto(s, step),
           step = "bundle" => IsBlob(submission[s].tx)
    PROVE  /\ Flights'
           /\ submission'[s] # Idle
           /\ submission'[s].step = step /\ submission'[s].tx = submission[s].tx
           /\ \A u \in Bundling : u # s =>
                 u \in Bundling' /\ submission'[u].tx = submission[u].tx
<1>1. PICK q : q = [submission[s] EXCEPT !.step = step]
  BY Zenon
<1>2. DOMAIN submission[s] = {"step", "tx", "seen"} /\ submission[s].tx \in Txs
  BY Zenon DEF Flights
<1>3. /\ DOMAIN q = {"step", "tx", "seen"}
      /\ q.tx = submission[s].tx /\ q.step = step
  BY Zenon, <1>1, <1>2
<1>4. q # Idle
  BY <1>3 DEF Idle
<1>5. submission' = [submission EXCEPT ![s] = q]
  BY Zenon, <1>1 DEF Goto
<1> QED BY Zenon, <1>2, <1>3, <1>4, <1>5, Others

\* The pool only shrinks and no submission moves.
LEMMA ShrunkKeeps ==
    ASSUME ConstantsOK, MempoolInv, NEW ts, inner' = RemovedAll(inner, ts),
           UNCHANGED submission
    PROVE  MempoolInv'
<1>1. PICK r : r = inner'
  BY Zenon
<1>2. PoolInv(inner) /\ Flights /\ NoOrphanBundle
  BY Zenon DEF MempoolInv
<1>3. PoolInv(r) /\ Shrunk(inner, r)
  BY Zenon, <1>1, <1>2, RemovedKeeps
<1>4. Flights'
  BY Zenon, <1>2 DEF Flights
<1>5. NoOrphanBundle'
  <2>1. Bundling' = Bundling
    BY Zenon DEF Bundling
  <2>2. r.bundles \subseteq r.pool \cup {submission[s].tx : s \in Bundling}
    BY Zenon, <1>2, <1>3 DEF Shrunk, NoOrphanBundle
  <2> QED BY <1>1, <2>1, <2>2 DEF NoOrphanBundle
<1>6. PoolInv(inner)'
  BY Zenon, <1>1, <1>3 DEF PoolInv, Shaped, Indexed, FramesIndexed, ReservedFor
<1> QED BY Zenon, <1>4, <1>5, <1>6 DEF MempoolInv

\* add_blobs_bundle and remove_blobs_bundle touch nothing but the bundles.
LEMMA BundleKeeps ==
    ASSUME PoolInv(inner), NEW B, inner' = [inner EXCEPT !.bundles = B],
           B \subseteq {t \in Txs : IsBlob(t)}
    PROVE  PoolInv(inner)' /\ inner'.pool = inner.pool /\ inner'.bundles = B
<1>1. Shaped(inner)
  BY Zenon DEF PoolInv
<1>2. /\ Shaped(inner)'
      /\ inner'.pool = inner.pool /\ inner'.bundles = B /\ inner'.byNonce = inner.byNonce
      /\ inner'.pendingFrame = inner.pendingFrame /\ inner'.sponsored = inner.sponsored
      /\ inner'.reserved = inner.reserved /\ inner'.pending = inner.pending
  BY Zenon, <1>1 DEF Shaped
<1> QED BY <1>2 DEF PoolInv, Indexed, FramesIndexed, ReservedFor

\* Every step of a submission keeps the invariant.
LEMMA SubmitterKeeps ==
    ASSUME ConstantsOK, MempoolInv, NEW s \in Submitters, SubmitterStep(s)
    PROVE  MempoolInv'
<1> DEFINE t == submission[s].tx
<1>0. /\ PoolInv(inner) /\ Flights
      /\ inner.bundles \subseteq inner.pool \cup {submission[u].tx : u \in Bundling}
  BY Zenon DEF MempoolInv, NoOrphanBundle
<1>1. \A step : At(s, step) /\ step # "idle" => submission[s] # Idle
  BY DEF At, Idle
<1>2. submission[s] # Idle => t \in Txs /\ DOMAIN submission[s] = {"step", "tx", "seen"}
  BY Zenon, <1>0 DEF Flights
\* Leaving, the mover's bundle is the only one that may be left.
<1>3. ASSUME Leave(s)
      PROVE  /\ Flights'
             /\ \A u \in Bundling : u # s =>
                   u \in Bundling' /\ submission'[u].tx = submission[u].tx
  BY Zenon, <1>0, <1>3, Others DEF Leave
<1>4. ASSUME UNCHANGED inner, Flights',
             \A u \in Bundling :
                u \in Bundling' /\ submission'[u].tx = submission[u].tx
      PROVE  MempoolInv'
  <2>1. PoolInv(inner)'
    BY Zenon, <1>0, <1>4 DEF PoolInv, Shaped, Indexed, FramesIndexed, ReservedFor
  <2>2. NoOrphanBundle'
    BY Zenon, <1>0, <1>4 DEF NoOrphanBundle
  <2> QED BY Zenon, <1>4, <2>1, <2>2 DEF MempoolInv
<1>5. ASSUME NEW x \in Txs, Submit(s, x) PROVE MempoolInv'
  <2>1. PICK q : q = [step |-> "price", tx |-> x, seen |-> account[x.sender]]
    BY Zenon
  <2>2. /\ submission' = [submission EXCEPT ![s] = q]
        /\ UNCHANGED inner
        /\ s \notin Bundling
    BY Zenon, <1>5, <2>1 DEF Submit, Bundling
  <2>3. DOMAIN q = {"step", "tx", "seen"} /\ q.tx \in Txs /\ q.step # "bundle"
    BY Zenon, <2>1
  <2>4. /\ Flights'
        /\ \A u \in Bundling : u # s =>
              u \in Bundling' /\ submission'[u].tx = submission[u].tx
    BY Zenon, <1>0, <2>2, <2>3, Others
  <2> QED BY Zenon, <1>4, <2>2, <2>4
<1>6. ASSUME FindReplaced(s) PROVE MempoolInv'
  <2>1. submission[s] # Idle /\ s \notin Bundling /\ UNCHANGED inner
    BY Zenon, <1>1, <1>6 DEF FindReplaced, At, Bundling
  <2>2. Goto(s, "gates") \/ Leave(s)
    BY Zenon, <1>6 DEF FindReplaced
  <2>3. /\ Flights'
        /\ \A u \in Bundling : u # s =>
              u \in Bundling' /\ submission'[u].tx = submission[u].tx
    BY Zenon, <1>0, <1>3, <2>1, <2>2, Moved
  <2> QED BY Zenon, <1>4, <2>1, <2>3
<1>7. ASSUME PassGates(s) PROVE MempoolInv'
  <2>1. submission[s] # Idle /\ s \notin Bundling /\ UNCHANGED inner
    BY Zenon, <1>1, <1>7 DEF PassGates, At, Bundling
  <2>2. \/ Goto(s, "bundle") /\ IsBlob(t)
        \/ Goto(s, "insert")
        \/ Leave(s)
    BY Zenon, <1>7 DEF PassGates
  <2>3. /\ Flights'
        /\ \A u \in Bundling : u # s =>
              u \in Bundling' /\ submission'[u].tx = submission[u].tx
    BY Zenon, <1>0, <1>3, <2>1, <2>2, Moved
  <2> QED BY Zenon, <1>4, <2>1, <2>3
<1>8. ASSUME AddBundle(s) PROVE MempoolInv'
  <2>1. /\ submission[s] # Idle /\ s \notin Bundling
        /\ IsBlob(t) /\ t \in Txs
        /\ Goto(s, "insert")
        /\ inner' = [inner EXCEPT !.bundles = @ \cup {t}]
    BY Zenon, <1>0, <1>1, <1>2, <1>8 DEF AddBundle, At, Bundling, Flights
  <2>2. /\ Flights'
        /\ submission'[s] # Idle
        /\ submission'[s].step = "insert" /\ submission'[s].tx = t
        /\ \A u \in Bundling : u # s =>
              u \in Bundling' /\ submission'[u].tx = submission[u].tx
    BY Zenon, <1>0, <2>1, Moved
  <2>3. s \in Bundling'
    BY Zenon, <2>1, <2>2 DEF Bundling
  <2>4. PoolInv(inner)' /\ inner'.pool = inner.pool /\ inner'.bundles = inner.bundles \cup {t}
    <3>1. inner.bundles \cup {t} \subseteq {x \in Txs : IsBlob(x)}
      BY Zenon, <1>0, <2>1 DEF PoolInv
    <3> QED BY Zenon, <1>0, <2>1, <3>1, BundleKeeps
  <2>5. NoOrphanBundle'
    BY <1>0, <2>1, <2>2, <2>3, <2>4 DEF NoOrphanBundle
  <2> QED BY Zenon, <2>2, <2>4, <2>5 DEF MempoolInv
<1>9. ASSUME Insert(s) PROVE MempoolInv'
  <2>1. submission[s] # Idle /\ t \in Txs /\ submission[s].step = "insert"
    BY Zenon, <1>1, <1>2, <1>9 DEF Insert, At
  <2>2. CASE /\ IsFrame(t) => FrameAccepted(inner, t)
             /\ inner' = Replaced(inner, t)
             /\ Leave(s)
    <3>1. PICK r : r = inner'
      BY Zenon
    <3>2. /\ PoolInv(r)
          /\ r.bundles \subseteq inner.bundles
          /\ r.bundles \cap inner.pool \subseteq r.pool
          /\ t \in r.pool
      BY SMTT(60), <1>0, <2>1, <2>2, <3>1, ReplacedKeeps
    <3>3. r.bundles \subseteq r.pool \cup {submission'[u].tx : u \in Bundling'}
      BY Zenon, <1>0, <1>3, <2>2, <3>2
    <3>4. PoolInv(inner)'
      BY Zenon, <3>1, <3>2 DEF PoolInv, Shaped, Indexed, FramesIndexed, ReservedFor
    <3> QED BY Zenon, <1>3, <2>2, <3>1, <3>3, <3>4 DEF MempoolInv, NoOrphanBundle
  <2>3. CASE IsBlob(t) /\ Goto(s, "rollback") /\ UNCHANGED inner
    <3>1. /\ Flights'
          /\ submission'[s] # Idle
          /\ submission'[s].step = "rollback" /\ submission'[s].tx = t
          /\ \A u \in Bundling : u # s =>
                u \in Bundling' /\ submission'[u].tx = submission[u].tx
      BY Zenon, <1>0, <2>1, <2>3, Moved
    <3>2. s \in Bundling'
      BY Zenon, <2>3, <3>1 DEF Bundling
    <3> QED BY Zenon, <1>4, <2>3, <3>1, <3>2
  <2>4. CASE ~IsBlob(t) /\ Leave(s) /\ UNCHANGED inner
    <3>1. s \notin Bundling
      BY Zenon, <2>4 DEF Bundling
    <3> QED BY Zenon, <1>3, <1>4, <2>4, <3>1
  <2> QED BY Zenon, <1>9, <2>2, <2>3, <2>4 DEF Insert
<1>10. ASSUME Rollback(s) PROVE MempoolInv'
  <2>1. Leave(s) /\ inner' = [inner EXCEPT !.bundles = @ \ {t}]
    BY Zenon, <1>10 DEF Rollback
  <2>2. PoolInv(inner)' /\ inner'.pool = inner.pool /\ inner'.bundles = inner.bundles \ {t}
    <3>1. inner.bundles \ {t} \subseteq {x \in Txs : IsBlob(x)}
      BY Zenon, <1>0 DEF PoolInv
    <3> QED BY Zenon, <1>0, <2>1, <3>1, BundleKeeps
  <2>3. NoOrphanBundle'
    BY <1>0, <1>3, <2>1, <2>2 DEF NoOrphanBundle
  <2> QED BY Zenon, <1>3, <2>1, <2>2, <2>3 DEF MempoolInv
<1> QED BY Zenon, <1>5, <1>6, <1>7, <1>8, <1>9, <1>10 DEF SubmitterStep

\* Every step of the system keeps the invariant.
LEMMA MempoolStep ==
    ASSUME ConstantsOK, MempoolInv, [Next]_vars
    PROVE  MempoolInv'
<1>1. ASSUME NEW s \in Submitters, SubmitterStep(s) PROVE MempoolInv'
  BY Zenon, <1>1, SubmitterKeeps
<1>2. ASSUME UNCHANGED <<inner, submission>> PROVE MempoolInv'
  <2>1. PoolInv(inner)'
    BY Zenon, <1>2 DEF MempoolInv, PoolInv, Shaped, Indexed, FramesIndexed, ReservedFor
  <2>2. Flights'
    BY Zenon, <1>2 DEF MempoolInv, Flights
  <2>3. NoOrphanBundle'
    BY Zenon, <1>2 DEF MempoolInv, NoOrphanBundle, Bundling
  <2> QED BY Zenon, <2>1, <2>2, <2>3 DEF MempoolInv
<1>3. ASSUME NEW t \in Txs, NEW isHead \in BOOLEAN, NewHead(t, isHead) PROVE MempoolInv'
  BY Zenon, <1>2, <1>3 DEF NewHead
<1>4. ASSUME RemoveIncluded PROVE MempoolInv'
  BY Zenon, <1>4, ShrunkKeeps DEF RemoveIncluded, NextTask, Removed
<1>5. ASSUME RemoveStaleBlobs PROVE MempoolInv'
  BY Zenon, <1>5, ShrunkKeeps DEF RemoveStaleBlobs, NextTask
<1>6. ASSUME RevalidateFrames PROVE MempoolInv'
  BY Zenon, <1>6, ShrunkKeeps DEF RevalidateFrames, NextTask
<1>7. ASSUME NEW t \in Txs, BuilderDrops(t) PROVE MempoolInv'
  BY Zenon, <1>7, ShrunkKeeps DEF BuilderDrops, Removed
<1>8. CASE UNCHANGED vars
  BY Zenon, <1>2, <1>8 DEF vars
<1> QED BY Zenon, <1>1, <1>3, <1>4, <1>5, <1>6, <1>7, <1>8 DEF Next

\* The invariant holds of every behaviour.
LEMMA MempoolHolds == Spec => []MempoolInv
<1>1. Init => MempoolInv
  BY Zenon, EmptyInv, MempoolAssumption
<1>2. MempoolInv /\ [Next]_vars => MempoolInv'
  BY Zenon, MempoolStep, MempoolAssumption
<1> QED BY <1>1, <1>2, PTL DEF Spec

\* For any number of concurrent submissions, any transactions and any caps: the
\* sender-nonce index and the pool hold the same transactions, so no two pooled
\* transactions share a slot, whatever was replaced, evicted, included or
\* dropped (add_transaction_inner, remove_transaction_with_lock).
THEOREM SlotsAgreeAlways == Spec => []SlotsAgree
<1>1. MempoolInv => SlotsAgree
  BY DEF MempoolInv, PoolInv, Indexed, SlotsAgree, Range
<1> QED BY <1>1, MempoolHolds, PTL

\* For any number of concurrent submissions: a bundle belongs to a pooled
\* transaction or to a submission that will insert it or roll it back
\* (add_blob_transaction_to_pool_inner).
THEOREM NoOrphanBundleAlways == Spec => []NoOrphanBundle
<1>1. MempoolInv => NoOrphanBundle
  BY Zenon DEF MempoolInv
<1> QED BY <1>1, MempoolHolds, PTL

\* For any number of concurrent submissions: the reservations are exactly those
\* of the pooled frame transactions, one per sender and per paymaster, within
\* the paymaster's funds (FrameTxReservation, remove_transaction_with_lock).
THEOREM ReservationsMatchAlways == Spec => []ReservationsMatch
<1>1. MempoolInv => ReservationsMatch
  <2> SUFFICES ASSUME PoolInv(inner) PROVE ReservationsMatch
    BY Zenon DEF MempoolInv
  <2>1. /\ Range(inner.pendingFrame) = Pooled("frame")
        /\ inner.sponsored = Pooled("frame")
    BY DEF PoolInv, FramesIndexed, Range, Pooled, IsFrame
  <2>2. ASSUME NEW p \in Paymasters
        PROVE  LET held == {t \in inner.sponsored : t.paymaster = p}
               IN  /\ inner.reserved[p] = MapThenSumSet(Cost, held)
                   /\ inner.reserved[p] <= Funds[p]
                   /\ inner.pending[p] = Cardinality(held)
                   /\ inner.pending[p] <= 1
    <3> DEFINE held == {t \in inner.sponsored : t.paymaster = p}
    <3>1. ReservedFor(inner, p) /\ held = HeldOf(inner.sponsored, p)
      BY Zenon DEF PoolInv, HeldOf
    <3>2. Funds[p] \in Nat
      BY Zenon, MempoolAssumption DEF ConstantsOK
    <3> HIDE DEF held
    <3>3. CASE held = {} /\ inner.reserved[p] = 0 /\ inner.pending[p] = 0
      <4>1. MapThenSumSet(Cost, held) = 0 /\ Cardinality(held) = 0
        BY <3>3, SumNone, CountFew, Zenon
      <4> QED BY <3>2, <3>3, <4>1 DEF held
    <3>4. ASSUME NEW t \in Txs, held = {t}, inner.reserved[p] = t.cost,
                 inner.pending[p] = 1, t.cost <= Funds[p]
          PROVE  /\ inner.reserved[p] = MapThenSumSet(Cost, held)
                 /\ inner.reserved[p] <= Funds[p]
                 /\ inner.pending[p] = Cardinality(held)
                 /\ inner.pending[p] <= 1
      <4>1. t.cost \in Nat
        BY Zenon, MempoolAssumption DEF ConstantsOK
      <4>2. MapThenSumSet(Cost, held) = t.cost /\ Cardinality(held) = 1
        BY <3>4, <4>1, SumOne, CountFew, Zenon
      <4> QED BY <3>4, <4>2
    <3> QED BY Zenon, <3>1, <3>3, <3>4 DEF ReservedFor, held
  <2> QED BY Zenon, <2>1, <2>2 DEF ReservationsMatch, MaxPending
<1> QED BY <1>1, MempoolHolds, PTL

-----------------------------------------------------------------------------
(* Counts and sums over finite sets.                                       *)

\* A part of a finite set.
LEMMA FiniteSubset ==
    ASSUME NEW S, IsFiniteSet(S), NEW T, T \subseteq S
    PROVE  /\ IsFiniteSet(T) /\ Cardinality(T) \in Nat
           /\ Cardinality(T) <= Cardinality(S) /\ Cardinality(S) \in Nat
BY Zenon, FS_Subset, FS_CardinalityType

\* A finite set without one of its elements.
LEMMA FiniteRemove ==
    ASSUME NEW S, IsFiniteSet(S), NEW x \in S
    PROVE  IsFiniteSet(S \ {x}) /\ Cardinality(S \ {x}) = Cardinality(S) - 1
BY Zenon, FS_RemoveElement

\* A finite set with one more.
LEMMA FiniteAdd ==
    ASSUME NEW S, IsFiniteSet(S), NEW x
    PROVE  /\ IsFiniteSet(S \cup {x})
           /\ Cardinality(S \cup {x}) = IF x \in S THEN Cardinality(S) ELSE Cardinality(S) + 1
BY Zenon, FS_AddElement

\* A set of naturals has a least element.
LEMMA LeastElement ==
    ASSUME NEW S \in SUBSET Nat, S # {} PROVE \E n \in S : \A m \in S : ~(m < n)
<1>1. IsWellFoundedOn(OpToRel(<, Nat), Nat)
  BY Zenon, NatLessThanWellFounded
<1>2. PICK n \in S : \A m \in S : ~(<<m, n>> \in OpToRel(<, Nat))
  BY Zenon, <1>1, WFMin
<1> QED BY Zenon, <1>2 DEF OpToRel

\* Of the subsets of a finite set that fail at something, one fails although
\* none with one element less does.
LEMMA SmallestSubset ==
    ASSUME NEW U, IsFiniteSet(U), NEW Bad \in SUBSET (SUBSET U), Bad # {}
    PROVE  \E S \in Bad : \A x \in S : S \ {x} \notin Bad
<1> DEFINE K == {Cardinality(S) : S \in Bad}
<1>1. \A S \in Bad : IsFiniteSet(S) /\ Cardinality(S) \in Nat
  BY Zenon, FiniteSubset
<1>2. K \in SUBSET Nat /\ K # {}
  BY Zenon, <1>1
<1>5. PICK n \in K : \A k \in K : ~(k < n)
  <2> HIDE DEF K
  <2> QED BY Zenon, <1>2, LeastElement
<1>6. PICK S \in Bad : Cardinality(S) = n
  BY Zenon
<1>7. ASSUME NEW x \in S, S \ {x} \in Bad PROVE FALSE
  <2>1. Cardinality(S \ {x}) = n - 1 /\ n \in Nat
    BY Zenon, <1>1, <1>6, FiniteRemove
  <2>2. Cardinality(S \ {x}) \in K
    BY Zenon, <1>7
  <2> HIDE DEF K
  <2> QED BY <1>5, <2>1, <2>2
<1> QED BY Zenon, <1>6, <1>7

\* G gives every subset of U the sum of its elements' values c.
Sums(G, U, c) ==
    /\ G[{}] = 0
    /\ \A s \in SUBSET U : G[s] \in Nat
    /\ \A s \in SUBSET U : \A x \in U \ s : G[s \cup {x}] = G[s] + c[x]

\* The elements of a finite set have a sum.
LEMMA SumsExist ==
    ASSUME NEW U, IsFiniteSet(U), NEW c \in [U -> Nat]
    PROVE  \E G : Sums(G, U, c)
<1> DEFINE Bad == {S \in SUBSET U : ~\E G : Sums(G, S, c)}
<1>1. SUFFICES ASSUME U \in Bad PROVE FALSE
  BY Zenon
<1>2. PICK S \in Bad : \A x \in S : S \ {x} \notin Bad
  <2>1. Bad \in SUBSET (SUBSET U) /\ Bad # {}
    BY Zenon, <1>1
  <2> HIDE DEF Bad
  <2> QED BY Zenon, <2>1, SmallestSubset
<1>3. S # {}
  <2>1. Sums([s \in {{}} |-> 0], {}, c)
    BY Zenon DEF Sums
  <2> QED BY Zenon, <2>1
<1>4. PICK y \in S : TRUE
  BY Zenon, <1>3
<1>5. PICK R : R = S \ {y}
  BY Zenon
<1>6. R \in SUBSET U /\ S \in SUBSET U /\ y \in U /\ y \notin R
  BY Zenon, <1>5
<1>7. PICK G : Sums(G, R, c)
  BY Zenon, <1>2, <1>5, <1>6
<1> DEFINE H == [s \in SUBSET S |-> IF y \in s THEN G[s \ {y}] + c[y] ELSE G[s]]
<1>8. Sums(H, S, c)
  <2>1. H[{}] = 0
    BY Zenon, <1>7 DEF Sums
  <2>2. \A s \in SUBSET S : s \ {y} \in SUBSET R /\ (y \notin s => s \in SUBSET R)
    BY Zenon, <1>5
  <2>3. c[y] \in Nat
    BY Zenon, <1>6
  <2>4. \A s \in SUBSET R : G[s] \in Nat
    BY Zenon, <1>7 DEF Sums
  <2>5. \A s \in SUBSET S : H[s] \in Nat
    BY <2>2, <2>3, <2>4
  <2>6. ASSUME NEW s \in SUBSET S, NEW x \in S \ s PROVE H[s \cup {x}] = H[s] + c[x]
    <3>1. s \cup {x} \in SUBSET S
      BY Zenon
    <3>2. CASE x = y
      <4>1. (s \cup {x}) \ {y} = s /\ y \in s \cup {x} /\ y \notin s
        BY Zenon, <3>2
      <4> QED BY Zenon, <3>1, <3>2, <4>1
    <3>3. CASE x # y /\ y \in s
      <4>1. /\ (s \cup {x}) \ {y} = (s \ {y}) \cup {x}
            /\ y \in s \cup {x}
            /\ s \ {y} \in SUBSET R /\ x \in R \ (s \ {y})
        BY Zenon, <1>5, <3>3
      <4>2. G[(s \ {y}) \cup {x}] = G[s \ {y}] + c[x]
        BY Zenon, <1>7, <4>1 DEF Sums
      <4>3. c[x] \in Nat /\ G[s \ {y}] \in Nat
        BY Zenon, <1>6, <2>4, <4>1
      <4>4. H[s \cup {x}] = (G[s \ {y}] + c[x]) + c[y] /\ H[s] = G[s \ {y}] + c[y]
        BY Zenon, <3>1, <3>3, <4>1, <4>2
      <4> HIDE DEF H
      <4> QED BY <2>3, <4>3, <4>4
    <3>4. CASE x # y /\ y \notin s
      <4>1. y \notin s \cup {x} /\ s \in SUBSET R /\ x \in R \ s
        BY Zenon, <1>5, <3>4
      <4>2. G[s \cup {x}] = G[s] + c[x]
        BY Zenon, <1>7, <4>1 DEF Sums
      <4> QED BY Zenon, <3>1, <3>4, <4>1, <4>2
    <3> QED BY Zenon, <3>2, <3>3, <3>4
  <2> HIDE DEF H
  <2> QED BY Zenon, <2>1, <2>5, <2>6 DEF Sums
<1> QED BY Zenon, <1>2, <1>8

\* A part has no larger sum than the whole.
LEMMA SumsGrow ==
    ASSUME NEW U, IsFiniteSet(U), NEW c \in [U -> Nat], NEW G, Sums(G, U, c),
           NEW T \in SUBSET U, NEW S \in SUBSET T
    PROVE  G[S] <= G[T]
<1> DEFINE Bad == {X \in SUBSET T : S \subseteq X /\ ~(G[S] <= G[X])}
<1>1. SUFFICES ASSUME T \in Bad PROVE FALSE
  BY Zenon
<1>2. PICK X \in Bad : \A x \in X : X \ {x} \notin Bad
  <2>1. Bad \in SUBSET (SUBSET U) /\ Bad # {}
    BY Zenon, <1>1
  <2> HIDE DEF Bad
  <2> QED BY Zenon, <2>1, SmallestSubset
<1>3. \A s \in SUBSET U : G[s] \in Nat
  BY Zenon DEF Sums
<1>4. X # S
  BY <1>3
<1>5. PICK y \in X : y \notin S
  BY Zenon, <1>4
<1>6. G[S] <= G[X \ {y}]
  BY Zenon, <1>2, <1>5
<1>7. G[X] = G[X \ {y}] + c[y]
  <2>1. X = (X \ {y}) \cup {y} /\ X \ {y} \in SUBSET U /\ y \in U \ (X \ {y})
    BY Zenon
  <2> QED BY Zenon, <2>1 DEF Sums
<1>8. c[y] \in Nat /\ G[S] \in Nat /\ G[X \ {y}] \in Nat
  BY Zenon, <1>3
<1> QED BY <1>6, <1>7, <1>8

\* One step of the fold by which MapThenSumSet adds up.
SumStep(S, c, h) ==
    [s \in SUBSET S |-> IF s = {} THEN 0
                        ELSE c[CHOOSE x \in s : TRUE] + h[s \ {CHOOSE x \in s : TRUE}]]

\* The fold has a result, and it is the sum.
LEMMA FoldIsSum ==
    ASSUME NEW U, IsFiniteSet(U), NEW c \in [U -> Nat], NEW G, Sums(G, U, c),
           NEW S \in SUBSET U
    PROVE  /\ \E h : h = SumStep(S, c, h)
           /\ \A h : h = SumStep(S, c, h) => h[S] = G[S]
<1>1. ASSUME NEW s \in SUBSET S, s # {}, NEW x, x = CHOOSE z \in s : TRUE
      PROVE  x \in s /\ s \ {x} \in SUBSET S /\ G[s] = c[x] + G[s \ {x}]
  <2>1. x \in s
    BY Zenon, <1>1
  <2>2. s = (s \ {x}) \cup {x} /\ s \ {x} \in SUBSET U /\ x \in U \ (s \ {x})
    BY Zenon, <2>1
  <2>3. G[s] = G[s \ {x}] + c[x] /\ c[x] \in Nat /\ G[s \ {x}] \in Nat
    BY Zenon, <2>2 DEF Sums
  <2> QED BY <2>1, <2>2, <2>3
<1>2. G[{}] = 0
  BY Zenon DEF Sums
<1>3. \E h : h = SumStep(S, c, h)
  <2> DEFINE g == [s \in SUBSET S |-> G[s]]
  <2>1. ASSUME NEW s \in SUBSET S PROVE g[s] = SumStep(S, c, g)[s]
    <3>1. CASE s = {}
      BY Zenon, <1>2, <3>1 DEF SumStep
    <3>2. CASE s # {}
      <4>1. PICK x : x = CHOOSE z \in s : TRUE
        BY Zenon
      <4>2. SumStep(S, c, g)[s] = c[x] + g[s \ {x}]
        BY Zenon, <3>2, <4>1 DEF SumStep
      <4> QED BY Zenon, <1>1, <3>2, <4>1, <4>2
    <3> QED BY Zenon, <3>1, <3>2
  <2>2. g = SumStep(S, c, g)
    BY Zenon, <2>1 DEF SumStep
  <2> QED BY Zenon, <2>2
<1>4. ASSUME NEW h, h = SumStep(S, c, h) PROVE h[S] = G[S]
  <2> DEFINE Bad == {s \in SUBSET S : h[s] # G[s]}
  <2>1. SUFFICES ASSUME S \in Bad PROVE FALSE
    BY Zenon
  <2>2. PICK s \in Bad : \A x \in s : s \ {x} \notin Bad
    <3>1. Bad \in SUBSET (SUBSET U) /\ Bad # {}
      BY Zenon, <2>1
    <3> HIDE DEF Bad
    <3> QED BY Zenon, <3>1, SmallestSubset
  <2>3. h[{}] = 0
    <3>1. SumStep(S, c, h)[{}] = 0
      BY Zenon DEF SumStep
    <3> QED BY Zenon, <1>4, <3>1
  <2>4. s # {}
    BY Zenon, <1>2, <2>3
  <2>5. PICK x : x = CHOOSE z \in s : TRUE
    BY Zenon
  <2>6. x \in s /\ s \ {x} \in SUBSET S /\ G[s] = c[x] + G[s \ {x}]
    BY Zenon, <1>1, <2>4, <2>5
  <2>7. h[s] = c[x] + h[s \ {x}]
    <3>1. SumStep(S, c, h)[s] = c[x] + h[s \ {x}]
      BY Zenon, <2>4, <2>5 DEF SumStep
    <3> QED BY Zenon, <1>4, <3>1
  <2>8. h[s \ {x}] = G[s \ {x}]
    BY Zenon, <2>2, <2>6
  <2> QED BY Zenon, <2>6, <2>7, <2>8
<1> QED BY Zenon, <1>3, <1>4

\* What transactions cost together, and the transactions in some slots.
Total(S) == MapThenSumSet(Cost, S)
SlotTotal(m, S) == MapThenSumSet(LAMBDA slot : m.byNonce[slot].cost, S)

\* The total cost is the sum of the costs.
LEMMA CostSum ==
    ASSUME NEW U, IsFiniteSet(U), NEW c \in [U -> Nat], \A x \in U : c[x] = Cost(x),
           NEW G, Sums(G, U, c), NEW S \in SUBSET U
    PROVE  Total(S) = G[S]
<1> DEFINE Rec(f) == [s \in SUBSET S |->
                        IF s = {} THEN 0
                        ELSE LET x == CHOOSE x \in s : TRUE IN Cost(x) + f[s \ {x}]]
           f == CHOOSE h : h = Rec(h)
<1>1. Total(S) = f[S]
  BY Zenon DEF Total, MapThenSumSet, MapThenFoldSet
<1>2. ASSUME NEW h PROVE Rec(h) = SumStep(S, c, h)
  <2>1. \A s \in SUBSET S : s # {} => c[CHOOSE x \in s : TRUE] = Cost(CHOOSE x \in s : TRUE)
    BY Zenon
  <2> QED BY <2>1 DEF SumStep
<1> HIDE DEF Rec
<1>3. \E h : h = Rec(h)
  <2>1. PICK h : h = SumStep(S, c, h)
    BY Zenon, FoldIsSum
  <2> QED BY Zenon, <1>2, <2>1
<1>4. f = Rec(f)
  BY Zenon, <1>3
<1> HIDE DEF f
<1>5. f = SumStep(S, c, f)
  BY Zenon, <1>2, <1>4
<1>6. f[S] = G[S]
  BY <1>5, FoldIsSum
<1> QED BY Zenon, <1>1, <1>6

\* The same, through the sender-nonce index.
LEMMA SlotSum ==
    ASSUME NEW m, NEW U, IsFiniteSet(U), NEW c \in [U -> Nat],
           \A x \in U : c[x] = m.byNonce[x].cost,
           NEW G, Sums(G, U, c), NEW S \in SUBSET U
    PROVE  SlotTotal(m, S) = G[S]
<1> DEFINE Rec(f) == [s \in SUBSET S |->
                        IF s = {} THEN 0
                        ELSE LET x == CHOOSE x \in s : TRUE
                             IN  m.byNonce[x].cost + f[s \ {x}]]
           f == CHOOSE h : h = Rec(h)
<1>1. SlotTotal(m, S) = f[S]
  BY Zenon DEF SlotTotal, MapThenSumSet, MapThenFoldSet
<1>2. ASSUME NEW h PROVE Rec(h) = SumStep(S, c, h)
  <2>1. \A s \in SUBSET S : s # {} =>
           c[CHOOSE x \in s : TRUE] = m.byNonce[CHOOSE x \in s : TRUE].cost
    BY Zenon
  <2> QED BY <2>1 DEF SumStep
<1> HIDE DEF Rec
<1>3. \E h : h = Rec(h)
  <2>1. PICK h : h = SumStep(S, c, h)
    BY Zenon, FoldIsSum
  <2> QED BY Zenon, <1>2, <2>1
<1>4. f = Rec(f)
  BY Zenon, <1>3
<1> HIDE DEF f
<1>5. f = SumStep(S, c, f)
  BY Zenon, <1>2, <1>4
<1>6. f[S] = G[S]
  BY <1>5, FoldIsSum
<1> QED BY Zenon, <1>1, <1>6

-----------------------------------------------------------------------------
(* The senders' budgets.                                                   *)

\* Fewer transactions cost no more.
LEMMA FewerCostLess ==
    ASSUME ConstantsOK, NEW T, IsFiniteSet(T), T \subseteq Txs, NEW S, S \subseteq T
    PROVE  /\ Total(S) \in Nat /\ Total(T) \in Nat
           /\ Total(S) <= Total(T)
<1>1. PICK c : c = [t \in T |-> t.cost]
  BY Zenon
<1>2. c \in [T -> Nat] /\ \A t \in T : c[t] = Cost(t)
  BY Zenon, <1>1 DEF ConstantsOK, Cost
<1>3. PICK G : Sums(G, T, c)
  BY Zenon, <1>2, SumsExist
<1>4. Total(S) = G[S] /\ Total(T) = G[T]
  BY <1>2, <1>3, CostSum
<1>5. G[S] \in Nat /\ G[T] \in Nat
  BY Zenon, <1>3 DEF Sums
<1>6. G[S] <= G[T]
  BY Zenon, <1>2, <1>3, SumsGrow
<1> QED BY Zenon, <1>4, <1>5, <1>6

\* check_admission lets a transaction in only if the sender can pay for it and
\* for those in its other slots: their costs are summed up through the index,
\* from the nonce that was read.
LEMMA AdmittedIsPaid ==
    ASSUME ConstantsOK, NEW m, PoolInv(m), IsFiniteSet(m.pool), NEW t \in Txs,
           NEW n \in Nat, NEW b \in Nat,
           ~(SumCost(m, t.sender, n, Slot(t)) + t.cost > b),
           NEW Q, Q \subseteq m.pool,
           \A u \in Q : u.sender = t.sender /\ u.nonce >= n /\ Slot(u) # Slot(t)
    PROVE  Total(Q \cup {t}) <= b
<1> DEFINE D == DOMAIN m.byNonce
           W == OfSender(m, t.sender, n) \ {Slot(t)}
           SlotsOf(s) == {Slot(u) : u \in s \ {t}}
           U == Q \cup {t}
<1>1. /\ m.pool \subseteq Txs
      /\ \A u \in m.pool : Slot(u) \in D /\ m.byNonce[Slot(u)] = u
      /\ \A d \in D : m.byNonce[d] \in m.pool /\ Slot(m.byNonce[d]) = d
  BY Zenon DEF PoolInv, Indexed
<1>2. IsFiniteSet(D)
  <2>1. [u \in m.pool |-> Slot(u)] \in Surjection(m.pool, D)
    BY Zenon, <1>1 DEF Surjection
  <2> QED BY Zenon, <2>1, FS_Surjection
<1>3. PICK c : c = [d \in D |-> m.byNonce[d].cost]
  BY Zenon
<1>4. c \in [D -> Nat] /\ \A d \in D : c[d] = m.byNonce[d].cost
  BY Zenon, <1>1, <1>3 DEF ConstantsOK
<1>5. PICK G : Sums(G, D, c)
  BY Zenon, <1>2, <1>4, SumsExist
<1>6. W \in SUBSET D
  BY Zenon DEF OfSender
<1>7. SumCost(m, t.sender, n, Slot(t)) = G[W]
  <2>1. SumCost(m, t.sender, n, Slot(t)) = SlotTotal(m, W)
    BY Zenon DEF SumCost, SlotTotal
  <2> HIDE DEF W, D, U, SlotsOf
  <2>2. ASSUME NEW X, NEW Y \in SUBSET X, IsFiniteSet(X), c \in [X -> Nat],
               \A d \in X : c[d] = m.byNonce[d].cost, Sums(G, X, c)
        PROVE  SlotTotal(m, Y) = G[Y]
    BY <2>2, SlotSum
  <2> QED BY Zenon, <1>2, <1>4, <1>5, <1>6, <2>1, <2>2
<1>8. SlotsOf(U) \in SUBSET W
  BY <1>1 DEF OfSender, Slot
<1>9. G[SlotsOf(U)] <= G[W] /\ G[SlotsOf(U)] \in Nat /\ G[W] \in Nat
  <2> HIDE DEF W, D, SlotsOf, U
  <2>1. G[SlotsOf(U)] <= G[W]
    BY Zenon, <1>2, <1>4, <1>5, <1>6, <1>8, SumsGrow
  <2> QED BY Zenon, <1>5, <1>6, <1>8, <2>1 DEF Sums
<1>10. PICK k : k = [u \in U |-> u.cost]
  BY Zenon
<1>11. k \in [U -> Nat] /\ \A u \in U : k[u] = Cost(u)
  BY Zenon, <1>1, <1>10 DEF ConstantsOK, Cost
<1>12. t \notin Q /\ t.cost \in Nat
  BY Zenon DEF ConstantsOK
<1> DEFINE H == [s \in SUBSET U |-> G[SlotsOf(s)] + (IF t \in s THEN t.cost ELSE 0)]
<1>13. Sums(H, U, k)
  <2>1. ASSUME NEW s \in SUBSET U PROVE SlotsOf(s) \in SUBSET D
    BY <1>1
  <2>2. SlotsOf({}) = {}
    BY Zenon
  <2>3. H[{}] = 0
    <3> HIDE DEF SlotsOf
    <3>1. G[{}] = 0
      BY Zenon, <1>5 DEF Sums
    <3>2. H[{}] = G[SlotsOf({})] + 0
      BY Zenon
    <3> HIDE DEF H
    <3> QED BY <2>2, <3>1, <3>2
  <2>4. \A s \in SUBSET U : H[s] \in Nat
    <3> HIDE DEF SlotsOf
    <3> QED BY <1>5, <1>12, <2>1 DEF Sums
  <2>5. ASSUME NEW s \in SUBSET U, NEW x \in U \ s PROVE H[s \cup {x}] = H[s] + k[x]
    <3>0. s \cup {x} \in SUBSET U /\ k[x] = x.cost /\ k[x] \in Nat
      BY Zenon, <1>11 DEF Cost
    <3>1. CASE x = t
      <4>1. SlotsOf(s \cup {x}) = SlotsOf(s)
        BY Zenon, <3>1
      <4>2. G[SlotsOf(s)] \in Nat
        BY Zenon, <1>5, <2>1 DEF Sums
      <4> HIDE DEF SlotsOf
      <4> QED BY <1>12, <3>0, <3>1, <4>1, <4>2
    <3>2. CASE x # t
      <4>1. SlotsOf(s \cup {x}) = SlotsOf(s) \cup {Slot(x)}
        BY Zenon, <3>2
      <4>2. Slot(x) \in D \ SlotsOf(s) /\ m.byNonce[Slot(x)] = x
        BY <1>1, <3>2
      <4> HIDE DEF SlotsOf
      <4>3. G[SlotsOf(s) \cup {Slot(x)}] = G[SlotsOf(s)] + c[Slot(x)]
        BY Zenon, <1>5, <2>1, <4>2 DEF Sums
      <4>4. c[Slot(x)] = x.cost /\ G[SlotsOf(s)] \in Nat
        BY Zenon, <1>4, <1>5, <2>1, <4>2 DEF Sums
      <4>5. (t \in s \cup {x}) = (t \in s)
        BY <3>2
      <4>6. /\ H[s] = G[SlotsOf(s)] + (IF t \in s THEN t.cost ELSE 0)
            /\ H[s \cup {x}] = (G[SlotsOf(s)] + x.cost) + (IF t \in s THEN t.cost ELSE 0)
        BY ZenonT(60), <3>0, <4>1, <4>3, <4>4, <4>5
      <4> HIDE DEF H
      <4> QED BY <1>12, <3>0, <4>4, <4>6
    <3> QED BY Zenon, <3>1, <3>2
  <2> HIDE DEF H
  <2> QED BY Zenon, <2>3, <2>4, <2>5 DEF Sums
<1>14. IsFiniteSet(U)
  BY Zenon, FiniteSubset, FiniteAdd
<1>15. Total(U) = H[U]
  <2> HIDE DEF H, U
  <2> QED BY <1>11, <1>13, <1>14, CostSum
<1>16. H[U] = G[SlotsOf(U)] + t.cost
  <2> HIDE DEF SlotsOf
  <2> QED BY Zenon
<1> HIDE DEF H, U, SlotsOf, W
<1>17. Total(U) <= b
  BY <1>7, <1>9, <1>12, <1>15, <1>16
<1> QED BY Zenon, <1>17 DEF U

\* The transactions a sender still has to pay for.
Owed(pool, a, n) == {t \in pool : t.sender = a /\ ~IsFrame(t) /\ t.nonce >= n}

\* The accounts, and what the submissions read of them: a head may have moved
\* on since.
Accounts ==
    /\ DOMAIN account = Senders
    /\ \A a \in Senders : /\ DOMAIN account[a] = {"nonce", "balance"}
                          /\ account[a].nonce \in Nat /\ account[a].balance \in Nat
                          /\ account[a].balance <= Balance[a]
    /\ \A s \in Submitters : submission[s] # Idle =>
          /\ submission[s].seen.nonce \in Nat /\ submission[s].seen.balance \in Nat
          /\ submission[s].seen.nonce <= account[submission[s].tx.sender].nonce
          /\ submission[s].seen.balance <= Balance[submission[s].tx.sender]

\* The invariant of the budgets.
BudgetInv ==
    /\ IsFiniteSet(inner.pool)
    /\ Accounts
    /\ PendingWithinBalance

\* What a submission read stays what it goes by, until it leaves.
SeenKept ==
    \A u \in Submitters : submission'[u] # Idle =>
        /\ submission[u] # Idle
        /\ submission'[u].tx = submission[u].tx
        /\ submission'[u].seen = submission[u].seen

\* A submission that goes on or leaves changes nothing of what it read.
LEMMA KeepsSeen ==
    ASSUME Flights, NEW s \in Submitters, submission[s] # Idle,
           Leave(s) \/ \E step : Goto(s, step)
    PROVE  SeenKept
<1>1. /\ DOMAIN submission = Submitters
      /\ DOMAIN submission[s] = {"step", "tx", "seen"}
  BY Zenon DEF Flights
<1>2. CASE Leave(s)
  BY Zenon, <1>1, <1>2 DEF Leave, SeenKept
<1>3. ASSUME NEW step, Goto(s, step) PROVE SeenKept
  <2>1. PICK q : q = [submission[s] EXCEPT !.step = step]
    BY Zenon
  <2>2. submission' = [submission EXCEPT ![s] = q]
    BY Zenon, <1>3, <2>1 DEF Goto
  <2>3. q.tx = submission[s].tx /\ q.seen = submission[s].seen
    BY Zenon, <1>1, <2>1
  <2> QED BY Zenon, <1>1, <2>2, <2>3 DEF SeenKept
<1> QED BY Zenon, <1>2, <1>3

\* A later head: nonces only grow.
LEMMA AccountsKeep ==
    ASSUME ConstantsOK, Flights, Accounts, SeenKept,
           DOMAIN account' = Senders,
           \A a \in Senders :
              /\ DOMAIN account'[a] = {"nonce", "balance"}
              /\ account'[a].nonce \in Nat /\ account'[a].balance \in Nat
              /\ account[a].nonce <= account'[a].nonce
              /\ account'[a].balance <= account[a].balance
    PROVE  Accounts'
<1>1. \A a \in Senders : Balance[a] \in Nat
  BY Zenon DEF ConstantsOK
<1>2. \A a \in Senders : account'[a].balance <= Balance[a]
  BY <1>1 DEF Accounts
<1>3. ASSUME NEW s \in Submitters, submission'[s] # Idle
      PROVE  /\ submission'[s].seen.nonce \in Nat /\ submission'[s].seen.balance \in Nat
             /\ submission'[s].seen.nonce <= account'[submission'[s].tx.sender].nonce
             /\ submission'[s].seen.balance <= Balance[submission'[s].tx.sender]
  <2>1. /\ submission[s] # Idle
        /\ submission'[s].tx = submission[s].tx /\ submission'[s].seen = submission[s].seen
    BY Zenon, <1>3 DEF SeenKept
  <2>2. submission[s].tx.sender \in Senders
    BY Zenon, <2>1 DEF Flights, ConstantsOK
  <2>3. /\ submission[s].seen.nonce \in Nat /\ submission[s].seen.balance \in Nat
        /\ submission[s].seen.nonce <= account[submission[s].tx.sender].nonce
        /\ submission[s].seen.balance <= Balance[submission[s].tx.sender]
        /\ account[submission[s].tx.sender].nonce \in Nat
    BY Zenon, <2>1, <2>2 DEF Accounts
  <2> QED BY <2>1, <2>2, <2>3
<1> QED BY Zenon, <1>2, <1>3 DEF Accounts

\* A new submission reads its sender's account as it is.
LEMMA ReadsAccount ==
    ASSUME ConstantsOK, Flights, Accounts, NEW s \in Submitters, NEW t \in Txs,
           submission' = [submission EXCEPT
                            ![s] = [step |-> "price", tx |-> t, seen |-> account[t.sender]]],
           account' = account
    PROVE  Accounts'
<1>1. PICK q : q = [step |-> "price", tx |-> t, seen |-> account[t.sender]]
  BY Zenon
<1>2. q.tx = t /\ q.seen = account[t.sender]
  BY Zenon, <1>1
<1>3. /\ DOMAIN submission = Submitters
      /\ submission' = [submission EXCEPT ![s] = q]
  BY Zenon, <1>1 DEF Flights
<1>4. submission'[s] = q /\ \A z \in Submitters \ {s} : submission'[z] = submission[z]
  BY Zenon, <1>3
<1>5. t.sender \in Senders
  BY Zenon DEF ConstantsOK
<1>6. /\ account[t.sender].nonce \in Nat /\ account[t.sender].balance \in Nat
      /\ account[t.sender].balance <= Balance[t.sender]
  BY Zenon, <1>5 DEF Accounts
<1>7. ASSUME NEW z \in Submitters, submission'[z] # Idle
      PROVE  /\ submission'[z].seen.nonce \in Nat /\ submission'[z].seen.balance \in Nat
             /\ submission'[z].seen.nonce <= account[submission'[z].tx.sender].nonce
             /\ submission'[z].seen.balance <= Balance[submission'[z].tx.sender]
  <2>1. CASE z = s
    BY <1>2, <1>4, <1>6, <2>1
  <2>2. CASE z # s
    BY Zenon, <1>4, <1>7, <2>2 DEF Accounts
  <2> QED BY Zenon, <2>1, <2>2
<1> QED BY Zenon, <1>7 DEF Accounts

\* Transactions leave the pool, or are included: less is owed.
LEMMA FewerOwed ==
    ASSUME ConstantsOK, MempoolInv, BudgetInv, inner'.pool \subseteq inner.pool,
           \A a \in Senders : /\ account'[a].nonce \in Nat
                              /\ account[a].nonce <= account'[a].nonce
    PROVE  IsFiniteSet(inner.pool)' /\ PendingWithinBalance'
<1>1. IsFiniteSet(inner.pool) /\ inner.pool \subseteq Txs
  BY ZenonT(60) DEF BudgetInv, MempoolInv, PoolInv
<1>2. IsFiniteSet(inner.pool)'
  BY Zenon, <1>1, FiniteSubset
<1>3. ASSUME NEW a \in Senders
      PROVE  Total(Owed(inner'.pool, a, account'[a].nonce)) <= Balance[a]
  <2>1. PICK S : S = Owed(inner.pool, a, account[a].nonce)
    BY Zenon
  <2>2. PICK T : T = Owed(inner'.pool, a, account'[a].nonce)
    BY Zenon
  <2>3. Total(S) <= Balance[a] /\ Balance[a] \in Nat
    <3>1. Total(S) <= Balance[a]
      BY Zenon, <2>1 DEF BudgetInv, PendingWithinBalance, Total, Owed
    <3> QED BY Zenon, <3>1 DEF ConstantsOK
  <2>4. T \subseteq S /\ S \subseteq inner.pool
    <3>1. \A t \in inner.pool : t.nonce \in Nat
      BY Zenon, <1>1 DEF ConstantsOK
    <3>2. account[a].nonce \in Nat
      BY Zenon DEF BudgetInv, Accounts
    <3>3. ASSUME NEW t \in T PROVE t \in S
      <4>1. t \in inner'.pool /\ t.sender = a /\ ~IsFrame(t) /\ t.nonce >= account'[a].nonce
        BY Zenon, <2>2 DEF Owed
      <4>2. t \in inner.pool /\ t.nonce >= account[a].nonce
        BY <3>1, <3>2, <4>1
      <4> QED BY Zenon, <2>1, <4>1, <4>2 DEF Owed
    <3>4. S \subseteq inner.pool
      BY Zenon, <2>1 DEF Owed
    <3> QED BY Zenon, <3>3, <3>4
  <2>5. IsFiniteSet(S) /\ S \subseteq Txs
    BY Zenon, <1>1, <2>4, FiniteSubset
  <2>6. Total(T) \in Nat /\ Total(S) \in Nat /\ Total(T) <= Total(S)
    BY Zenon, <2>4, <2>5, FewerCostLess
  <2> QED BY <2>2, <2>3, <2>6
<1>4. PendingWithinBalance'
  BY Zenon, <1>3 DEF PendingWithinBalance, Total, Owed
<1> QED BY Zenon, <1>2, <1>4

\* What is in the pool after an accepted transaction: itself and others, in
\* other slots, that were there before.
LEMMA ReplacedPool ==
    ASSUME ConstantsOK, NEW m, PoolInv(m), NEW t \in Txs, NEW r, r = Replaced(m, t)
    PROVE  \A u \in r.pool : u = t \/ (u \in m.pool /\ Slot(u) # Slot(t))
<1>1. PICK f : f = FreedSlot(m, t)
  BY Zenon
<1>2. PICK n : n = MadeRoom(PrunedOrder(f), t)
  BY Zenon
<1>3. PoolInv(f) /\ Shrunk(m, f) /\ \A u \in f.pool : Slot(u) # Slot(t)
  BY Zenon, <1>1, FreedKeeps
<1>4. PoolInv(n) /\ Shrunk(f, n)
  BY Zenon, <1>2, <1>3, RoomKeeps
<1>5. r = Inserted(n, t) /\ Shaped(n)
  BY Zenon, <1>1, <1>2, <1>4 DEF Replaced, PoolInv
<1>6. r.pool = n.pool \cup {t}
  <2>1. InsertedOf(n, t, r)
    BY Zenon, <1>5, InsertedFields
  <2> QED BY Zenon, <2>1 DEF InsertedOf
<1> QED BY Zenon, <1>3, <1>4, <1>6 DEF Shrunk

\* A transaction goes in: the check under the lock has counted all its sender
\* owes (check_admission in add_transaction_inner).
LEMMA InsertPays ==
    ASSUME ConstantsOK, MempoolInv, BudgetInv, NEW s \in Submitters,
           submission[s] # Idle,
           check_admission(inner, submission[s].tx, submission[s].seen),
           inner' = Replaced(inner, submission[s].tx), UNCHANGED account
    PROVE  IsFiniteSet(inner.pool)' /\ PendingWithinBalance'
<1>1. PICK t : t = submission[s].tx
  BY Zenon
<1>2. PICK seen : seen = submission[s].seen
  BY Zenon
<1>3. /\ t \in Txs /\ t.sender \in Senders /\ t.nonce \in Nat /\ t.cost \in Nat
      /\ PoolInv(inner) /\ inner.pool \subseteq Txs
      /\ IsFiniteSet(inner.pool)
  <2>1. t \in Txs
    BY Zenon, <1>1 DEF MempoolInv, Flights
  <2>2. t.sender \in Senders /\ t.nonce \in Nat /\ t.cost \in Nat
    BY Zenon, <2>1 DEF ConstantsOK
  <2>3. PoolInv(inner) /\ IsFiniteSet(inner.pool)
    BY Zenon DEF MempoolInv, BudgetInv
  <2>4. inner.pool \subseteq Txs
    BY Zenon, <2>3 DEF PoolInv
  <2> QED BY Zenon, <2>1, <2>2, <2>3, <2>4
<1>4. /\ seen.nonce \in Nat /\ seen.balance \in Nat
      /\ seen.nonce <= account[t.sender].nonce
      /\ seen.balance <= Balance[t.sender]
      /\ account[t.sender].nonce \in Nat
      /\ Balance[t.sender] \in Nat
  <2>1. Accounts /\ submission[s] # Idle
    BY Zenon DEF BudgetInv
  <2>2. /\ seen.nonce \in Nat /\ seen.balance \in Nat
        /\ seen.nonce <= account[t.sender].nonce /\ seen.balance <= Balance[t.sender]
    BY Zenon, <1>1, <1>2, <2>1 DEF Accounts
  <2>3. account[t.sender].nonce \in Nat
    BY ZenonT(60), <1>3, <2>1 DEF Accounts
  <2>4. Balance[t.sender] \in Nat
    BY Zenon, <1>3 DEF ConstantsOK
  <2> QED BY Zenon, <2>2, <2>3, <2>4
<1>5. \A u \in inner'.pool : u = t \/ (u \in inner.pool /\ Slot(u) # Slot(t))
  BY <1>1, <1>3, ReplacedPool
<1>6. IsFiniteSet(inner.pool)'
  <2>1. IsFiniteSet(inner.pool \cup {t})
    BY Zenon, <1>3, FiniteAdd
  <2>2. inner'.pool \subseteq inner.pool \cup {t}
    BY Zenon, <1>5
  <2> QED BY Zenon, <2>1, <2>2, FiniteSubset
<1>7. ASSUME NEW a \in Senders
      PROVE  Total(Owed(inner'.pool, a, account[a].nonce)) <= Balance[a]
  <2>1. PICK T : T = Owed(inner'.pool, a, account[a].nonce)
    BY Zenon
  <2>2. CASE a = t.sender /\ ~IsFrame(t)
    <3>1. PICK Q : Q = {u \in inner.pool : u.sender = a /\ u.nonce >= account[a].nonce
                                           /\ Slot(u) # Slot(t)}
      BY Zenon
    <3>2. \A u \in inner.pool : u.nonce \in Nat
      BY Zenon, <1>3 DEF ConstantsOK
    <3>3. \A u \in Q : u.sender = t.sender /\ u.nonce >= seen.nonce /\ Slot(u) # Slot(t)
      BY <1>4, <2>2, <3>1, <3>2
    <3>4. ~(SumCost(inner, t.sender, seen.nonce, Slot(t)) + t.cost > seen.balance)
      BY Zenon, <1>1, <1>2, <2>2 DEF check_admission, OverBudget
    <3>5. Total(Q \cup {t}) <= seen.balance
      <4>1. Q \subseteq inner.pool
        BY Zenon, <3>1
      <4> QED BY Zenon, <1>3, <1>4, <3>3, <3>4, <4>1, AdmittedIsPaid
    <3>6. T \subseteq Q \cup {t}
      BY Zenon, <1>5, <2>1, <3>1 DEF Owed
    <3>7. IsFiniteSet(Q \cup {t}) /\ Q \cup {t} \subseteq Txs
      BY Zenon, <1>3, <3>1, FiniteSubset, FiniteAdd
    <3>8. Total(T) \in Nat /\ Total(Q \cup {t}) \in Nat /\ Total(T) <= Total(Q \cup {t})
      BY Zenon, <3>6, <3>7, FewerCostLess
    <3> QED BY <1>4, <2>1, <2>2, <3>5, <3>8
  <2>3. CASE ~(a = t.sender /\ ~IsFrame(t))
    <3>1. PICK S : S = Owed(inner.pool, a, account[a].nonce)
      BY Zenon
    <3>2. Total(S) <= Balance[a]
      BY Zenon, <3>1 DEF BudgetInv, PendingWithinBalance, Total, Owed
    <3>3. T \subseteq S /\ S \subseteq inner.pool
      BY Zenon, <1>5, <2>1, <2>3, <3>1 DEF Owed
    <3>4. IsFiniteSet(S) /\ S \subseteq Txs
      BY Zenon, <1>3, <3>3, FiniteSubset
    <3>5. Total(T) \in Nat /\ Total(S) \in Nat /\ Total(T) <= Total(S)
      BY Zenon, <3>3, <3>4, FewerCostLess
    <3>6. Balance[a] \in Nat
      BY Zenon DEF ConstantsOK
    <3> QED BY <2>1, <3>2, <3>5, <3>6
  <2> QED BY Zenon, <2>2, <2>3
<1>8. PendingWithinBalance'
  BY Zenon, <1>7 DEF PendingWithinBalance, Total, Owed
<1> QED BY Zenon, <1>6, <1>8

\* Every step of a submission keeps the budgets.
LEMMA SubmitterPays ==
    ASSUME ConstantsOK, MempoolInv, BudgetInv, NEW s \in Submitters, SubmitterStep(s)
    PROVE  BudgetInv'
<1>0. Flights /\ Accounts /\ PoolInv(inner)
  BY Zenon DEF MempoolInv, BudgetInv
<1>1. UNCHANGED account
  BY Zenon DEF SubmitterStep, Submit, FindReplaced, PassGates, AddBundle, Insert, Rollback
<1>2. /\ DOMAIN account' = Senders
      /\ \A a \in Senders :
           /\ DOMAIN account'[a] = {"nonce", "balance"}
           /\ account'[a].nonce \in Nat /\ account'[a].balance \in Nat
           /\ account[a].nonce <= account'[a].nonce
           /\ account'[a].balance <= account[a].balance
  BY <1>0, <1>1 DEF Accounts
<1>3. ASSUME inner'.pool \subseteq inner.pool
      PROVE  IsFiniteSet(inner.pool)' /\ PendingWithinBalance'
  BY Zenon, <1>2, <1>3, FewerOwed
<1>4. ASSUME submission[s] # Idle, Leave(s) \/ \E step : Goto(s, step) PROVE Accounts'
  <2>1. SeenKept
    BY Zenon, <1>0, <1>4, KeepsSeen
  <2> QED BY Zenon, <1>0, <1>2, <2>1, AccountsKeep
<1>5. \A step : At(s, step) /\ step # "idle" => submission[s] # Idle
  BY DEF At, Idle
<1>6. ASSUME NEW t \in Txs, Submit(s, t) PROVE BudgetInv'
  <2>1. /\ inner' = inner
        /\ submission' = [submission EXCEPT
                            ![s] = [step |-> "price", tx |-> t, seen |-> account[t.sender]]]
    BY Zenon, <1>6 DEF Submit
  <2>2. Accounts'
    BY Zenon, <1>0, <1>1, <2>1, ReadsAccount
  <2> QED BY Zenon, <1>3, <2>1, <2>2 DEF BudgetInv
<1>7. ASSUME FindReplaced(s) PROVE BudgetInv'
  <2>1. inner' = inner /\ submission[s] # Idle /\ (Leave(s) \/ \E step : Goto(s, step))
    BY Zenon, <1>5, <1>7 DEF FindReplaced
  <2> QED BY Zenon, <1>3, <1>4, <2>1 DEF BudgetInv
<1>8. ASSUME PassGates(s) PROVE BudgetInv'
  <2>1. inner' = inner /\ submission[s] # Idle /\ (Leave(s) \/ \E step : Goto(s, step))
    BY Zenon, <1>5, <1>8 DEF PassGates
  <2> QED BY Zenon, <1>3, <1>4, <2>1 DEF BudgetInv
<1>9. ASSUME AddBundle(s) PROVE BudgetInv'
  <2>1. submission[s] # Idle /\ (Leave(s) \/ \E step : Goto(s, step))
    BY Zenon, <1>5, <1>9 DEF AddBundle
  <2>2. inner'.pool = inner.pool
    BY Zenon, <1>0, <1>9 DEF AddBundle, PoolInv, Shaped
  <2> QED BY Zenon, <1>3, <1>4, <2>1, <2>2 DEF BudgetInv
<1>10. ASSUME Insert(s) PROVE BudgetInv'
  <2>1. submission[s] # Idle /\ (Leave(s) \/ \E step : Goto(s, step))
    BY Zenon, <1>5, <1>10 DEF Insert
  <2>2. CASE inner' = inner
    BY Zenon, <1>3, <1>4, <2>1, <2>2 DEF BudgetInv
  <2>3. CASE /\ check_admission(inner, submission[s].tx, submission[s].seen)
             /\ inner' = Replaced(inner, submission[s].tx)
    <3>1. IsFiniteSet(inner.pool)' /\ PendingWithinBalance'
      BY Zenon, <1>1, <2>1, <2>3, InsertPays
    <3> QED BY Zenon, <1>4, <2>1, <3>1 DEF BudgetInv
  <2> QED BY Zenon, <1>10, <2>2, <2>3 DEF Insert
<1>11. ASSUME Rollback(s) PROVE BudgetInv'
  <2>1. submission[s] # Idle /\ Leave(s)
    BY Zenon, <1>5, <1>11 DEF Rollback
  <2>2. inner'.pool = inner.pool
    BY Zenon, <1>0, <1>11 DEF Rollback, PoolInv, Shaped
  <2> QED BY Zenon, <1>3, <1>4, <2>1, <2>2 DEF BudgetInv
<1> QED BY Zenon, <1>6, <1>7, <1>8, <1>9, <1>10, <1>11 DEF SubmitterStep

\* Every step of the system keeps the budgets.
LEMMA BudgetStep ==
    ASSUME ConstantsOK, MempoolInv, BudgetInv, [Next]_vars
    PROVE  BudgetInv'
<1>0. Flights /\ Accounts /\ PoolInv(inner)
  BY Zenon DEF MempoolInv, BudgetInv
<1>1. ASSUME NEW s \in Submitters, SubmitterStep(s) PROVE BudgetInv'
  BY Zenon, <1>1, SubmitterPays
<1>2. ASSUME NEW ts, inner' = RemovedAll(inner, ts) \/ inner' = inner,
             UNCHANGED <<submission, account>>
      PROVE  BudgetInv'
  <2>1. inner'.pool \subseteq inner.pool
    BY <1>0, <1>2, RemovedKeeps
  <2>2. Accounts'
    BY Zenon, <1>0, <1>2 DEF Accounts
  <2>3. \A a \in Senders : account'[a].nonce \in Nat /\ account[a].nonce <= account'[a].nonce
    BY <1>0, <1>2 DEF Accounts
  <2> QED BY Zenon, <2>1, <2>2, <2>3, FewerOwed DEF BudgetInv
<1>3. ASSUME NEW t \in Txs, NEW isHead \in BOOLEAN, NewHead(t, isHead) PROVE BudgetInv'
  <2>1. /\ inner' = inner /\ submission' = submission
        /\ account' = [account EXCEPT
             ![t.sender].nonce = @ + 1,
             ![t.sender].balance = IF IsFrame(t) THEN @ ELSE @ - t.cost]
        /\ IsFrame(t) \/ t.cost <= account[t.sender].balance
    BY Zenon, <1>3 DEF NewHead
  <2>2. t.sender \in Senders /\ t.cost \in Nat
    BY Zenon DEF ConstantsOK
  <2>3. /\ DOMAIN account' = Senders
        /\ \A a \in Senders :
             /\ DOMAIN account'[a] = {"nonce", "balance"}
             /\ account'[a].nonce \in Nat /\ account'[a].balance \in Nat
             /\ account[a].nonce <= account'[a].nonce
             /\ account'[a].balance <= account[a].balance
    BY <1>0, <2>1, <2>2 DEF Accounts
  <2>4. SeenKept
    BY Zenon, <2>1 DEF SeenKept
  <2>5. Accounts'
    BY Zenon, <1>0, <2>3, <2>4, AccountsKeep
  <2> QED BY Zenon, <2>1, <2>3, <2>5, FewerOwed DEF BudgetInv
<1>4. ASSUME RemoveIncluded PROVE BudgetInv'
  BY Zenon, <1>2, <1>4 DEF RemoveIncluded, NextTask, Removed
<1>5. ASSUME RemoveStaleBlobs PROVE BudgetInv'
  BY Zenon, <1>2, <1>5 DEF RemoveStaleBlobs, NextTask
<1>6. ASSUME RevalidateFrames PROVE BudgetInv'
  BY Zenon, <1>2, <1>6 DEF RevalidateFrames, NextTask
<1>7. ASSUME NEW t \in Txs, BuilderDrops(t) PROVE BudgetInv'
  BY Zenon, <1>2, <1>7 DEF BuilderDrops, Removed
<1>8. CASE UNCHANGED vars
  BY Zenon, <1>2, <1>8 DEF vars
<1> QED BY Zenon, <1>1, <1>3, <1>4, <1>5, <1>6, <1>7, <1>8 DEF Next

\* At the start nothing is owed.
LEMMA BudgetInit == ASSUME ConstantsOK, Init PROVE BudgetInv
<1>1. inner.pool = {}
  BY Zenon DEF Init, Empty
<1>2. IsFiniteSet(inner.pool)
  BY Zenon, <1>1, FS_EmptySet
<1>3. Accounts
  BY DEF Init, Accounts, ConstantsOK
<1>4. ASSUME NEW a \in Senders
      PROVE  Total(Owed(inner.pool, a, account[a].nonce)) <= Balance[a]
  <2>1. Owed(inner.pool, a, account[a].nonce) = {}
    BY Zenon, <1>1 DEF Owed
  <2>2. Total({}) = 0
    BY Zenon, SumNone DEF Total
  <2> QED BY <2>1, <2>2 DEF ConstantsOK
<1>5. PendingWithinBalance
  BY Zenon, <1>4 DEF PendingWithinBalance, Total, Owed
<1> QED BY Zenon, <1>2, <1>3, <1>5 DEF BudgetInv

\* For any number of concurrent submissions and any heads they read: what a
\* sender's pooled transactions can still cost is covered by the balance the
\* account had (check_admission, evaluated again under the write lock).
THEOREM PendingWithinBalanceAlways == Spec => []PendingWithinBalance
<1>1. Init => BudgetInv
  BY Zenon, BudgetInit, MempoolAssumption
<1>2. MempoolInv /\ BudgetInv /\ [Next]_vars => BudgetInv'
  BY Zenon, BudgetStep, MempoolAssumption
<1>3. BudgetInv => PendingWithinBalance
  BY Zenon DEF BudgetInv
<1> QED BY <1>1, <1>2, <1>3, MempoolHolds, PTL DEF Spec

=============================================================================
