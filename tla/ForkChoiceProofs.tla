-------------------------- MODULE ForkChoiceProofs --------------------------
(***************************************************************************)
(* Proofs about ForkChoice for every block tree and every threshold.       *)
(***************************************************************************)
EXTENDS ForkChoice, TLAPS

\* A canonical table that is exactly the ancestor chain of its head.
ChainTo(canon, n) ==
    /\ n \in Height
    /\ canon \in [Height -> Block \cup {NoBlock}]
    /\ canon[n] \in Block
    /\ \A m \in Height :
          /\ m <= n => canon[m] \in Anc[canon[n]] /\ Number[canon[m]] = m
          /\ m > n => canon[m] = NoBlock

\* Every block is its own ancestor and has a natural number as height.
LEMMA SelfAncestor ==
    ASSUME NEW b \in Block
    PROVE  /\ b \in Anc[b]
           /\ Anc[b] \in SUBSET Block
           /\ Number[b] \in Nat
           /\ Number[b] \in Height
BY GenesisAssumption, AncestorAssumption DEF Height

\* In a linked table the canonical blocks are the head's ancestors.
LEMMA CanonicalIsAncestor ==
    ASSUME NEW canon, NEW n, ChainTo(canon, n), NEW b \in Block
    PROVE  is_canonical(canon, b) <=> b \in Anc[canon[n]]
<1> DEFINE tip == canon[n]
<1>1. tip \in Block /\ Number[b] \in Height /\ Number[tip] = n /\ Height \subseteq Nat
  BY SelfAncestor, GenesisAssumption DEF ChainTo, Height
<1>2. ASSUME is_canonical(canon, b) PROVE b \in Anc[tip]
  <2>1. Number[b] <= n
    BY <1>1, <1>2, GenesisAssumption DEF ChainTo, is_canonical
  <2> QED BY <1>1, <1>2, <2>1 DEF ChainTo, is_canonical
<1>3. ASSUME b \in Anc[tip] PROVE is_canonical(canon, b)
  <2>1. Number[b] <= n
    BY <1>1, <1>3, AncestryAssumption
  <2>2. canon[Number[b]] \in Anc[tip] /\ Number[canon[Number[b]]] = Number[b]
    BY <1>1, <2>1 DEF ChainTo
  <2> QED BY <1>1, <1>3, <2>2, AncestryAssumption DEF is_canonical
<1> QED BY <1>2, <1>3

\* The pivot of a head is a canonical ancestor of it, and every block of the
\* head's chain above the pivot is on the side branch.
LEMMA PivotFacts ==
    ASSUME NEW canon, NEW n, ChainTo(canon, n), NEW h \in Block
    PROVE  /\ Pivot(canon, h) \in Block
           /\ Pivot(canon, h) \in Anc[h]
           /\ Pivot(canon, h) \in Anc[canon[n]]
<1> DEFINE tip == canon[n]
<1>1. tip \in Block
  BY DEF ChainTo
<1>2. CanonicalAncestors(canon, h) = Anc[h] \cap Anc[tip]
  BY CanonicalIsAncestor, SelfAncestor DEF CanonicalAncestors
<1>3. PICK m \in Block : Anc[h] \cap Anc[tip] = Anc[m]
  BY <1>1, MeetAssumption
<1>4. m \in CanonicalAncestors(canon, h)
  BY <1>2, <1>3, SelfAncestor
<1>5. \A c \in CanonicalAncestors(canon, h) : Number[c] <= Number[m]
  BY <1>2, <1>3, AncestryAssumption
<1>6. Pivot(canon, h) \in CanonicalAncestors(canon, h)
  BY <1>4, <1>5 DEF Pivot
<1> QED BY <1>2, <1>6, SelfAncestor

\* Store::forkchoice_update keeps the canonical table an ancestor chain, when
\* the branch it is given was computed against the table it updates.
LEMMA CanonicalAfterLinked ==
    ASSUME NEW canon, NEW n, ChainTo(canon, n), NEW h \in Block
    PROVE  ChainTo(CanonicalAfter(canon, n, Branch(canon, h), h), Number[h])
<1> DEFINE new == CanonicalAfter(canon, n, Branch(canon, h), h)
           p == Pivot(canon, h)
           br == Branch(canon, h)
<1>0. p \in Block /\ p \in Anc[h] /\ p \in Anc[canon[n]]
  BY PivotFacts
<1> HIDE DEF p
<1>1. /\ p \in Block /\ p \in Anc[h] /\ p \in Anc[canon[n]]
      /\ canon[n] \in Block /\ n \in Nat /\ Height \subseteq Nat
      /\ Number[h] \in Height /\ Number[h] \in Nat
      /\ Number[p] \in Nat /\ Number[canon[n]] = n
  BY <1>0, SelfAncestor, GenesisAssumption DEF ChainTo, Height
<1>2. \A b \in br : b \in Anc[h] /\ b \in Block /\ Number[b] <= Number[h]
  BY AncestryAssumption, SelfAncestor DEF Branch, Side
<1>3. new \in [Height -> Block \cup {NoBlock}]
  BY <1>2 DEF CanonicalAfter, ChainTo
<1>4. new[Number[h]] = h
  BY <1>1 DEF CanonicalAfter
<1>5. ASSUME NEW m \in Height, m > Number[h] PROVE new[m] = NoBlock
  <2>1. ~ \E b \in br : Number[b] = m
    BY <1>1, <1>2, <1>5, SelfAncestor
  <2>2. m > n => canon[m] = NoBlock
    BY DEF ChainTo
  <2> QED BY <1>1, <1>5, <2>1, <2>2 DEF CanonicalAfter
<1>6. ASSUME NEW m \in Height, m < Number[h]
      PROVE  new[m] \in Anc[h] /\ Number[new[m]] = m
  <2>1. CASE \E b \in br : Number[b] = m
    <3>1. new[m] \in br /\ Number[new[m]] = m
      <4>1. m # Number[h] /\ ~(m > Number[h])
        BY <1>1, <1>6
      <4> HIDE DEF br
      <4> QED BY <2>1, <4>1 DEF CanonicalAfter, br
    <3> QED BY <1>2, <3>1
  <2>2. CASE ~ \E b \in br : Number[b] = m
    <3>1. new[m] = canon[m]
      <4>1. m # Number[h] /\ ~(m > Number[h])
        BY <1>1, <1>6
      <4> HIDE DEF br
      <4> QED BY <2>2, <4>1 DEF CanonicalAfter, br
    <3>2. PICK a \in Anc[h] : Number[a] = m
      <4>1. m \in Nat
        BY <1>1
      <4>2. m \in 0..Number[h]
        BY <1>1, <1>6, <4>1
      <4> QED BY <4>2, AncestryAssumption
    <3>3. m <= Number[p]
      <4>1. a # h /\ a \notin Branch(canon, h)
        BY <1>1, <1>6, <2>2, <3>2
      <4> QED BY <1>1, <3>2, <4>1 DEF Branch, Side, p
    <3>4. m <= n
      BY <1>1, <3>3, AncestryAssumption
    <3>5. canon[m] \in Anc[canon[n]] /\ Number[canon[m]] = m
      BY <3>4 DEF ChainTo
    <3>6. canon[m] \in Anc[p]
      BY <1>1, <3>3, <3>5, AncestryAssumption
    <3> QED BY <1>1, <3>1, <3>5, <3>6, AncestryAssumption
  <2> QED BY <2>1, <2>2
<1>7. h \in Anc[h]
  BY SelfAncestor
<1> HIDE DEF new
<1>8. ASSUME NEW m \in Height, m <= Number[h]
      PROVE  new[m] \in Anc[h] /\ Number[new[m]] = m
  <2>1. m \in Nat
    BY <1>1
  <2>2. m = Number[h] \/ m < Number[h]
    BY <1>1, <1>8, <2>1
  <2> QED BY <1>4, <1>6, <1>7, <2>2
<1> QED BY <1>1, <1>3, <1>4, <1>5, <1>8 DEF ChainTo, new

-----------------------------------------------------------------------------
(* Any number of callers.                                                  *)

\* A caller inside the handler knows its head; one inside the transaction
\* holds the lock and remembers the head it may have to restore.
CallsWellFormed ==
    \A c \in Caller :
        /\ call[c].pc # "idle" => call[c].head \in Block
        /\ call[c].pc = "txn" => fcu_lock = c

LockHeld ==
    \A c \in Caller : fcu_lock = c =>
        /\ call[c].pc = "txn"
        /\ latest_block_header = call[c].head
        /\ call[c].previous_head = canonical[latest]
        /\ call[c].previous_head \in Block

\* The inductive invariant behind HeadCacheAgrees and ReorgSlotOwned.
SharedInv ==
    /\ TypeOK
    /\ CallsWellFormed
    /\ LockHeld
    /\ HeadCacheAgrees
    /\ ReorgSlotOwned

LEMMA SafeRootType ==
    ASSUME NEW canon \in [Height -> Block \cup {NoBlock}], NEW h \in Block
    PROVE  compute_safe_commit_root(canon, Threshold, h) \in Block \cup {NoBlock}
<1>1. CASE Number[h] >= Threshold
  <2>1. Number[h] - Threshold \in 0..Number[h]
    BY <1>1, SelfAncestor, ThresholdAssumption
  <2>2. PICK a \in Anc[h] : Number[a] = Number[h] - Threshold
    BY <2>1, AncestryAssumption
  <2>3. Number[h] - Threshold \in Height
    BY <2>2, SelfAncestor
  <2> QED BY <1>1, <2>3 DEF compute_safe_commit_root
<1>2. CASE ~(Number[h] >= Threshold)
  BY <1>2 DEF compute_safe_commit_root
<1> QED BY <1>1, <1>2

LEMMA CanonicalAfterType ==
    ASSUME NEW canon \in [Height -> Block \cup {NoBlock}], NEW n,
           NEW br \in SUBSET Block, NEW h \in Block
    PROVE  /\ CanonicalAfter(canon, n, br, h) \in [Height -> Block \cup {NoBlock}]
           /\ CanonicalAfter(canon, n, br, h)[Number[h]] = h
BY SelfAncestor DEF CanonicalAfter

LEMMA BranchType ==
    ASSUME NEW canon, NEW h \in Block
    PROVE  Branch(canon, h) \in SUBSET Block
BY SelfAncestor DEF Branch, Side

LEMMA SharedInit == Init => SharedInv
<1> SUFFICES ASSUME Init PROVE SharedInv
  OBVIOUS
<1>1. 0 \in Height /\ Genesis \in Block
  BY GenesisAssumption DEF Height
<1>2. TypeOK
  BY <1>1 DEF Init, TypeOK, Idle, CallState
<1>3. HeadCacheAgrees
  BY <1>1 DEF Init, HeadCacheAgrees
<1> QED BY <1>2, <1>3, CallerAssumption
     DEF Init, SharedInv, CallsWellFormed, LockHeld, ReorgSlotOwned, Idle

LEMMA SharedNext == SharedInv /\ [Next]_vars => SharedInv'
<1> SUFFICES ASSUME SharedInv, [Next]_vars PROVE SharedInv'
  OBVIOUS
<1> USE DEF SharedInv
<1>1. ASSUME Env PROVE SharedInv'
  <2>1. UNCHANGED tables /\ known' \in SUBSET Block /\ stateful' \in SUBSET Block
    BY <1>1 DEF Env, Stash, Execute, Evict, TypeOK
  <2> QED BY <2>1 DEF tables, TypeOK, CallsWellFormed, LockHeld,
                      HeadCacheAgrees, ReorgSlotOwned
<1>2. ASSUME NEW c \in Caller, NEW fc \in FcState, Validate(c, fc)
      PROVE SharedInv'
  <2> DEFINE new == [pc |-> call'[c].pc, head |-> fc.head, fin |-> fc.fin,
                     branch |-> Branch(canonical, fc.head),
                     previous_head |-> NoBlock]
  <2>1. fc.head \in Block /\ fc.fin \in Block \cup {NoBlock}
    BY FcStateAssumption
  <2>2. PICK pc \in {"apply", "claim"} :
          call' = [call EXCEPT ![c] = [pc |-> pc, head |-> fc.head,
                     fin |-> fc.fin, branch |-> Branch(canonical, fc.head),
                     previous_head |-> NoBlock]]
    BY <1>2 DEF Validate
  <2>3. call' \in [Caller -> CallState]
    BY <2>1, <2>2, BranchType DEF TypeOK, CallState
  <2>4. call[c].pc = "idle" /\ fcu_lock # c /\ reorg # c
    <3>1. call[c].pc = "idle" /\ reorg = NoCaller
      BY <1>2 DEF Validate
    <3> QED BY <3>1, CallerAssumption DEF LockHeld
  <2>5. UNCHANGED <<known, stateful, canonical, latest, finalized,
                   latest_block_header, safe_commit_root, fcu_lock, reorg>>
    BY <1>2 DEF Validate
  <2>6. TypeOK'
    BY <2>3, <2>5 DEF TypeOK
  <2>7. CallsWellFormed' /\ LockHeld'
    BY <2>1, <2>2, <2>4, <2>5 DEF CallsWellFormed, LockHeld, TypeOK
  <2>8. HeadCacheAgrees' /\ ReorgSlotOwned'
    BY <2>2, <2>4, <2>5 DEF HeadCacheAgrees, ReorgSlotOwned, TypeOK
  <2> QED BY <2>6, <2>7, <2>8
<1>3. ASSUME NEW c \in Caller, ClaimReorg(c) PROVE SharedInv'
  <2>1. TypeOK'
    BY <1>3, BranchType DEF ClaimReorg, TypeOK, CallState, Idle, CallsWellFormed
  <2>2. CallsWellFormed' /\ LockHeld'
    BY <1>3 DEF ClaimReorg, CallsWellFormed, LockHeld, TypeOK, CallState, Idle
  <2>3. HeadCacheAgrees' /\ ReorgSlotOwned'
    BY <1>3, CallerAssumption DEF ClaimReorg, HeadCacheAgrees, ReorgSlotOwned,
          TypeOK, CallState, Idle
  <2> QED BY <2>1, <2>2, <2>3
<1>4. ASSUME NEW c \in Caller, Replayed(c) PROVE SharedInv'
  <2>1. TypeOK'
    BY <1>4 DEF Replayed, TypeOK, CallState, CallsWellFormed
  <2>2. CallsWellFormed' /\ LockHeld'
    BY <1>4 DEF Replayed, CallsWellFormed, LockHeld, TypeOK, CallState
  <2>3. HeadCacheAgrees' /\ ReorgSlotOwned'
    BY <1>4 DEF Replayed, HeadCacheAgrees, ReorgSlotOwned, TypeOK, CallState
  <2> QED BY <2>1, <2>2, <2>3
<1>5. ASSUME NEW c \in Caller, ReplayFailed(c) PROVE SharedInv'
  <2>1. TypeOK'
    BY <1>5 DEF ReplayFailed, TypeOK, CallState, Idle
  <2>2. CallsWellFormed' /\ LockHeld'
    BY <1>5 DEF ReplayFailed, CallsWellFormed, LockHeld, TypeOK, CallState, Idle
  <2>3. HeadCacheAgrees' /\ ReorgSlotOwned'
    BY <1>5 DEF ReplayFailed, HeadCacheAgrees, ReorgSlotOwned, TypeOK,
          CallState, Idle
  <2> QED BY <2>1, <2>2, <2>3
<1>6. ASSUME NEW c \in Caller, UpdateHeadCache(c) PROVE SharedInv'
  <2>1. TypeOK'
    <3>1. call[c].head \in Block
      BY <1>6 DEF UpdateHeadCache, CallsWellFormed
    <3>2. call' \in [Caller -> CallState]
      <4> DEFINE new == [call[c] EXCEPT !.pc = "txn",
                                        !.previous_head = latest_block_header]
      <4>1. call[c] \in CallState /\ latest_block_header \in Block
        BY DEF TypeOK
      <4>2. new \in CallState
        BY <4>1 DEF CallState
      <4>3. call' = [call EXCEPT ![c] = new]
        BY <1>6 DEF UpdateHeadCache
      <4> HIDE DEF new
      <4> QED BY <4>2, <4>3 DEF TypeOK
    <3> QED BY <1>6, <3>1, <3>2 DEF UpdateHeadCache, TypeOK
  <2>2. CallsWellFormed' /\ LockHeld'
    BY <1>6, CallerAssumption DEF UpdateHeadCache, CallsWellFormed, LockHeld,
          HeadCacheAgrees, TypeOK, CallState
  <2>3. HeadCacheAgrees' /\ ReorgSlotOwned'
    BY <1>6, CallerAssumption DEF UpdateHeadCache, HeadCacheAgrees,
          ReorgSlotOwned, TypeOK, CallState
  <2> QED BY <2>1, <2>2, <2>3
<1>7. ASSUME NEW c \in Caller, CommitTxn(c) PROVE SharedInv'
  <2> DEFINE head == call[c].head
             canon == CanonicalAfter(canonical, latest, call[c].branch, head)
  <2>1. head \in Block /\ call[c].branch \in SUBSET Block /\ fcu_lock = c
    BY <1>7 DEF CommitTxn, CallsWellFormed, TypeOK, CallState
  <2>2. /\ canonical' = canon
        /\ latest' = Number[head]
        /\ canon \in [Height -> Block \cup {NoBlock}]
        /\ canon[Number[head]] = head
        /\ compute_safe_commit_root(canon, Threshold, head) \in Block \cup {NoBlock}
    <3>1. canonical' = canon /\ latest' = Number[head]
      BY <1>7 DEF CommitTxn
    <3>2. canonical \in [Height -> Block \cup {NoBlock}]
      BY DEF TypeOK
    <3>3. canon \in [Height -> Block \cup {NoBlock}] /\ canon[Number[head]] = head
      BY <2>1, <3>2, CanonicalAfterType
    <3> HIDE DEF canon, head
    <3> QED BY <2>1, <3>1, <3>3, SafeRootType
  <2> HIDE DEF canon
  <2>3. /\ latest' \in Height
        /\ finalized' \in Height \cup {-1}
        /\ safe_commit_root' \in Block \cup {NoBlock}
    BY <1>7, <2>1, <2>2, SelfAncestor DEF CommitTxn, TypeOK, canon
  <2>4. /\ fcu_lock' = NoCaller
        /\ reorg' = IF reorg = c THEN NoCaller ELSE reorg
        /\ call' = [call EXCEPT ![c] = Idle]
        /\ UNCHANGED <<known, stateful, latest_block_header>>
    BY <1>7 DEF CommitTxn, Release
  <2>5. TypeOK'
    BY <2>2, <2>3, <2>4 DEF TypeOK, CallState, Idle
  <2>6. CallsWellFormed' /\ LockHeld'
    BY <2>1, <2>4, CallerAssumption DEF CallsWellFormed, LockHeld, TypeOK, Idle
  <2>7. HeadCacheAgrees'
    BY <2>1, <2>2, <2>4 DEF HeadCacheAgrees, LockHeld
  <2>8. ReorgSlotOwned'
    BY <2>4, CallerAssumption DEF ReorgSlotOwned, TypeOK, Idle
  <2> QED BY <2>5, <2>6, <2>7, <2>8
<1>8. ASSUME NEW c \in Caller, TxnFailed(c) PROVE SharedInv'
  <2>1. fcu_lock = c
    BY <1>8 DEF TxnFailed, CallsWellFormed
  <2>2. /\ fcu_lock' = NoCaller
        /\ reorg' = IF reorg = c THEN NoCaller ELSE reorg
        /\ call' = [call EXCEPT ![c] = Idle]
        /\ latest_block_header' = call[c].previous_head
        /\ stateful' \in SUBSET Block
        /\ UNCHANGED <<known, canonical, latest, finalized, safe_commit_root>>
    BY <1>8 DEF TxnFailed, Release, TypeOK
  <2>3. TypeOK'
    BY <2>1, <2>2 DEF TypeOK, LockHeld, CallState, Idle
  <2>4. CallsWellFormed' /\ LockHeld'
    BY <2>1, <2>2, CallerAssumption DEF CallsWellFormed, LockHeld, TypeOK, Idle
  <2>5. HeadCacheAgrees'
    BY <2>1, <2>2 DEF HeadCacheAgrees, LockHeld
  <2>6. ReorgSlotOwned'
    BY <2>2, CallerAssumption DEF ReorgSlotOwned, TypeOK, Idle
  <2> QED BY <2>3, <2>4, <2>5, <2>6
<1>9. ASSUME UNCHANGED vars PROVE SharedInv'
  BY <1>9 DEF vars, TypeOK, CallsWellFormed, LockHeld, HeadCacheAgrees,
              ReorgSlotOwned
<1> QED BY <1>1, <1>2, <1>3, <1>4, <1>5, <1>6, <1>7, <1>8, <1>9 DEF Next, Fcu

LEMMA SharedAlways == Spec => []SharedInv
BY SharedInit, SharedNext, PTL DEF Spec

\* The variables of the fork-choice handler keep their types for every block
\* tree, threshold and number of concurrent callers.
THEOREM TypeCorrect == Spec => []TypeOK
<1>1. SharedInv => TypeOK
  BY DEF SharedInv
<1> QED BY <1>1, SharedAlways, PTL

\* However many callers race, the in-memory head and the database head agree
\* whenever fcu_lock is free, failed transactions included.
THEOREM HeadCacheCorrect == Spec => []HeadCacheAgrees
<1>1. SharedInv => HeadCacheAgrees
  BY DEF SharedInv
<1> QED BY <1>1, SharedAlways, PTL

\* The deep-reorg slot is never leaked and never shared (enter_reorg's
\* test-and-set, ReorgGuard's drop).
THEOREM ReorgSlotCorrect == Spec => []ReorgSlotOwned
<1>1. SharedInv => ReorgSlotOwned
  BY DEF SharedInv
<1> QED BY <1>1, SharedAlways, PTL

-----------------------------------------------------------------------------
(* One caller at a time.                                                   *)

\* The branch a caller is about to write was computed against the table it
\* will be written to.
BranchFresh ==
    \A c \in Caller : call[c].pc \in {"apply", "txn", "replay"} =>
        call[c].branch = Branch(canonical, call[c].head)

SoloInv ==
    /\ SharedInv
    /\ CanonicalChainLinked
    /\ BranchFresh

LEMMA SoloInit == Init => SoloInv
<1> SUFFICES ASSUME Init PROVE SoloInv
  OBVIOUS
<1>1. SharedInv
  BY SharedInit
<1>2. CanonicalChainLinked
  <2>1. 0 \in Height /\ Genesis \in Block /\ Genesis \in Anc[Genesis]
        /\ Number[Genesis] = 0 /\ Height \subseteq Nat
    BY GenesisAssumption, AncestorAssumption DEF Height
  <2>2. latest = 0 /\ canonical = [n \in Height |-> IF n = 0 THEN Genesis ELSE NoBlock]
    BY DEF Init
  <2>3. canonical[latest] = Genesis
    BY <2>1, <2>2
  <2>4. ASSUME NEW n \in Height
        PROVE  /\ n <= latest => n = 0
               /\ n > latest => canonical[n] = NoBlock
    BY <2>1, <2>2
  <2> QED BY <2>1, <2>2, <2>3, <2>4 DEF CanonicalChainLinked
<1>3. BranchFresh
  BY DEF Init, BranchFresh, Idle
<1> QED BY <1>1, <1>2, <1>3 DEF SoloInv

LEMMA SoloNext ==
    (\A c, d \in Caller : c = d) /\ SoloInv /\ [Next]_vars => SoloInv'
<1> SUFFICES ASSUME \A c, d \in Caller : c = d, SoloInv, [Next]_vars
             PROVE  SoloInv'
  OBVIOUS
<1>0. SharedInv' /\ SharedInv
  BY SharedNext DEF SoloInv
<1>1. ASSUME UNCHANGED <<canonical, latest>>
      PROVE  CanonicalChainLinked'
  BY <1>1 DEF SoloInv, CanonicalChainLinked
<1>2. ASSUME NEW c \in Caller, UNCHANGED canonical,
             call'[c].branch = Branch(canonical, call'[c].head)
      PROVE  BranchFresh'
  BY <1>2 DEF BranchFresh
<1>3. ASSUME NEW c \in Caller, call'[c].pc \notin {"apply", "txn", "replay"}
      PROVE  BranchFresh'
  BY <1>3 DEF BranchFresh
<1>4. ASSUME NEW c \in Caller
      PROVE  c \in DOMAIN call /\ DOMAIN call = Caller /\ call[c] \in CallState
  BY <1>0 DEF SharedInv, TypeOK
<1>5. ASSUME Env PROVE SoloInv'
  <2>1. UNCHANGED tables
    BY <1>5 DEF Env, Stash, Execute, Evict
  <2>2. CanonicalChainLinked' /\ BranchFresh'
    BY <1>1, <2>1 DEF tables, SoloInv, BranchFresh
  <2> QED BY <1>0, <2>2 DEF SoloInv
<1>6. ASSUME NEW c \in Caller, NEW fc \in FcState, Validate(c, fc)
      PROVE  SoloInv'
  <2>1. UNCHANGED <<canonical, latest>>
    BY <1>6 DEF Validate
  <2>2. call'[c].branch = Branch(canonical, call'[c].head)
    BY <1>4, <1>6 DEF Validate
  <2> QED BY <1>0, <1>1, <1>2, <2>1, <2>2 DEF SoloInv
<1>7. ASSUME NEW c \in Caller, ClaimReorg(c) PROVE SoloInv'
  <2>1. UNCHANGED <<canonical, latest>>
    BY <1>7 DEF ClaimReorg
  <2>2. BranchFresh'
    <3>1. CASE reorg = NoCaller /\ Linked(known, canonical, call[c].head)
      <4>1. call'[c].branch = Branch(canonical, call'[c].head)
        BY <1>4, <1>7, <3>1 DEF ClaimReorg, CallState
      <4> QED BY <1>2, <2>1, <4>1
    <3>2. CASE ~(reorg = NoCaller /\ Linked(known, canonical, call[c].head))
      <4>1. call'[c].pc = "idle"
        BY <1>4, <1>7, <3>2 DEF ClaimReorg, Idle
      <4> QED BY <1>3, <4>1
    <3> QED BY <3>1, <3>2
  <2> QED BY <1>0, <1>1, <2>1, <2>2 DEF SoloInv
<1>8. ASSUME NEW c \in Caller, Replayed(c) \/ UpdateHeadCache(c) PROVE SoloInv'
  <2>1. UNCHANGED <<canonical, latest>> /\ call[c].pc \in {"replay", "apply"}
    BY <1>8 DEF Replayed, UpdateHeadCache
  <2>2. call'[c].branch = call[c].branch /\ call'[c].head = call[c].head
    BY <1>4, <1>8 DEF Replayed, UpdateHeadCache, CallState
  <2>3. BranchFresh'
    BY <1>2, <2>1, <2>2 DEF SoloInv, BranchFresh
  <2> QED BY <1>0, <1>1, <2>1, <2>3 DEF SoloInv
<1>9. ASSUME NEW c \in Caller, ReplayFailed(c) \/ TxnFailed(c) PROVE SoloInv'
  <2>1. UNCHANGED <<canonical, latest>> /\ call'[c].pc = "idle"
    BY <1>4, <1>9 DEF ReplayFailed, TxnFailed, Release, Idle
  <2> QED BY <1>0, <1>1, <1>3, <2>1 DEF SoloInv
<1>10. ASSUME NEW c \in Caller, CommitTxn(c) PROVE SoloInv'
  <2> DEFINE head == call[c].head
  <2>1. head \in Block /\ call[c].branch = Branch(canonical, head)
    BY <1>0, <1>10 DEF CommitTxn, SoloInv, SharedInv, CallsWellFormed, BranchFresh
  <2>2. /\ canonical' = CanonicalAfter(canonical, latest, Branch(canonical, head), head)
        /\ latest' = Number[head]
    BY <1>10, <2>1 DEF CommitTxn
  <2>3. ChainTo(canonical, latest)
    BY <1>0 DEF SoloInv, SharedInv, TypeOK, CanonicalChainLinked, ChainTo
  <2>4. ChainTo(canonical', latest')
    BY <2>1, <2>2, <2>3, CanonicalAfterLinked
  <2>5. CanonicalChainLinked'
    BY <2>4 DEF ChainTo, CanonicalChainLinked
  <2>6. call'[c].pc = "idle"
    BY <1>4, <1>10 DEF CommitTxn, Release, Idle
  <2> QED BY <1>0, <1>3, <2>5, <2>6 DEF SoloInv
<1>11. ASSUME UNCHANGED vars PROVE SoloInv'
  BY <1>0, <1>1, <1>11 DEF vars, SoloInv, BranchFresh
<1> QED BY <1>5, <1>6, <1>7, <1>8, <1>9, <1>10, <1>11 DEF Next, Fcu

\* With one fork-choice request at a time the canonical table is always the
\* ancestor chain of the head and holds nothing above it, for every block
\* tree: what apply_fork_choice's documentation promises.
THEOREM CanonicalChainCorrect ==
    ASSUME \A c, d \in Caller : c = d
    PROVE  Spec => []CanonicalChainLinked
<1>1. SoloInv /\ [Next]_vars => SoloInv'
  BY SoloNext
<1>2. SoloInv => CanonicalChainLinked
  BY DEF SoloInv
<1> QED BY <1>1, <1>2, SoloInit, PTL DEF Spec
=============================================================================
