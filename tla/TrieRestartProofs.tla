------------------------- MODULE TrieRestartProofs --------------------------
(***************************************************************************)
(* Proofs about TrieStore, third part.  The journal reaches down to the    *)
(* finalized block; after a restart, execution from the block the disk     *)
(* holds rebuilds the layers of the canonical chain one by one, and a      *)
(* start that gives up found no canonical state on disk.                   *)
(***************************************************************************)
EXTENDS TrieStoreProofs

-----------------------------------------------------------------------------
(* The journal reaches down to the finalized block.                        *)

\* A commit journals every block it moves the disk over, and a reconciliation
\* deletes no entry at or below the pivot.
LEMMA CommitCovers ==
    ASSUME IInv, JournalCoversWindow, NEW target, commit_to_disk(target), finalized' = finalized
    PROVE  JournalCoversWindow'
<1>0. TypeOK /\ TableInv /\ DiskInv
  BY Zenon DEF IInv
<1>1. CASE target \notin layers
  <2>1. UNCHANGED <<disk, journal, stray>>
    BY Zenon, <1>1 DEF commit_to_disk
  <2> QED BY Zenon, <2>1 DEF JournalCoversWindow
<1>2. CASE target \in layers
  <2>1. PICK root \in layers : \E a \in Anc[root] \ {Genesis} :
              /\ overlay # NoOverlay => a = root
              /\ disk' = DiskAfter(From(a, root))
              /\ journal' = JournalAfter(From(a, root))
              /\ stray' = (stray \/ ~RestsOnBase(From(a, root)))
    BY Zenon, <1>0, <1>2, CommitShape
  <2>2. PICK a \in Anc[root] \ {Genesis} :
              /\ overlay # NoOverlay => a = root
              /\ disk' = DiskAfter(From(a, root))
              /\ journal' = JournalAfter(From(a, root))
              /\ stray' = (stray \/ ~RestsOnBase(From(a, root)))
    BY Zenon, <2>1
  <2>3. SUFFICES ASSUME ~stray' PROVE JournalCoversWindow'
    BY Zenon DEF JournalCoversWindow
  <2>4. ~stray /\ RestsOnBase(From(a, root))
    BY ZenonT(60), <2>2, <2>3
  <2>5. /\ root \in Block /\ a \in Block /\ root \in Anc[root] /\ Number[root] \in Nat
        /\ Number[a] \in Nat
        /\ \A x \in Anc[root] : x \in Block /\ Number[x] \in Nat
    BY Zenon, <1>0, SelfAncestor, AncestryAssumption DEF TypeOK
  <2>6. Parent[a] = Base
    <3>1. PICK c \in From(a, root) : Parent[c] = Base /\ \A d \in From(a, root) : Number[c] <= Number[d]
      BY Zenon, <2>4 DEF RestsOnBase
    <3>2. a \in From(a, root) /\ c \in Anc[root] /\ Number[c] >= Number[a] /\ Number[c] <= Number[a]
      BY SMTT(30), <2>5, <3>1 DEF From
    <3>3. c = a
      <4>1. Number[c] = Number[a]
        BY SMTT(30), <2>5, <3>2
      <4> QED BY Zenon, <2>5, <3>2, <4>1, AncestryAssumption
    <3> QED BY Zenon, <3>1, <3>3
  <2>7. disk' = State[root] /\ disk'[RootKey] = root
    <3>1. disk' = State[root]
      BY Zenon, <1>0, <2>2, <2>4, <2>5, <2>6, CommitMoves
    <3>2. State[root][RootKey] = root
      BY Zenon, <2>5, StateFacts
    <3> QED BY Zenon, <3>1, <3>2
  <2>8. PICK r \in Block : r = disk[RootKey]
    BY Zenon, <1>0, WritesAssumption DEF TypeOK
  <2>9. /\ Base \in Block /\ Base \in Anc[r] /\ Number[Base] \in Nat /\ Number[a] = Number[Base] + 1
        /\ Number[Base] <= Number[r] /\ Number[r] \in Nat
        /\ overlay # NoOverlay => overlay.to = Number[Base] + 1
    <3>1. Base \in Block
      BY Zenon, <1>0, <2>4, BaseState
    <3>2. Base \in Anc[r] /\ (overlay # NoOverlay => overlay.to = Number[Base] + 1)
      BY Zenon, <1>0, <2>4, <2>8, SelfAncestor DEF Base, DiskInv, OverlayOK
    <3>3. Number[a] = Number[Base] + 1
      BY Zenon, <2>5, <2>6, ParentAssumption
    <3> QED BY ZenonT(60), <3>1, <3>2, <3>3, SelfAncestor, AncestryAssumption, GenesisAssumption
  <2>10. finalized \in Int /\ \A n \in Height : n \in Nat
    BY SMTT(30), <1>0, GenesisAssumption DEF TypeOK, Height
  <2>11. ASSUME NEW n \in Height, n \in finalized + 1 .. Number[root], n > 0
         PROVE  JournalAfter(From(a, root))[n] # NoEntry
    <3>1. CASE n >= Number[a]
      <4>1. PICK b \in Anc[root] : Number[b] = n
        <5>1. n \in 0 .. Number[root]
          BY SMTT(30), <2>5, <2>10, <2>11
        <5> QED BY Zenon, <2>5, <5>1, AncestryAssumption
      <4>2. b \in From(a, root)
        BY Zenon, <3>1, <4>1 DEF From
      <4>3. PICK x \in From(a, root) : x = CHOOSE c \in From(a, root) : Number[c] = n
        BY Zenon, <4>1, <4>2
      <4>4. JournalAfter(From(a, root))[n] = Entry(x, From(a, root))
        BY Zenon, <4>1, <4>2, <4>3 DEF JournalAfter
      <4>5. x \in Block
        BY Zenon, <2>5, <4>3 DEF From
      <4> QED BY SMTT(30), <4>4, <4>5, GenesisAssumption DEF Entry, NoEntry
    <3>2. CASE n < Number[a]
      <4>1. n <= Number[Base] /\ n \in finalized + 1 .. Number[r]
        BY SMTT(30), <2>5, <2>9, <2>10, <2>11, <3>2
      <4>2. journal[n] # NoEntry
        BY Zenon, <2>4, <2>8, <2>11, <4>1 DEF JournalCoversWindow
      <4>3. ~\E b \in From(a, root) : Number[b] = n
        BY SMTT(30), <2>5, <2>10, <3>2 DEF From
      <4>4. overlay # NoOverlay => n \notin overlay.to .. overlay.from
        <5>1. ASSUME overlay # NoOverlay, n \in overlay.to .. overlay.from PROVE FALSE
          <6>1. PICK to \in Nat : to = overlay.to
            BY Zenon, <1>0 DEF TypeOK, OverlayState
          <6>2. PICK fr \in Nat : fr = overlay.from
            BY Zenon, <1>0 DEF TypeOK, OverlayState
          <6>3. to = Number[Base] + 1 /\ n \in to .. fr
            BY Zenon, <2>9, <5>1, <6>1, <6>2
          <6> QED BY SMTT(30), <2>9, <2>10, <4>1, <6>3
        <5> QED BY Zenon, <5>1
      <4> QED BY Zenon, <4>2, <4>3, <4>4 DEF JournalAfter
    <3> QED BY SMTT(30), <2>5, <2>10, <3>1, <3>2
  <2> QED BY Zenon, <2>2, <2>7, <2>11 DEF JournalCoversWindow
<1> QED BY Zenon, <1>1, <1>2

\* Pruning stops at the finalized number, and takes nothing if that went down.
LEMMA UpdateCovers ==
    ASSUME IInv, JournalCoversWindow, NEW branch, NEW head, NEW fin, NEW prune,
           forkchoice_update(branch, head, fin, prune), finalized' \in Int, finalized' >= finalized,
           UNCHANGED <<disk, stray>>
    PROVE  JournalCoversWindow'
<1>1. journal' = PrunedJournal(finalized') \/ journal' = journal
  BY Zenon DEF forkchoice_update
<1>2. finalized \in Int /\ \A n \in Height : n \in Nat
  BY SMTT(30), GenesisAssumption DEF IInv, TypeOK, Height
<1>3. PICK top : top = Number[disk[RootKey]]
  BY Zenon
<1>4. top \in Nat
  BY Zenon, <1>3, WritesAssumption, GenesisAssumption DEF IInv, TypeOK
<1>5. SUFFICES ASSUME ~stray, NEW n \in Height, n \in finalized' + 1 .. top, n > 0
               PROVE  journal'[n] # NoEntry
  BY Zenon, <1>3 DEF JournalCoversWindow
<1>6. n \in finalized + 1 .. top /\ ~(n <= finalized')
  <2>1. PICK f \in Int : f = finalized
    BY Zenon, <1>2
  <2>2. PICK g \in Int : g = finalized'
    BY Zenon
  <2>3. n \in Nat /\ f <= g /\ n \in g + 1 .. top
    BY ZenonT(60), <1>2, <1>5, <2>1, <2>2
  <2>4. n \in f + 1 .. top /\ ~(n <= g)
    BY <1>4, <2>3
  <2> QED BY Zenon, <2>1, <2>2, <2>4
<1>7. journal[n] # NoEntry
  BY Zenon, <1>3, <1>5, <1>6 DEF JournalCoversWindow
<1> QED BY Zenon, <1>1, <1>5, <1>6, <1>7 DEF PrunedJournal

\* Every step that moves finality forward, or not at all, keeps the window.
LEMMA CoverNext ==
    IInv /\ IInv' /\ JournalCoversWindow /\ [Next]_vars /\ [finalized' >= finalized]_vars
      => JournalCoversWindow'
<1> SUFFICES ASSUME IInv, IInv', JournalCoversWindow, [Next]_vars, [finalized' >= finalized]_vars
             PROVE  JournalCoversWindow'
  BY Zenon
<1>1. finalized \in Int /\ finalized' \in Int /\ finalized' >= finalized
  <2>1. finalized \in Int /\ finalized' \in Int
    BY SMTT(30), GenesisAssumption DEF IInv, TypeOK, Height
  <2> QED BY SMTT(30), <2>1 DEF vars
<1>2. CASE UNCHANGED <<finalized, disk, journal>> /\ (stray' \/ stray' = stray)
  BY Zenon, <1>2 DEF JournalCoversWindow
<1>3. CASE WorkerCommitDue
  <2>1. finalized' = finalized
    BY Zenon, <1>3 DEF WorkerCommitDue, chain_vars
  <2>2. UNCHANGED <<disk, journal, stray>> \/ \E target : commit_to_disk(target)
    BY Zenon, <1>3 DEF WorkerCommitDue
  <2> QED BY Zenon, <1>2, <2>1, <2>2, CommitCovers
<1>4. CASE WorkerCommit
  <2>1. PICK target : target = Head(queue).b
    BY Zenon
  <2>2. finalized' = finalized /\ commit_to_disk(target)
    BY Zenon, <1>4, <2>1 DEF WorkerCommit, chain_vars
  <2> QED BY Zenon, <2>2, CommitCovers
<1>5. CASE \E fc \in FcState : ShallowForkChoice(fc)
  <2>1. \E branch, head, fin, prune : forkchoice_update(branch, head, fin, prune)
    BY Zenon, <1>5 DEF ShallowForkChoice
  <2>2. UNCHANGED <<disk, stray>>
    BY Zenon, <1>5 DEF ShallowForkChoice
  <2> QED BY Zenon, <1>1, <2>1, <2>2, UpdateCovers
<1>6. CASE FinishDeepReorg \/ AdoptHead
  <2>1. \E branch, head, fin, prune : forkchoice_update(branch, head, fin, prune)
    BY Zenon, <1>6 DEF FinishDeepReorg, AdoptHead
  <2>2. UNCHANGED <<disk, stray>>
    BY ZenonT(60), <1>6 DEF FinishDeepReorg, AdoptHead
  <2> QED BY Zenon, <1>1, <2>1, <2>2, UpdateCovers
<1>7. CASE WorkerInstall \/ WorkerWriteFails \/ WorkerPing \/ ExecutePayload
  BY Zenon, <1>2, <1>7 DEF WorkerInstall, WorkerWriteFails, WorkerPing, ExecutePayload, chain_vars, disk_vars
<1>8. CASE \E b \in Block : StashPayload(b) \/ AcceptPayload(b)
  BY Zenon, <1>2, <1>8 DEF StashPayload, AcceptPayload, chain_vars, disk_vars
<1>9. CASE \E fc \in FcState : BeginDeepReorg(fc)
  BY ZenonT(60), <1>2, <1>9 DEF BeginDeepReorg, chain_vars, disk_vars
<1>10. CASE InstallOverlay
  <2>1. UNCHANGED <<finalized, disk, journal>> /\ stray' = (stray \/ disk[RootKey] # pass.base)
    BY Zenon, <1>10 DEF InstallOverlay, chain_vars, disk_vars
  <2> QED BY ZenonT(60), <2>1 DEF JournalCoversWindow
<1>11. CASE ReplayBlock \/ AbortDeepReorg \/ ResetCache \/ Crash
  BY Zenon, <1>2, <1>11 DEF ReplayBlock, AbortDeepReorg, ResetCache, Crash, chain_vars, disk_vars
<1>12. CASE FindState \/ RegenerateBlock \/ RegenerationDone \/ UNCHANGED vars
  BY Zenon, <1>2, <1>12 DEF FindState, RegenerateBlock, RegenerationDone, chain_vars, disk_vars, vars
<1> QED BY Zenon, <1>3, <1>4, <1>5, <1>6, <1>7, <1>8, <1>9, <1>10, <1>11, <1>12
       DEF Next, Worker, Payload, ForkChoiceCall, DeepReorg, Boot

\* As long as the consensus client never moves finality back, every block
\* between the finalized one and the disk has its journal entry, so that a deep
\* reorg to any fork above finality can undo the disk (prune_state_history and
\* the deletions of a reconciliation take no entry that is still needed).
THEOREM JournalCoversWindowAlways == Spec /\ [][finalized' >= finalized]_vars => []JournalCoversWindow
<1>1. Init => JournalCoversWindow
  <2> SUFFICES ASSUME Init, NEW n \in Height, n \in finalized + 1 .. Number[disk[RootKey]], n > 0
               PROVE  FALSE
    BY Zenon DEF JournalCoversWindow
  <2>1. disk[RootKey] = Genesis
    BY Zenon, StateFacts, GenesisAssumption DEF Init
  <2>2. n \in -1 + 1 .. 0
    BY Zenon, <2>1, GenesisAssumption DEF Init
  <2> QED BY <2>2
<1> QED BY <1>1, StoreInvariant, CoverNext, PTL DEF Spec

-----------------------------------------------------------------------------
(* Regenerating the head state after a restart.                            *)

\* The blocks of t's chain between two heights.
Segment(t, lo, hi) == {x \in Anc[t] : lo <= Number[x] /\ Number[x] <= hi}

\* Execution from the disk's block has installed the layers of t's chain up to
\* height done, in order; the block on its way, if any, is the next one.
Regenerating(t, r, done) ==
    /\ t = canonical[latest]
    /\ r = disk[RootKey]
    /\ r \in Anc[t]
    /\ Number[r] <= done
    /\ done <= Number[t]
    /\ layers = Segment(t, Number[r] + 1, done)
    /\ \A b \in layers : older[b] = Segment(t, Number[r] + 1, Number[b] - 1)
    /\ \A i \in 1 .. Len(queue) :
          /\ queue[i].from = "regen"
          /\ \/ queue[i].type = "block" /\ queue[i].b \in Segment(t, done + 1, done + 1)
             \/ queue[i].type = "due"
    /\ pass.pc = "regen" => pass.todo = Segment(t, done + 1, Number[t])
    /\ pass.pc = "sent" => done < Number[t] /\ pass.todo = Segment(t, done + 2, Number[t])

\* The startup code names no head; a deep-reorg pass does.
Booting == pass.head = NoBlock /\ pass.pc \in {"boot", "regen", "sent", "bricked"}

\* A block of the startup code is on its way through the queue.
RegenSent(q) == \E i \in 1 .. Len(q) : q[i].type = "block" /\ q[i].from = "regen"

\* Only the startup code starts, regenerates and gives up.
HeadInv ==
    /\ pass.pc \in {"boot", "regen", "bricked"} => pass.head = NoBlock
    /\ RegenSent(queue) => pass.head = NoBlock

\* What a restart relies on: nothing in memory but the layers it builds, and a
\* start that fails found no canonical block's state on disk.
BootInv ==
    Booting /\ ~stray =>
        /\ overlay = NoOverlay
        /\ exec.pc # "queued"
        /\ pass.pc = "boot" => layers = {} /\ queue = <<>>
        /\ pass.pc = "bricked" =>
              /\ queue = <<>>
              /\ ~is_canonical(canonical, disk[RootKey]) \/ Number[disk[RootKey]] > latest
        /\ pass.pc \in {"regen", "sent"} =>
              \E t \in Block, r \in Block, done \in Nat : Regenerating(t, r, done)

\* The blocks of a chain have numbers.
LEMMA SegmentFacts ==
    ASSUME NEW t \in Block, NEW lo, NEW hi
    PROVE  /\ Segment(t, lo, hi) \in SUBSET Anc[t]
           /\ Segment(t, lo, hi) \in SUBSET Block
           /\ Number[t] \in Nat
           /\ \A x \in Anc[t] : x \in Block /\ Number[x] \in Nat /\ Number[x] <= Number[t]
BY Zenon, SelfAncestor, AncestryAssumption DEF Segment

\* A walk down regenerated layers meets them all.
LEMMA SegmentChain ==
    ASSUME NEW t \in Block, NEW d \in Nat, NEW e \in Nat, layers = Segment(t, d + 1, e), NEW b \in layers
    PROVE  LayerChain(b) = Segment(t, d + 1, Number[b])
<1>1. /\ b \in Anc[t] /\ b \in Block /\ Number[b] \in Nat /\ d + 1 <= Number[b] /\ Number[b] <= e
      /\ Anc[b] \subseteq Anc[t]
      /\ \A x \in Anc[t] : x \in Block /\ Number[x] \in Nat
  BY Zenon, SegmentFacts, AncestryAssumption DEF Segment
<1>2. ASSUME NEW x \in LayerChain(b) PROVE x \in Segment(t, d + 1, Number[b])
  <2>1. x \in Anc[b] /\ \A c \in Anc[b] : Number[c] >= Number[x] => c \in layers
    BY Zenon DEF LayerChain
  <2>2. Number[x] >= Number[x]
    BY <1>1, <2>1
  <2>3. x \in layers /\ Number[x] <= Number[b]
    BY Zenon, <1>1, <2>1, <2>2, AncestryAssumption
  <2> QED BY Zenon, <2>3 DEF Segment
<1>3. ASSUME NEW x \in Segment(t, d + 1, Number[b]) PROVE x \in LayerChain(b)
  <2>1. x \in Anc[t] /\ d + 1 <= Number[x] /\ Number[x] <= Number[b]
    BY Zenon DEF Segment
  <2>2. x \in Anc[b]
    BY Zenon, <1>1, <2>1, AncestryAssumption
  <2>3. ASSUME NEW c \in Anc[b], Number[c] >= Number[x] PROVE c \in layers
    <3>1. c \in Anc[t] /\ Number[c] <= Number[b] /\ Number[c] \in Nat /\ Number[x] \in Nat
      BY Zenon, <1>1, <2>1, AncestryAssumption
    <3>2. d + 1 <= Number[c] /\ Number[c] <= e
      BY <1>1, <2>1, <2>3, <3>1
    <3> QED BY Zenon, <3>1, <3>2 DEF Segment
  <2> QED BY Zenon, <2>2, <2>3 DEF LayerChain
<1> QED BY ZenonT(60), <1>2, <1>3

\* The lowest of them is the child of the block below.
LEMMA SegmentBottom ==
    ASSUME NEW t \in Block, NEW r \in Anc[t], NEW hi \in Nat, Number[r] + 1 <= hi, hi <= Number[t]
    PROVE  \E a \in Segment(t, Number[r] + 1, hi) :
              /\ Parent[a] = r /\ a # Genesis /\ Number[a] = Number[r] + 1
              /\ \A c \in Segment(t, Number[r] + 1, hi) : Number[a] <= Number[c]
<1>1. r \in Block /\ Number[r] \in Nat /\ Number[t] \in Nat
  BY Zenon, SegmentFacts
<1>2. Number[r] + 1 \in 0 .. Number[t]
  BY <1>1
<1>3. PICK a \in Anc[t] : Number[a] = Number[r] + 1
  BY Zenon, <1>2, AncestryAssumption
<1>4. a \in Block /\ a # Genesis
  BY <1>1, <1>3, SegmentFacts, GenesisAssumption
<1>5. Parent[a] \in Block /\ Number[a] = Number[Parent[a]] + 1 /\ Number[Parent[a]] \in Nat /\ Parent[a] \in Anc[t]
  <2>1. Parent[a] \in Block /\ Number[a] = Number[Parent[a]] + 1
    BY Zenon, <1>4, ParentAssumption
  <2>2. Parent[a] \in Anc[a] /\ Anc[a] \subseteq Anc[t]
    BY SMTT(30), <1>3, <1>4, <2>1, AncestorAssumption, AncestryAssumption, SelfAncestor
  <2> QED BY Zenon, <2>1, <2>2, SelfAncestor
<1>6. Number[Parent[a]] = Number[r]
  BY <1>1, <1>3, <1>5
<1>7. Parent[a] = r
  BY Zenon, <1>5, <1>6, AncestryAssumption
<1>8. a \in Segment(t, Number[r] + 1, hi)
  BY <1>1, <1>3 DEF Segment
<1>9. \A c \in Segment(t, Number[r] + 1, hi) : Number[a] <= Number[c]
  BY Zenon, <1>3 DEF Segment
<1> QED BY Zenon, <1>3, <1>4, <1>7, <1>8, <1>9

\* The last regenerated block is readable.
LEMMA RegeneratedReads ==
    ASSUME IInv, ~stray, overlay = NoOverlay, NEW t \in Block, NEW r \in Block, NEW done \in Nat,
           Regenerating(t, r, done), NEW x \in Anc[t], Number[x] = done
    PROVE  \A k \in Key : Read(x, k) = State[x][k]
<1>1. Base = r /\ r \in Anc[t] /\ Number[r] <= done /\ done <= Number[t] /\ layers = Segment(t, Number[r] + 1, done)
  BY Zenon DEF Base, Regenerating
<1>2. x \in Block /\ Number[r] \in Nat
  BY Zenon, <1>1, SegmentFacts
<1>3. Anchored(x)
  <2>1. CASE Number[r] = done
    <3>1. x = r
      BY Zenon, <1>1, <2>1, AncestryAssumption
    <3>2. x \notin layers
      BY <1>1, <1>2, <2>1 DEF Segment
    <3> QED BY ZenonT(60), <1>1, <3>1, <3>2 DEF Anchored
  <2>2. CASE Number[r] # done
    <3>1. Number[r] + 1 <= done
      BY <1>1, <1>2, <2>2
    <3>2. x \in layers
      BY <1>1, <3>1 DEF Segment
    <3>3. LayerChain(x) = Segment(t, Number[r] + 1, done)
      BY <1>1, <1>2, <3>2, SegmentChain
    <3>4. PICK a \in Segment(t, Number[r] + 1, done) :
             Parent[a] = r /\ \A c \in Segment(t, Number[r] + 1, done) : Number[a] <= Number[c]
      BY <1>1, <3>1, SegmentBottom
    <3> QED BY Zenon, <1>1, <3>2, <3>3, <3>4 DEF Anchored, RestsOnBase
  <2> QED BY Zenon, <2>1, <2>2
<1> QED BY Zenon, <1>2, <1>3, ReadsFollow DEF IInv, AnchoredReads

\* A commit while the state is regenerated moves the disk up the canonical chain
\* and leaves the layers above.
LEMMA RegenerateCommit ==
    ASSUME IInv, ~stray, overlay = NoOverlay, NEW t \in Block, NEW r \in Block, NEW done \in Nat,
           Regenerating(t, r, done), NEW target \in layers, commit_to_disk(target)
    PROVE  /\ ~stray' /\ overlay' = NoOverlay
           /\ disk'[RootKey] = target /\ target \in Anc[t]
           /\ Number[target] <= done
           /\ layers' = Segment(t, Number[target] + 1, done)
           /\ \A b \in layers' : older'[b] = Segment(t, Number[target] + 1, Number[b] - 1)
<1>0. /\ TypeOK /\ TableInv /\ DiskInv /\ layers \in SUBSET Block /\ Genesis \notin layers
      /\ Base = r /\ r \in Anc[t] /\ Number[r] <= done /\ done <= Number[t]
      /\ layers = Segment(t, Number[r] + 1, done)
      /\ \A b \in layers : older[b] = Segment(t, Number[r] + 1, Number[b] - 1)
  BY Zenon DEF IInv, TypeOK, TableInv, Base, Regenerating
<1>1. /\ target \in Anc[t] /\ target \in Block /\ Number[target] \in Nat /\ Number[r] + 1 <= Number[target]
      /\ Number[target] <= done /\ Number[r] \in Nat
      /\ \A x \in Anc[t] : x \in Block /\ Number[x] \in Nat
  BY ZenonT(60), <1>0, SegmentFacts DEF Segment
<1>2. LayerChain(target) = Segment(t, Number[r] + 1, Number[target])
  BY Zenon, <1>0, <1>1, SegmentChain
<1>3. PICK a \in LayerChain(target) :
         Parent[a] = r /\ a # Genesis /\ \A c \in LayerChain(target) : Number[a] <= Number[c]
  <2>1. Number[target] <= Number[t]
    BY ZenonT(60), <1>1, SegmentFacts
  <2> QED BY <1>0, <1>1, <1>2, <2>1, SegmentBottom
<1>4. LayerChain(target) = From(a, target) /\ a \in Anc[target]
  BY ZenonT(60), <1>0, <1>3, ChainFacts
<1>5. /\ disk' = DiskAfter(LayerChain(target))
      /\ Commit(target, LayerChain(target))
      /\ overlay' = NoOverlay
      /\ stray' = (stray \/ ~RestsOnBase(LayerChain(target)))
  BY Zenon DEF commit_to_disk
<1>6. ~stray'
  BY ZenonT(60), <1>0, <1>3, <1>5 DEF RestsOnBase
<1>7. disk'[RootKey] = target
  <2>1. DiskAfter(From(a, target)) = State[target]
    BY ZenonT(60), <1>0, <1>1, <1>3, <1>4, CommitMoves
  <2> QED BY Zenon, <1>1, <1>4, <1>5, <2>1, StateFacts
<1> DEFINE kept == {b \in layers \ LayerChain(target) : target \in older[b]}
<1>8. layers' = kept /\ older' = [b \in Block |-> IF b \in kept THEN older[b] \cap kept ELSE {}]
  BY Zenon, <1>5 DEF Commit
<1>9. kept = Segment(t, Number[target] + 1, done)
  <2>1. ASSUME NEW b \in kept PROVE b \in Segment(t, Number[target] + 1, done)
    <3>1. b \in Anc[t] /\ Number[b] <= done /\ Number[r] + 1 <= Number[b] /\ Number[b] \in Nat
      BY Zenon, <1>0, <1>1 DEF Segment
    <3>2. ~(Number[b] <= Number[target])
      BY Zenon, <1>2, <3>1 DEF Segment
    <3>3. Number[target] + 1 <= Number[b]
      BY <1>1, <3>1, <3>2
    <3> QED BY Zenon, <3>1, <3>3 DEF Segment
  <2>2. ASSUME NEW b \in Segment(t, Number[target] + 1, done) PROVE b \in kept
    <3>1. b \in Anc[t] /\ Number[b] <= done /\ Number[target] + 1 <= Number[b] /\ Number[b] \in Nat
      BY Zenon, <1>1 DEF Segment
    <3>2. Number[r] + 1 <= Number[b] /\ ~(Number[b] <= Number[target]) /\ Number[target] <= Number[b] - 1
      BY <1>1, <3>1
    <3>3. b \in layers /\ b \notin LayerChain(target)
      BY ZenonT(60), <1>0, <1>2, <3>1, <3>2 DEF Segment
    <3>4. target \in older[b]
      BY Zenon, <1>0, <1>1, <3>2, <3>3 DEF Segment
    <3> QED BY Zenon, <3>3, <3>4
  <2> QED BY Zenon, <2>1, <2>2
<1> HIDE DEF kept
<1>10. ASSUME NEW b \in kept PROVE older'[b] = Segment(t, Number[target] + 1, Number[b] - 1)
  <2>1. b \in Anc[t] /\ Number[b] <= done /\ Number[target] + 1 <= Number[b] /\ Number[b] \in Nat /\ b \in Block
    BY ZenonT(60), <1>1, <1>9 DEF Segment
  <2>2. Number[r] + 1 <= Number[b]
    BY <1>1, <2>1
  <2>3. older[b] = Segment(t, Number[r] + 1, Number[b] - 1)
    BY ZenonT(60), <1>0, <2>1, <2>2 DEF Segment
  <2>4. older'[b] = older[b] \cap kept
    BY Zenon, <1>8, <2>1
  <2>5. ASSUME NEW x \in Anc[t]
        PROVE  (x \in older[b] /\ x \in kept) <=> x \in Segment(t, Number[target] + 1, Number[b] - 1)
    <3>1. Number[x] \in Nat
      BY Zenon, <1>1
    <3>2. /\ x \in older[b] <=> Number[r] + 1 <= Number[x] /\ Number[x] <= Number[b] - 1
          /\ x \in kept <=> Number[target] + 1 <= Number[x] /\ Number[x] <= done
          /\ x \in Segment(t, Number[target] + 1, Number[b] - 1)
               <=> Number[target] + 1 <= Number[x] /\ Number[x] <= Number[b] - 1
      BY Zenon, <1>9, <2>3 DEF Segment
    <3> QED BY <1>1, <2>1, <3>1, <3>2
  <2> QED BY ZenonT(60), <2>3, <2>4, <2>5 DEF Segment
<1> QED BY ZenonT(60), <1>1, <1>5, <1>6, <1>7, <1>8, <1>9, <1>10

\* The next block to execute is the child of the last one, and it can be executed.
LEMMA NextToRegenerate ==
    ASSUME IInv, ~stray, overlay = NoOverlay, NEW t \in Block, NEW r \in Block, NEW done \in Nat,
           Regenerating(t, r, done), pass.pc = "regen", pass.todo # {}
    PROVE  /\ LowestTodo \in Segment(t, done + 1, done + 1)
           /\ done < Number[t]
           /\ pass.todo \ {LowestTodo} = Segment(t, done + 2, Number[t])
           /\ Executable(LowestTodo)
<1>1. pass.todo = Segment(t, done + 1, Number[t]) /\ Number[t] \in Nat
  BY ZenonT(60), SegmentFacts DEF Regenerating
<1>2. PICK l \in Block \ {Genesis} : l = LowestTodo /\ l \in pass.todo
  BY Zenon, LowestTodoType
<1>3. l \in Anc[t] /\ done + 1 <= Number[l] /\ Number[l] <= Number[t] /\ Number[l] \in Nat
  BY ZenonT(60), <1>1, <1>2, SegmentFacts DEF Segment
<1>4. \A c \in pass.todo : Number[l] <= Number[c]
  <2>1. PICK S \in SUBSET Block : S = pass.todo /\ S # {}
    BY Zenon, ControlFacts
  <2>2. PICK a \in S : \A c \in S : Number[a] <= Number[c]
    BY Zenon, <2>1, LowestBlock
  <2> QED BY Zenon, <1>2, <2>1, <2>2 DEF LowestTodo
<1>5. Number[l] = done + 1 /\ done < Number[t]
  <2>1. done + 1 \in 0 .. Number[t]
    BY <1>1, <1>3
  <2>2. PICK c \in Anc[t] : Number[c] = done + 1
    BY <2>1, AncestryAssumption
  <2>3. c \in pass.todo
    BY <1>1, <2>1, <2>2 DEF Segment
  <2>4. Number[l] <= done + 1
    BY Zenon, <1>4, <2>2, <2>3
  <2> QED BY <1>1, <1>3, <2>4
<1>6. l \in Segment(t, done + 1, done + 1)
  BY Zenon, <1>3, <1>5 DEF Segment
<1>7. pass.todo \ {l} = Segment(t, done + 2, Number[t])
  <2>1. ASSUME NEW x \in Anc[t]
        PROVE  x \in Segment(t, done + 1, Number[t]) \ {l} <=> x \in Segment(t, done + 2, Number[t])
    <3>1. x \in Segment(t, done + 1, Number[t]) <=> done + 1 <= Number[x] /\ Number[x] <= Number[t]
      BY Zenon DEF Segment
    <3>2. x \in Segment(t, done + 2, Number[t]) <=> done + 2 <= Number[x] /\ Number[x] <= Number[t]
      BY Zenon DEF Segment
    <3>3. x = l <=> Number[x] = done + 1
      BY Zenon, <1>3, <1>5, AncestryAssumption
    <3>4. Number[x] \in Nat
      BY Zenon, SegmentFacts
    <3> QED BY <3>1, <3>2, <3>3, <3>4
  <2> QED BY Zenon, <1>1, <2>1 DEF Segment
<1>8. Executable(l)
  <2>1. Parent[l] \in Block /\ Number[l] = Number[Parent[l]] + 1 /\ Parent[l] \in Anc[t] /\ Number[Parent[l]] \in Nat
    <3>1. Parent[l] \in Block /\ Number[l] = Number[Parent[l]] + 1
      BY Zenon, ParentAssumption
    <3>2. Parent[l] \in Anc[l] /\ Anc[l] \subseteq Anc[t]
      BY SMTT(30), <1>3, <3>1, AncestorAssumption, AncestryAssumption, SelfAncestor
    <3> QED BY Zenon, <3>1, <3>2, SelfAncestor
  <2>2. Number[Parent[l]] = done
    BY <1>5, <2>1
  <2>3. \A k \in Key : Read(Parent[l], k) = State[Parent[l]][k]
    BY <2>1, <2>2, RegeneratedReads
  <2> QED BY ZenonT(60), <2>3, WritesAssumption DEF Executable
<1> QED BY Zenon, <1>2, <1>5, <1>6, <1>7, <1>8

\* A commit of the worker never targets more than a layer.
LEMMA DueTarget ==
    ASSUME IInv, WorkerCommitDue
    PROVE  \/ UNCHANGED <<disk, journal, layers, older, overlay, stray>>
           \/ \E target \in layers : commit_to_disk(target)
<1> DEFINE parent == Parent[Head(queue).b]
           due == IF Head(queue).from = "regen"
                  THEN get_commitable_by_depth(parent) ELSE get_commitable(parent)
<1>1. IF due = {} THEN UNCHANGED <<disk, journal, layers, older, overlay, stray>>
                  ELSE commit_to_disk(CHOOSE root \in due : TRUE)
  BY Zenon DEF WorkerCommitDue
<1>2. due \in SUBSET layers
  <2>1. LayerChain(parent) \in SUBSET layers
    <3>1. layers \in SUBSET Block /\ Genesis \notin layers
      BY Zenon DEF IInv, TypeOK, TableInv
    <3> HIDE DEF parent
    <3>2. CASE parent \in layers
      <4>1. PICK b \in layers : b = parent
        BY Zenon, <3>2
      <4>2. LayerChain(b) \in SUBSET (Anc[b] \cap layers)
        BY Zenon, <3>1, ChainFacts
      <4> QED BY Zenon, <4>1, <4>2
    <3>3. CASE parent \notin layers
      BY Zenon, <3>3 DEF LayerChain
    <3> QED BY Zenon, <3>2, <3>3
  <2> HIDE DEF parent
  <2> QED BY Zenon, <2>1 DEF get_commitable, get_commitable_by_depth
<1> HIDE DEF due
<1>3. CASE due = {}
  BY Zenon, <1>1, <1>3
<1>4. CASE due # {}
  <2>1. PICK target \in due : target = CHOOSE root \in due : TRUE
    BY Zenon, <1>4
  <2> QED BY Zenon, <1>1, <1>2, <1>4, <2>1
<1> QED BY Zenon, <1>3, <1>4

\* Messages left in the queue once the one in hand is done.
LEMMA TailMessages ==
    ASSUME NEW q \in Seq(Message), q # <<>>
    PROVE  /\ Head(q) = q[1] /\ 1 \in 1 .. Len(q)
           /\ Head(q) \in Message /\ Tail(q) \in Seq(Message)
           /\ \A i \in 1 .. Len(Tail(q)) : i + 1 \in 1 .. Len(q) /\ i + 1 # 1 /\ Tail(q)[i] = q[i + 1]
<1>1. PICK k \in Nat : k = Len(q)
  OBVIOUS
<1>2. /\ Tail(q) \in Seq(Message) /\ Len(Tail(q)) = k - 1 /\ k >= 1 /\ Head(q) = q[1] /\ Head(q) \in Message
      /\ \A i \in 1 .. k - 1 : Tail(q)[i] = q[i + 1]
  BY <1>1
<1>3. \A i \in 1 .. k - 1 : i + 1 \in 1 .. k /\ i + 1 # 1
  OBVIOUS
<1> QED BY <1>1, <1>2, <1>3

\* The worker's second half while the state is regenerated.
LEMMA BootCommits ==
    ASSUME IInv, BootInv, Booting, ~stray, pass.pc \in {"regen", "sent"}, WorkerCommitDue
    PROVE  /\ ~stray' /\ overlay' = NoOverlay
           /\ \E t \in Block, r \in Block, done \in Nat : Regenerating(t, r, done)'
<1>1. PICK t \in Block, r \in Block, done \in Nat : Regenerating(t, r, done)
  BY Zenon DEF BootInv
<1>2. overlay = NoOverlay
  BY Zenon DEF BootInv
<1>3. /\ queue # <<>> /\ queue' = Tail(queue) /\ UNCHANGED <<canonical, latest, pass>>
  BY Zenon DEF WorkerCommitDue, chain_vars
<1>4. PICK q \in Seq(Message) : q = queue /\ q # <<>>
  BY Zenon, <1>3, ControlFacts
<1>5. \A i \in 1 .. Len(queue') :
          /\ queue'[i].from = "regen"
          /\ \/ queue'[i].type = "block" /\ queue'[i].b \in Segment(t, done + 1, done + 1)
             \/ queue'[i].type = "due"
  <2>1. \A i \in 1 .. Len(q) :
          /\ q[i].from = "regen"
          /\ \/ q[i].type = "block" /\ q[i].b \in Segment(t, done + 1, done + 1)
             \/ q[i].type = "due"
    BY ZenonT(60), <1>1, <1>4 DEF Regenerating
  <2> QED BY <1>3, <1>4, <2>1, TailMessages
<1>6. CASE UNCHANGED <<disk, journal, layers, older, overlay, stray>>
  <2>1. Regenerating(t, r, done)'
    BY ZenonT(60), <1>1, <1>3, <1>5, <1>6 DEF Regenerating
  <2> QED BY Zenon, <1>2, <1>6, <2>1
<1>7. CASE \E target \in layers : commit_to_disk(target)
  <2>1. PICK target \in layers : commit_to_disk(target)
    BY Zenon, <1>7
  <2>2. /\ ~stray' /\ overlay' = NoOverlay
        /\ disk'[RootKey] = target /\ target \in Anc[t] /\ Number[target] <= done
        /\ layers' = Segment(t, Number[target] + 1, done)
        /\ \A b \in layers' : older'[b] = Segment(t, Number[target] + 1, Number[b] - 1)
    BY ZenonT(60), <1>1, <1>2, <2>1, RegenerateCommit
  <2>3. Regenerating(t, target, done)'
    BY ZenonT(60), <1>1, <1>3, <1>5, <2>2 DEF Regenerating
  <2>4. target \in Block
    BY Zenon DEF IInv, TypeOK
  <2> QED BY ZenonT(60), <2>2, <2>3, <2>4
<1> QED BY Zenon, <1>6, <1>7, DueTarget

\* The next block's layer is installed on top.
LEMMA BootInstalls ==
    ASSUME IInv, BootInv, Booting, ~stray, pass.pc \in {"regen", "sent"}, WorkerInstall
    PROVE  /\ pass'.pc \in {"regen", "down"} /\ UNCHANGED overlay /\ exec'.pc # "queued"
           /\ pass'.pc = "regen" =>
                 \E t \in Block, r \in Block, done \in Nat : Regenerating(t, r, done)'
<1>1. PICK t \in Block, r \in Block, done \in Nat : Regenerating(t, r, done)
  BY Zenon DEF BootInv
<1>2. PICK q \in Seq(Message) : q = queue /\ q # <<>>
  BY Zenon, ControlFacts DEF WorkerInstall
<1>3. PICK h \in Message : h = Head(q)
  BY SMTT(30), <1>2
<1>4. /\ h.type = "block" /\ layers' = layers \cup {h.b}
      /\ older' = (IF h.b \in layers THEN older ELSE [older EXCEPT ![h.b] = layers])
      /\ queue' = <<[Head(q) EXCEPT !.type = "due"]>> \o Tail(q)
      /\ Acked(h.from)
      /\ UNCHANGED <<canonical, latest, overlay, disk, stray>>
  BY Zenon, <1>2, <1>3 DEF WorkerInstall, disk_vars
<1>5. \A i \in 1 .. Len(q) :
          /\ q[i].from = "regen"
          /\ \/ q[i].type = "block" /\ q[i].b \in Segment(t, done + 1, done + 1)
             \/ q[i].type = "due"
  BY ZenonT(60), <1>1, <1>2 DEF Regenerating
<1>6. Head(q) = q[1] /\ 1 \in 1 .. Len(q)
  BY Zenon, <1>2, TailMessages
<1>7. h.from = "regen" /\ h.b \in Segment(t, done + 1, done + 1)
  BY ZenonT(60), <1>3, <1>4, <1>5, <1>6
<1>8. pass' = [pass EXCEPT !.pc = "regen"] \/ pass' = [pass EXCEPT !.pc = "down"]
  BY Zenon, <1>4, <1>7 DEF Acked
<1>9. pass \in PassState
  BY ZenonT(60), ControlFacts
<1>10. exec' = exec
  BY Zenon, <1>4, <1>7 DEF Acked
<1>11. exec'.pc # "queued" /\ pass'.pc \in {"regen", "down"} /\ pass'.todo = pass.todo
  BY Zenon, <1>8, <1>9, <1>10 DEF BootInv, PassState
<1>12. PICK p : p = pass
  BY Zenon
<1>13. QueueInv(q, p)
  BY Zenon, <1>2, <1>12, ControlFacts
<1>14. pass.pc = "sent"
  BY ZenonT(60), <1>3, <1>4, <1>6, <1>7, <1>12, <1>13 DEF QueueInv, MsgOK
<1>15. /\ t = canonical[latest] /\ r = disk[RootKey] /\ r \in Anc[t] /\ Number[r] <= done
       /\ layers = Segment(t, Number[r] + 1, done)
       /\ \A b \in layers : older[b] = Segment(t, Number[r] + 1, Number[b] - 1)
       /\ done < Number[t] /\ pass.todo = Segment(t, done + 2, Number[t])
  BY ZenonT(60), <1>1, <1>14 DEF Regenerating
<1>16. PICK b \in Anc[t] : b = h.b /\ Number[b] = done + 1
  <2>1. h.b \in Anc[t] /\ done + 1 <= Number[h.b] /\ Number[h.b] <= done + 1
    BY Zenon, <1>7 DEF Segment
  <2>2. Number[h.b] \in Nat
    BY Zenon, <2>1, SegmentFacts
  <2> QED BY <2>1, <2>2
<1>17. b \in Block /\ Number[r] \in Nat /\ Number[t] \in Nat /\ \A x \in Anc[t] : Number[x] \in Nat
  BY ZenonT(60), <1>15, SegmentFacts
<1>18. b \notin layers
  BY SMTT(30), <1>15, <1>16 DEF Segment
<1>19. layers' = Segment(t, Number[r] + 1, done + 1)
  <2>1. ASSUME NEW x \in Anc[t]
        PROVE  x \in Segment(t, Number[r] + 1, done) \cup {b} <=> x \in Segment(t, Number[r] + 1, done + 1)
    <3>1. x \in Segment(t, Number[r] + 1, done) <=> Number[r] + 1 <= Number[x] /\ Number[x] <= done
      BY Zenon DEF Segment
    <3>2. x \in Segment(t, Number[r] + 1, done + 1) <=> Number[r] + 1 <= Number[x] /\ Number[x] <= done + 1
      BY Zenon DEF Segment
    <3>3. x = b <=> Number[x] = done + 1
      BY SMTT(30), <1>16, AncestryAssumption
    <3>4. Number[x] \in Nat /\ Number[r] + 1 <= done + 1
      BY SMTT(30), <1>15, <1>17
    <3> QED BY SMTT(30), <1>17, <3>1, <3>2, <3>3, <3>4
  <2>2. layers' = Segment(t, Number[r] + 1, done) \cup {b}
    BY ZenonT(60), <1>4, <1>15, <1>16
  <2> QED BY Zenon, <2>1, <2>2 DEF Segment
<1>20. older' = [older EXCEPT ![b] = layers] /\ older \in [Block -> SUBSET Block]
  BY ZenonT(60), <1>4, <1>16, <1>18 DEF IInv, TypeOK
<1>21. ASSUME NEW x \in layers' PROVE older'[x] = Segment(t, Number[r] + 1, Number[x] - 1)
  <2>1. CASE x = b
    <3>1. Number[x] - 1 = done
      BY SMTT(30), <1>16, <1>17, <2>1
    <3> QED BY Zenon, <1>15, <1>17, <1>20, <2>1, <3>1
  <2>2. CASE x # b
    <3>1. x \in layers
      BY Zenon, <1>4, <1>16, <2>2
    <3>2. x \in Block
      BY ZenonT(60), <3>1 DEF IInv, TypeOK
    <3> QED BY Zenon, <1>15, <1>20, <2>2, <3>1, <3>2
  <2> QED BY ZenonT(60), <2>1, <2>2
<1>22. \A i \in 1 .. Len(queue') : queue'[i].from = "regen" /\ queue'[i].type = "due"
  <2>1. PICK d : d = [Head(q) EXCEPT !.type = "due"]
    BY Zenon
  <2>2. d.type = "due" /\ d.from = "regen" /\ d \in Message
    BY Zenon, <1>3, <1>7, <2>1 DEF Message
  <2>3. PICK u \in Seq(Message) : u = Tail(q)
    BY ZenonT(60), <1>2, TailMessages
  <2>4. \A i \in 1 .. Len(u) : u[i].from = "regen" /\ u[i].type = "due"
    <3>1. ASSUME NEW i \in 1 .. Len(u) PROVE u[i].from = "regen" /\ u[i].type = "due"
      <4>1. i + 1 \in 1 .. Len(q) /\ i + 1 # 1 /\ u[i] = q[i + 1]
        BY Zenon, <1>2, <2>3, TailMessages
      <4>2. ~(Owed(q[1]) /\ Owed(q[i + 1]))
        BY Zenon, <1>6, <1>13, <4>1 DEF QueueInv
      <4>3. Owed(q[1])
        BY Zenon, <1>3, <1>4, <1>6, <1>7 DEF Owed
      <4> QED BY Zenon, <1>5, <4>1, <4>2, <4>3 DEF Owed
    <3> QED BY Zenon, <3>1
  <2>5. queue' = <<d>> \o u
    BY Zenon, <1>4, <2>1, <2>3
  <2>6. PICK k \in Nat : k = Len(u)
    OBVIOUS
  <2>7. /\ Len(<<d>> \o u) = k + 1 /\ (<<d>> \o u)[1] = d
        /\ \A i \in 2 .. k + 1 : (<<d>> \o u)[i] = u[i - 1]
    BY <2>2, <2>6
  <2>8. ASSUME NEW i \in 1 .. k + 1 PROVE (<<d>> \o u)[i].from = "regen" /\ (<<d>> \o u)[i].type = "due"
    <3>1. CASE i = 1
      BY Zenon, <2>2, <2>7, <3>1
    <3>2. CASE i # 1
      <4>1. i \in 2 .. k + 1 /\ i - 1 \in 1 .. k
        BY <3>2
      <4> QED BY Zenon, <2>4, <2>6, <2>7, <4>1
    <3> QED BY ZenonT(60), <3>1, <3>2
  <2> QED BY ZenonT(60), <2>5, <2>7, <2>8
<1>23. ASSUME pass'.pc = "regen" PROVE Regenerating(t, r, done + 1)'
  <2>1. /\ Number[r] <= done + 1 /\ done + 1 <= Number[t] /\ (done + 1) + 1 = done + 2
    BY <1>15, <1>17
  <2>2. pass'.todo = Segment(t, (done + 1) + 1, Number[t])
    BY Zenon, <1>11, <1>15, <2>1
  <2> QED BY ZenonT(60), <1>4, <1>15, <1>19, <1>21, <1>22, <1>23, <2>1, <2>2 DEF Regenerating
<1>24. done + 1 \in Nat
  OBVIOUS
<1> QED BY ZenonT(60), <1>4, <1>11, <1>23, <1>24

\* What the startup code has sent leaves the queue with the message.
LEMMA RegenTaken ==
    ASSUME NEW q \in Seq(Message), q # <<>>
    PROVE  /\ RegenSent(Tail(q)) => RegenSent(q)
           /\ RegenSent(<<[Head(q) EXCEPT !.type = "due"]>> \o Tail(q)) => RegenSent(q)
           /\ Head(q).type = "block" /\ Head(q).from = "regen" => RegenSent(q)
<1>1. RegenSent(Tail(q)) => RegenSent(q)
  BY Zenon, TailMessages DEF RegenSent
<1>2. PICK u \in Seq(Message) : u = Tail(q)
  BY Zenon, TailMessages
<1>30. PICK d : d = [Head(q) EXCEPT !.type = "due"]
  BY Zenon
<1>3. d \in Message /\ d = [Head(q) EXCEPT !.type = "due"] /\ d.type = "due"
  <2>1. Head(q) \in Message
    BY Zenon, TailMessages
  <2> QED BY Zenon, <1>30, <2>1 DEF Message
<1>4. RegenSent(<<d>> \o u) => RegenSent(u)
  <2>1. PICK k \in Nat : k = Len(u)
    OBVIOUS
  <2>2. /\ Len(<<d>> \o u) = k + 1 /\ (<<d>> \o u)[1] = d
        /\ \A i \in 2 .. k + 1 : (<<d>> \o u)[i] = u[i - 1]
    BY <2>1
  <2>3. ASSUME NEW i \in 1 .. k + 1, (<<d>> \o u)[i].type = "block", (<<d>> \o u)[i].from = "regen"
        PROVE  RegenSent(u)
    <3>0. i # 1
      BY ZenonT(60), <1>3, <2>2, <2>3
    <3>1. i \in 2 .. k + 1 /\ i - 1 \in 1 .. k
      BY <3>0
    <3> QED BY Zenon, <2>1, <2>2, <2>3, <3>1 DEF RegenSent
  <2> QED BY ZenonT(60), <2>2, <2>3 DEF RegenSent
<1>5. Head(q).type = "block" /\ Head(q).from = "regen" => RegenSent(q)
  BY Zenon, TailMessages DEF RegenSent
<1> QED BY Zenon, <1>1, <1>2, <1>3, <1>4, <1>5

\* A message sent by someone else changes nothing for the startup code.
LEMMA RegenSends ==
    ASSUME NEW q \in Seq(Message), NEW m \in Message, RegenSent(Append(q, m))
    PROVE  RegenSent(q) \/ (m.type = "block" /\ m.from = "regen")
<1>1. PICK k \in Nat : k = Len(q)
  OBVIOUS
<1>2. /\ Len(Append(q, m)) = k + 1 /\ Append(q, m)[k + 1] = m
      /\ \A i \in 1 .. k : Append(q, m)[i] = q[i]
  BY <1>1
<1>3. PICK i \in 1 .. k + 1 : Append(q, m)[i].type = "block" /\ Append(q, m)[i].from = "regen"
  BY Zenon, <1>2 DEF RegenSent
<1>4. CASE i = k + 1
  BY Zenon, <1>2, <1>3, <1>4
<1>5. CASE i # k + 1
  <2>1. i \in 1 .. k
    BY <1>5
  <2> QED BY Zenon, <1>1, <1>2, <1>3, <2>1 DEF RegenSent
<1> QED BY Zenon, <1>4, <1>5

\* The startup code waits for what it has sent.
LEMMA RegenWaits == IInv /\ RegenSent(queue) => pass.pc = "sent"
BY Zenon DEF IInv, PassInv, QueueInv, MsgOK, RegenSent

\* A commit message a fork choice sends is no block.
LEMMA UpdateSends ==
    ASSUME IInv, NEW branch, NEW head, NEW fin, NEW prune, forkchoice_update(branch, head, fin, prune),
           RegenSent(queue')
    PROVE  RegenSent(queue)
<1> DEFINE root == compute_safe_commit_root(CanonicalAfter(canonical, latest, branch, head), Threshold, head)
<1>1. queue' = queue \/ queue' = Append(queue, Msg("commit", root, "fcu"))
  BY Zenon DEF forkchoice_update
<1> HIDE DEF root
<1>2. CASE queue' = queue
  BY Zenon, <1>2
<1>3. CASE queue' = Append(queue, Msg("commit", root, "fcu"))
  <2>1. PICK k \in Nat : k = Len(queue)
    BY ControlFacts
  <2>2. PICK m : m = Msg("commit", root, "fcu")
    BY Zenon
  <2>3. queue' = Append(queue, m) /\ queue \in Seq(Message) /\ m.type = "commit"
    BY ZenonT(60), <1>3, <2>2, ControlFacts DEF Msg
  <2>4. /\ Len(queue') = k + 1 /\ queue'[k + 1] = m
        /\ \A i \in 1 .. k : queue'[i] = queue[i]
    BY <2>1, <2>3
  <2>5. PICK i \in 1 .. k + 1 : queue'[i].type = "block" /\ queue'[i].from = "regen"
    BY Zenon, <2>4 DEF RegenSent
  <2>6. i \in 1 .. k
    BY <2>3, <2>4, <2>5
  <2> QED BY Zenon, <2>1, <2>4, <2>5, <2>6 DEF RegenSent
<1> QED BY Zenon, <1>1, <1>2, <1>3

\* Only the startup code regenerates: every step keeps that.
LEMMA HeadNext == IInv /\ HeadInv /\ [Next]_vars => HeadInv'
<1> SUFFICES ASSUME IInv, HeadInv, [Next]_vars PROVE HeadInv'
  BY Zenon
<1>0. queue \in Seq(Message) /\ pass \in PassState
  BY Zenon, ControlFacts
<1>1. CASE WorkerInstall
  <2>1. /\ queue # <<>> /\ Head(queue).type = "block" /\ Acked(Head(queue).from)
        /\ queue' = <<[Head(queue) EXCEPT !.type = "due"]>> \o Tail(queue)
    BY Zenon, <1>1 DEF WorkerInstall
  <2>2. /\ pass'.head = pass.head
        /\ pass'.pc \in {"replay", "abort", "down"} \/ pass'.pc = pass.pc
           \/ (pass'.pc = "regen" /\ Head(queue).from = "regen")
    BY Zenon, <1>0, <2>1 DEF Acked, PassState
  <2>3. PICK q \in Seq(Message) : q = queue
    BY Zenon, <1>0
  <2> QED BY ZenonT(60), <2>1, <2>2, <2>3, RegenTaken DEF HeadInv
<1>2. CASE WorkerCommitDue \/ WorkerCommit \/ WorkerWriteFails
  <2>1. queue # <<>> /\ queue' = Tail(queue) /\ pass' = pass
    BY Zenon, <1>2 DEF WorkerCommitDue, WorkerCommit, WorkerWriteFails
  <2>2. PICK q \in Seq(Message) : q = queue
    BY Zenon, <1>0
  <2> QED BY ZenonT(60), <2>1, <2>2, RegenTaken DEF HeadInv
<1>3. CASE WorkerPing
  <2>1. queue # <<>> /\ queue' = Tail(queue)
        /\ (pass' = NoPass \/ pass' = [pass EXCEPT !.pc = "swap"] \/ pass' = [pass EXCEPT !.pc = "reset"])
    BY Zenon, <1>3 DEF WorkerPing
  <2>2. PICK q \in Seq(Message) : q = queue
    BY Zenon, <1>0
  <2>3. pass'.head \in {NoBlock, pass.head} /\ pass'.pc \in {"idle", "swap", "reset"}
    BY <1>0, <2>1 DEF NoPass, PassState
  <2> QED BY ZenonT(60), <2>1, <2>2, <2>3, RegenTaken DEF HeadInv
<1>4. CASE (\E b \in Block : StashPayload(b) \/ AcceptPayload(b)) \/ UNCHANGED vars
  <2>1. UNCHANGED <<queue, pass>>
    BY Zenon, <1>4 DEF StashPayload, AcceptPayload, vars
  <2> QED BY Zenon, <2>1 DEF HeadInv
<1>5. CASE ExecutePayload
  <2>1. pass' = pass /\ (queue' = queue \/ queue' = Append(queue, Msg("block", exec.b, "payload")))
    BY Zenon, <1>5 DEF ExecutePayload
  <2>2. RegenSent(queue') => RegenSent(queue)
    <3>10. PICK m : m = Msg("block", exec.b, "payload")
      BY Zenon
    <3>1. m \in Message /\ m = Msg("block", exec.b, "payload") /\ m.from = "payload"
      BY Zenon, <3>10, ControlFacts DEF Msg, Message
    <3>2. PICK q \in Seq(Message) : q = queue
      BY Zenon, <1>0
    <3> QED BY ZenonT(60), <2>1, <3>1, <3>2, RegenSends
  <2> QED BY Zenon, <2>1, <2>2 DEF HeadInv
<1>6. ASSUME NEW fc \in FcState, ShallowForkChoice(fc) PROVE HeadInv'
  <2>1. pass' = pass /\ forkchoice_update(Branch(canonical, fc.head), fc.head, fc.fin, TRUE)
    BY ZenonT(60), <1>6 DEF ShallowForkChoice
  <2>2. PICK br : br = Branch(canonical, fc.head)
    BY Zenon
  <2>3. RegenSent(queue') => RegenSent(queue)
    BY ZenonT(60), <2>1, <2>2, UpdateSends
  <2> QED BY Zenon, <2>1, <2>3 DEF HeadInv
<1>7. ASSUME NEW fc \in FcState, BeginDeepReorg(fc) PROVE HeadInv'
  <2>1. pass.pc = "idle" /\ pass'.pc = "ping" /\ queue' = Append(queue, Msg("ping", NoBlock, "install"))
    BY ZenonT(60), <1>7 DEF BeginDeepReorg
  <2>2. ~RegenSent(queue')
    <3>10. PICK m : m = Msg("ping", NoBlock, "install")
      BY Zenon
    <3>1. m \in Message /\ m = Msg("ping", NoBlock, "install") /\ m.type = "ping"
      BY Zenon, <3>10 DEF Msg, Message
    <3>2. PICK q \in Seq(Message) : q = queue
      BY Zenon, <1>0
    <3> QED BY Zenon, <2>1, <3>1, <3>2, RegenSends, RegenWaits
  <2> QED BY Zenon, <2>1, <2>2 DEF HeadInv
<1>8. CASE InstallOverlay \/ ResetCache
  <2>1. /\ queue' = queue /\ pass'.pc \in {"replay", "idle"} /\ pass'.head \in {pass.head, NoBlock}
    BY <1>0, <1>8 DEF InstallOverlay, ResetCache, NoPass, PassState
  <2> QED BY Zenon, <2>1 DEF HeadInv
<1>9. CASE ReplayBlock
  <2>1. /\ pass'.pc = "sent" /\ pass'.head = pass.head
        /\ queue' = Append(queue, Msg("block", LowestTodo, "replay"))
        /\ pass.pc = "replay" /\ pass.todo # {}
    BY Zenon, <1>0, <1>9 DEF ReplayBlock, PassState
  <2>2. RegenSent(queue') => RegenSent(queue)
    <3>1. PICK l \in Block \ {Genesis} : l = LowestTodo
      BY ZenonT(60), <2>1, LowestTodoType
    <3>20. PICK m : m = Msg("block", LowestTodo, "replay")
      BY Zenon
    <3>2. m \in Message /\ m = Msg("block", LowestTodo, "replay") /\ m.from = "replay"
      BY Zenon, <3>20, <3>1 DEF Msg, Message
    <3>3. PICK q \in Seq(Message) : q = queue
      BY Zenon, <1>0
    <3> QED BY Zenon, <2>1, <3>2, <3>3, RegenSends
  <2> QED BY Zenon, <2>1, <2>2 DEF HeadInv
<1>10. CASE AbortDeepReorg
  <2>1. /\ pass'.pc = "ping" /\ pass'.head = pass.head
        /\ queue' = Append(queue, Msg("ping", NoBlock, "abort"))
    BY Zenon, <1>0, <1>10 DEF AbortDeepReorg, PassState
  <2>2. RegenSent(queue') => RegenSent(queue)
    <3>10. PICK m : m = Msg("ping", NoBlock, "abort")
      BY Zenon
    <3>1. m \in Message /\ m = Msg("ping", NoBlock, "abort") /\ m.type = "ping"
      BY Zenon, <3>10 DEF Msg, Message
    <3>2. PICK q \in Seq(Message) : q = queue
      BY Zenon, <1>0
    <3> QED BY Zenon, <2>1, <3>1, <3>2, RegenSends
  <2> QED BY Zenon, <2>1, <2>2 DEF HeadInv
<1>11. CASE FinishDeepReorg \/ AdoptHead \/ RegenerationDone
  <2>1. pass' = NoPass
    BY ZenonT(60), <1>11 DEF FinishDeepReorg, AdoptHead, RegenerationDone
  <2> QED BY Zenon, <2>1 DEF NoPass, HeadInv
<1>12. CASE Crash
  <2>1. queue' = <<>> /\ pass'.head = NoBlock
    BY Zenon, <1>12 DEF Crash, NoPass
  <2> QED BY Zenon, <2>1 DEF HeadInv
<1>13. CASE FindState \/ RegenerateBlock
  <2>1. pass.pc \in {"boot", "regen"} /\ pass'.head = pass.head
    <3>1. CASE FindState
      BY Zenon, <1>0, <3>1 DEF FindState, PassState
    <3>2. CASE RegenerateBlock
      BY ZenonT(60), <1>0, <3>2 DEF RegenerateBlock, PassState
    <3> QED BY Zenon, <1>13, <3>1, <3>2
  <2> QED BY Zenon, <2>1 DEF HeadInv
<1> QED BY SMTT(30), <1>1, <1>2, <1>3, <1>4, <1>5, <1>6, <1>7, <1>8, <1>9, <1>10, <1>11, <1>12, <1>13
       DEF Next, Worker, Payload, ForkChoiceCall, DeepReorg, Boot

\* The walk down the canonical chain finds the block whose state is on disk,
\* if it is canonical and not above the head, and nothing else.
LEMMA StatesFound ==
    ASSUME IInv, ~stray, layers = {}, overlay = NoOverlay
    PROVE  \A n \in 0 .. latest : has_state_root(canonical[n]) <=> canonical[n] = disk[RootKey]
<1>1. ASSUME NEW b PROVE Read(b, RootKey) = disk[RootKey]
  <2>1. LayerChain(b) = {}
    BY Zenon DEF LayerChain
  <2>2. Writers({}, RootKey) = {}
    BY Zenon DEF Writers
  <2>3. Below(b) = disk
    BY Zenon DEF Below, overlay_serves
  <2> QED BY Zenon, <2>1, <2>2, <2>3 DEF Read
<1> QED BY Zenon, <1>1 DEF has_state_root

\* Looking for a state to start from: a start fails here only if the disk
\* holds no canonical state.
LEMMA FindStarts ==
    ASSUME IInv, HeadInv, BootInv, FindState, ~stray
    PROVE  BootInv'
<1>1. /\ pass.pc = "boot"
      /\ UNCHANGED <<canonical, latest, layers, older, overlay, disk, queue, exec, stray>>
  BY Zenon DEF FindState, chain_vars, cache_vars, disk_vars
<1>2. Booting
  BY Zenon, <1>1 DEF HeadInv, Booting
<1>3. overlay = NoOverlay /\ exec.pc # "queued" /\ layers = {} /\ queue = <<>>
  BY Zenon, <1>1, <1>2 DEF BootInv
<1>4. ChainTo(canonical, latest) /\ disk[RootKey] \in Block /\ pass \in PassState
  <2>1. RootKey \in Key
    BY Zenon, WritesAssumption
  <2> QED BY ZenonT(60), <2>1, ControlFacts DEF IInv, TableInv, TypeOK
<1>5. PICK r \in Block : r = disk[RootKey]
  BY Zenon, <1>4
<1>6. latest \in Height /\ latest \in Nat
  BY <1>4, GenesisAssumption DEF ChainTo, Height
<1>7. PICK t \in Block : t = canonical[latest] /\ Number[t] = latest
  BY SMTT(30), <1>4, <1>6 DEF ChainTo
<1>8. \A n \in 0 .. latest : n \in Height /\ canonical[n] \in Anc[t] /\ Number[canonical[n]] = n
  <2>1. \A n \in 0 .. latest : n \in Nat /\ n <= latest
    BY <1>6
  <2>2. \A n \in 0 .. latest : n \in Height
    BY Zenon, <1>6, <2>1, HeightsBelow
  <2> QED BY Zenon, <1>4, <1>7, <2>1, <2>2 DEF ChainTo
<1>9. Number[r] \in Nat
  BY Zenon, SegmentFacts
<1>10. CASE WithState = {}
  <2>1. pass' = [pass EXCEPT !.pc = "bricked"]
    BY Zenon, <1>10 DEF FindState
  <2>2. pass'.pc = "bricked"
    BY Zenon, <1>4, <2>1 DEF PassState
  <2>3. ~is_canonical(canonical, r) \/ Number[r] > latest
    <3>1. SUFFICES ASSUME is_canonical(canonical, r), Number[r] <= latest PROVE FALSE
      BY <1>6, <1>9
    <3>2. Number[r] \in 0 .. latest /\ canonical[Number[r]] = r
      BY SMTT(30), <1>6, <1>9, <3>1 DEF is_canonical
    <3>3. Number[r] \in WithState
      BY Zenon, <1>3, <1>5, <3>2, StatesFound DEF WithState
    <3> QED BY Zenon, <1>10, <3>3
  <2>4. ~is_canonical(canonical', disk'[RootKey]) \/ Number[disk'[RootKey]] > latest'
    BY Zenon, <1>1, <1>5, <2>3 DEF is_canonical
  <2> QED BY Zenon, <1>1, <1>3, <2>2, <2>4 DEF BootInv, is_canonical
<1>11. CASE WithState # {}
  <2> DEFINE last == CHOOSE n \in WithState : \A m \in WithState : m <= n
  <2>1. PICK S : S = WithState
    BY Zenon
  <2>2. PICK top \in Nat : top = latest
    BY Zenon, <1>6
  <2>3. \E n \in S : \A m \in S : m <= n
    <3>1. S \in SUBSET (0 .. top) /\ S # {} /\ top \in Height
      BY Zenon, <1>6, <1>11, <2>1, <2>2 DEF WithState
    <3> QED BY Zenon, <3>1, Bounds
  <2>4. last \in WithState
    BY Zenon, <2>1, <2>3
  <2>5. pass' = [pass EXCEPT !.pc = "regen", !.todo = {canonical[n] : n \in last + 1 .. latest}]
    BY Zenon, <1>11 DEF FindState
  <2> HIDE DEF last
  <2>6. last \in 0 .. latest /\ canonical[last] = r
    BY Zenon, <1>3, <1>5, <2>4, StatesFound DEF WithState
  <2>7. r \in Anc[t] /\ last = Number[r] /\ Number[r] <= Number[t]
    BY SMTT(30), <1>6, <1>7, <1>8, <2>6
  <2>8. {canonical[n] : n \in last + 1 .. latest} = Segment(t, Number[r] + 1, Number[t])
    <3>1. ASSUME NEW n \in last + 1 .. latest PROVE canonical[n] \in Segment(t, Number[r] + 1, Number[t])
      <4>1. n \in 0 .. latest /\ Number[r] + 1 <= n /\ n <= Number[t]
        BY SMTT(30), <1>6, <1>7, <1>9, <2>7
      <4> QED BY Zenon, <1>8, <4>1 DEF Segment
    <3>2. ASSUME NEW x \in Segment(t, Number[r] + 1, Number[t])
          PROVE  x \in {canonical[n] : n \in last + 1 .. latest}
      <4>1. x \in Anc[t] /\ Number[x] \in Nat /\ Number[r] + 1 <= Number[x] /\ Number[x] <= Number[t]
        BY ZenonT(60), SegmentFacts DEF Segment
      <4>2. Number[x] \in last + 1 .. latest /\ Number[x] \in 0 .. latest
        BY SMTT(30), <1>6, <1>7, <1>9, <2>7, <4>1
      <4>3. canonical[Number[x]] \in Anc[t] /\ Number[canonical[Number[x]]] = Number[x]
        BY Zenon, <1>8, <4>2
      <4>4. canonical[Number[x]] = x
        BY Zenon, <4>1, <4>3, AncestryAssumption
      <4> QED BY Zenon, <4>2, <4>4
    <3> QED BY Zenon, <3>1, <3>2
  <2>9. pass'.pc = "regen" /\ pass'.todo = Segment(t, Number[r] + 1, Number[t])
    <3>1. PICK T : T = {canonical[n] : n \in last + 1 .. latest}
      BY ZenonT(60)
    <3>2. pass' = [pass EXCEPT !.pc = "regen", !.todo = T]
      BY Zenon, <2>5, <3>1
    <3> QED BY Zenon, <1>4, <2>8, <3>1, <3>2 DEF PassState
  <2>10. layers' = {} /\ layers' = Segment(t, Number[r] + 1, Number[r])
    <3>1. \A x \in Anc[t] : ~(Number[r] + 1 <= Number[x] /\ Number[x] <= Number[r])
      BY <1>9, SegmentFacts
    <3> QED BY Zenon, <1>1, <1>3, <3>1 DEF Segment
  <2>11. queue' = <<>> /\ \A i \in 1 .. Len(queue') : FALSE
    BY SMTT(30), <1>1, <1>3
  <2>12. Regenerating(t, r, Number[r])'
    BY SMTT(30), <1>1, <1>5, <1>7, <1>9, <2>7, <2>9, <2>10, <2>11 DEF Regenerating
  <2> QED BY ZenonT(60), <1>1, <1>3, <1>9, <2>9, <2>12 DEF BootInv
<1> QED BY Zenon, <1>10, <1>11

\* The next canonical block executes, and is sent.
LEMMA BlockRegenerates ==
    ASSUME IInv, HeadInv, BootInv, RegenerateBlock, ~stray
    PROVE  BootInv'
<1>1. /\ pass.pc = "regen" /\ pass.todo # {} /\ pass \in PassState
      /\ UNCHANGED <<canonical, latest, layers, older, overlay, disk, exec, stray>>
  BY Zenon, ControlFacts DEF RegenerateBlock, chain_vars, cache_vars, disk_vars
<1>2. Booting
  BY Zenon, <1>1 DEF HeadInv, Booting
<1>3. PICK t \in Block, r \in Block, done \in Nat : Regenerating(t, r, done)
  BY ZenonT(60), <1>1, <1>2 DEF BootInv
<1>4. overlay = NoOverlay /\ exec.pc # "queued"
  BY Zenon, <1>2 DEF BootInv
<1>5. /\ LowestTodo \in Segment(t, done + 1, done + 1) /\ done < Number[t]
      /\ pass.todo \ {LowestTodo} = Segment(t, done + 2, Number[t]) /\ Executable(LowestTodo)
  BY ZenonT(60), <1>1, <1>3, <1>4, NextToRegenerate
<1>6. /\ queue' = Append(queue, Msg("block", LowestTodo, "regen"))
      /\ pass' = [pass EXCEPT !.pc = "sent", !.todo = @ \ {LowestTodo}]
  BY Zenon, <1>5 DEF RegenerateBlock
<1>7. pass'.pc = "sent" /\ pass'.todo = Segment(t, done + 2, Number[t])
  BY Zenon, <1>1, <1>5, <1>6 DEF PassState
<1>8. \A i \in 1 .. Len(queue') :
          /\ queue'[i].from = "regen"
          /\ \/ queue'[i].type = "block" /\ queue'[i].b \in Segment(t, done + 1, done + 1)
             \/ queue'[i].type = "due"
  <2>1. PICK m : m = Msg("block", LowestTodo, "regen")
    BY Zenon
  <2>2. m.type = "block" /\ m.from = "regen" /\ m.b \in Segment(t, done + 1, done + 1)
    BY Zenon, <1>5, <2>1 DEF Msg
  <2>3. PICK q \in Seq(Message) : q = queue
    BY Zenon, ControlFacts
  <2>4. PICK k \in Nat : k = Len(q)
    OBVIOUS
  <2>5. queue' = Append(q, m)
    BY Zenon, <1>6, <2>1, <2>3
  <2>6. /\ Len(Append(q, m)) = k + 1 /\ Append(q, m)[k + 1] = m
        /\ \A i \in 1 .. k : Append(q, m)[i] = q[i]
    BY <2>4
  <2>7. \A i \in 1 .. k :
          /\ q[i].from = "regen"
          /\ \/ q[i].type = "block" /\ q[i].b \in Segment(t, done + 1, done + 1)
             \/ q[i].type = "due"
    BY ZenonT(60), <1>3, <2>3, <2>4 DEF Regenerating
  <2>8. \A i \in 1 .. k + 1 : i \in 1 .. k \/ i = k + 1
    OBVIOUS
  <2> QED BY Zenon, <2>2, <2>5, <2>6, <2>7, <2>8
<1>9. Regenerating(t, r, done)'
  BY ZenonT(60), <1>1, <1>3, <1>5, <1>7, <1>8 DEF Regenerating
<1> QED BY ZenonT(60), <1>1, <1>4, <1>7, <1>9 DEF BootInv

\* Every step keeps what a restart relies on.
LEMMA BootNext == IInv /\ HeadInv /\ BootInv /\ [Next]_vars => BootInv'
<1> SUFFICES ASSUME IInv, HeadInv, BootInv, [Next]_vars PROVE BootInv'
  BY Zenon
<1>0. queue \in Seq(Message) /\ pass \in PassState /\ NoBlock \notin Block
  BY Zenon, ControlFacts, GenesisAssumption
<1>1. CASE pass'.pc \in {"idle", "ping", "swap", "replay", "abort", "reset", "down"}
  BY Zenon, <1>1 DEF BootInv, Booting
<1>2. CASE WorkerInstall
  <2>1. /\ queue # <<>> /\ Acked(Head(queue).from) /\ UNCHANGED stray
    BY Zenon, <1>2 DEF WorkerInstall
  <2>2. /\ pass'.head = pass.head
        /\ \/ pass'.pc \in {"replay", "abort", "down"} \/ pass'.pc = pass.pc
           \/ pass'.pc = "regen" /\ Head(queue).from = "regen"
    BY Zenon, <1>0, <2>1 DEF Acked, PassState
  <2>3. SUFFICES ASSUME Booting', ~stray, pass'.pc \notin {"replay", "abort", "down"} PROVE BootInv'
    BY ZenonT(60), <1>1, <2>1 DEF BootInv
  <2>4. pass'.pc # pass.pc => pass.pc = "sent"
    <3>1. SUFFICES ASSUME Head(queue).from = "regen" PROVE pass.pc = "sent"
      BY Zenon, <2>2, <2>3
    <3>2. PICK q \in Seq(Message) : q = queue
      BY Zenon, <1>0
    <3>3. RegenSent(queue)
      BY ZenonT(60), <1>2, <2>1, <3>1, <3>2, RegenTaken DEF WorkerInstall
    <3> QED BY Zenon, <3>3, RegenWaits
  <2>5. Booting
    BY Zenon, <2>2, <2>3, <2>4 DEF Booting
  <2>6. pass.pc \in {"regen", "sent"}
    BY Zenon, <2>1, <2>3, <2>5 DEF BootInv, Booting
  <2>7. /\ pass'.pc \in {"regen", "down"} /\ UNCHANGED overlay /\ exec'.pc # "queued"
        /\ pass'.pc = "regen" => \E t \in Block, r \in Block, done \in Nat : Regenerating(t, r, done)'
    BY Zenon, <1>2, <2>3, <2>5, <2>6, BootInstalls
  <2>8. overlay = NoOverlay
    BY Zenon, <2>3, <2>5 DEF BootInv
  <2> QED BY Zenon, <2>7, <2>8 DEF BootInv
<1>3. CASE WorkerCommitDue
  <2>1. queue # <<>> /\ UNCHANGED <<pass, exec>>
    BY Zenon, <1>3 DEF WorkerCommitDue
  <2>2. SUFFICES ASSUME Booting, ~stray PROVE BootInv'
    <3>1. Booting' => Booting
      BY Zenon, <2>1 DEF Booting
    <3>2. ~stray' => ~stray
      BY ZenonT(60), <1>3, DueTarget DEF commit_to_disk
    <3> QED BY ZenonT(60), <3>1, <3>2 DEF BootInv
  <2>3. pass.pc \in {"regen", "sent"}
    BY Zenon, <2>1, <2>2 DEF BootInv, Booting
  <2>4. overlay' = NoOverlay /\ \E t \in Block, r \in Block, done \in Nat : Regenerating(t, r, done)'
    BY Zenon, <1>3, <2>2, <2>3, BootCommits
  <2> QED BY ZenonT(60), <2>1, <2>2, <2>3, <2>4 DEF BootInv
<1>4. CASE WorkerCommit
  <2>1. queue # <<>> /\ UNCHANGED <<pass, exec>> /\ Head(queue).type = "commit" /\ (~stray' => ~stray)
    BY ZenonT(60), <1>4 DEF WorkerCommit, commit_to_disk
  <2>2. SUFFICES ASSUME Booting, ~stray PROVE FALSE
    BY ZenonT(60), <2>1 DEF BootInv, Booting
  <2>3. pass.pc \in {"regen", "sent"}
    BY ZenonT(60), <2>1, <2>2 DEF BootInv, Booting
  <2>4. PICK t \in Block, r \in Block, done \in Nat : Regenerating(t, r, done)
    BY Zenon, <2>2, <2>3 DEF BootInv
  <2>5. PICK q \in Seq(Message) : q = queue
    BY Zenon, <1>0
  <2>6. Head(q) = q[1] /\ 1 \in 1 .. Len(q)
    BY Zenon, <2>1, <2>5, TailMessages
  <2> QED BY Zenon, <2>1, <2>4, <2>5, <2>6 DEF Regenerating
<1>5. CASE WorkerWriteFails
  <2>1. /\ queue # <<>> /\ queue' = Tail(queue)
        /\ UNCHANGED <<canonical, latest, layers, older, overlay, disk, exec, pass, stray>>
    BY Zenon, <1>5 DEF WorkerWriteFails, chain_vars, cache_vars, disk_vars
  <2>2. SUFFICES ASSUME Booting, ~stray PROVE BootInv'
    BY ZenonT(60), <2>1 DEF BootInv, Booting
  <2>3. pass.pc \in {"regen", "sent"} /\ overlay = NoOverlay /\ exec.pc # "queued"
    BY ZenonT(60), <2>1, <2>2 DEF BootInv, Booting
  <2>4. PICK t \in Block, r \in Block, done \in Nat : Regenerating(t, r, done)
    BY ZenonT(60), <2>2, <2>3 DEF BootInv
  <2>5. PICK q \in Seq(Message) : q = queue /\ q # <<>>
    BY Zenon, <1>0, <2>1
  <2>6. \A i \in 1 .. Len(Tail(q)) :
          /\ Tail(q)[i].from = "regen"
          /\ \/ Tail(q)[i].type = "block" /\ Tail(q)[i].b \in Segment(t, done + 1, done + 1)
             \/ Tail(q)[i].type = "due"
    BY <2>4, <2>5, TailMessages DEF Regenerating
  <2>7. Regenerating(t, r, done)'
    BY Zenon, <2>1, <2>4, <2>5, <2>6 DEF Regenerating
  <2> QED BY Zenon, <2>1, <2>3, <2>7 DEF BootInv
<1>6. CASE WorkerPing
  <2>1. pass' = NoPass \/ pass' = [pass EXCEPT !.pc = "swap"] \/ pass' = [pass EXCEPT !.pc = "reset"]
    BY Zenon, <1>6 DEF WorkerPing
  <2>2. pass'.pc \in {"idle", "swap", "reset"}
    BY <1>0, <2>1 DEF NoPass, PassState
  <2> QED BY Zenon, <1>1, <2>2
<1>7. CASE (\E b \in Block : StashPayload(b) \/ AcceptPayload(b)) \/ (\E fc \in FcState : ShallowForkChoice(fc))
  <2>1. pass.pc = "idle" /\ pass' = pass
    BY ZenonT(60), <1>7 DEF StashPayload, AcceptPayload, PayloadWanted, ShallowForkChoice
  <2> QED BY Zenon, <1>1, <2>1
<1>8. CASE UNCHANGED vars
  <2>1. UNCHANGED <<canonical, latest, layers, older, overlay, disk, exec, pass, stray, queue>>
    BY Zenon, <1>8 DEF vars
  <2>2. \A t, r \in Block, done \in Nat : Regenerating(t, r, done) => Regenerating(t, r, done)'
    BY <2>1 DEF Regenerating
  <2>3. is_canonical(canonical', disk'[RootKey]) <=> is_canonical(canonical, disk[RootKey])
    BY Zenon, <2>1
  <2> QED BY ZenonT(60), <2>1, <2>2, <2>3 DEF BootInv, Booting
<1>9. CASE ExecutePayload
  <2>1. exec.pc = "queued" /\ UNCHANGED <<pass, stray>>
    BY Zenon, <1>9 DEF ExecutePayload
  <2> QED BY Zenon, <2>1 DEF BootInv, Booting
<1>10. CASE (\E fc \in FcState : BeginDeepReorg(fc)) \/ InstallOverlay \/ AbortDeepReorg
  <2>1. pass'.pc \in {"ping", "replay"}
    BY SMTT(30), <1>0, <1>10 DEF BeginDeepReorg, InstallOverlay, AbortDeepReorg, PassState
  <2> QED BY Zenon, <1>1, <2>1
<1>11. CASE ReplayBlock
  <2>1. pass.pc = "replay" /\ pass'.head = pass.head
    BY Zenon, <1>0, <1>11 DEF ReplayBlock, PassState
  <2>2. pass.head \in Block
    BY ZenonT(60), <2>1, ControlFacts
  <2> QED BY Zenon, <1>0, <2>1, <2>2 DEF BootInv, Booting
<1>12. CASE ResetCache \/ FinishDeepReorg \/ AdoptHead \/ RegenerationDone
  <2>1. pass' = NoPass
    BY ZenonT(60), <1>12 DEF ResetCache, FinishDeepReorg, AdoptHead, RegenerationDone
  <2> QED BY Zenon, <1>1, <2>1 DEF NoPass
<1>13. CASE Crash
  <2>1. pass'.pc = "boot" /\ overlay' = NoOverlay /\ exec' = NoExec /\ layers' = {} /\ queue' = <<>>
    BY Zenon, <1>13 DEF Crash, NoPass
  <2> QED BY Zenon, <2>1 DEF BootInv, NoExec
<1>14. CASE FindState
  <2>1. stray' = stray
    BY Zenon, <1>14 DEF FindState
  <2> QED BY ZenonT(60), <1>14, <2>1, FindStarts DEF BootInv
<1>15. CASE RegenerateBlock
  <2>1. stray' = stray
    BY Zenon, <1>15 DEF RegenerateBlock
  <2> QED BY ZenonT(60), <1>15, <2>1, BlockRegenerates DEF BootInv
<1> QED BY SMTT(30), <1>2, <1>3, <1>4, <1>5, <1>6, <1>7, <1>8, <1>9, <1>10, <1>11, <1>12, <1>13, <1>14, <1>15
       DEF Next, Worker, Payload, ForkChoiceCall, DeepReorg, Boot

\* A node whose disk holds the state of a canonical block at or below the head
\* starts again (regenerate_head_state): no crash, failed write, or choice of
\* what had been committed makes it meet an unreadable parent.
THEOREM RestartRecoversAlways == Spec => []RestartRecovers
<1>1. Init => HeadInv /\ BootInv
  <2> SUFFICES ASSUME Init PROVE HeadInv /\ BootInv
    BY Zenon
  <2>1. pass = NoPass /\ queue = <<>>
    BY Zenon DEF Init
  <2>2. pass.pc = "idle" /\ pass.head = NoBlock
    BY Zenon, <2>1 DEF NoPass
  <2> QED BY Zenon, <2>2 DEF HeadInv, BootInv, Booting
<1>2. IInv /\ HeadInv /\ BootInv => RestartRecovers
  <2> SUFFICES ASSUME IInv, HeadInv, BootInv, pass.pc = "bricked" PROVE RestartRecovers
    BY ZenonT(60) DEF RestartRecovers
  <2>1. Booting
    BY Zenon DEF HeadInv, Booting
  <2> QED BY ZenonT(60), <2>1 DEF BootInv, RestartRecovers
<1> QED BY <1>1, <1>2, StoreInvariant, HeadNext, BootNext, PTL DEF Spec

=============================================================================
