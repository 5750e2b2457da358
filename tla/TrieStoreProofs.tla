-------------------------- MODULE TrieStoreProofs --------------------------
(***************************************************************************)
(* Proofs about TrieStore, second part: every step keeps the invariant,    *)
(* and the theorems.  As long as no diff was laid over a foreign base, the *)
(* disk is one state, the journal undoes it block by block, an overlay     *)
(* shows its pivot, and readers see the state they ask for.                *)
(***************************************************************************)
EXTENDS TrieCommitProofs

-----------------------------------------------------------------------------
(* Steps that leave the disk alone, and the fork-choice tables.            *)

\* The disk's facts do not depend on the rest of the state.
LEMMA DiskFrame ==
    ASSUME DiskInv, UNCHANGED <<disk, journal, overlay, stray>>,
           \/ pass'.overlay = pass.overlay /\ pass'.base = pass.base
           \/ pass'.overlay = NoOverlay
    PROVE  DiskInv'
<1>1. OverlayOK(pass.overlay, pass.base) => OverlayOK(pass.overlay, pass.base)'
  BY Zenon DEF OverlayOK
<1>2. OverlayOK(overlay, disk[RootKey]) => OverlayOK(overlay, disk[RootKey])'
  BY Zenon DEF OverlayOK
<1>3. JournalOK(journal, disk[RootKey]) => JournalOK(journal, disk[RootKey])'
  BY Zenon DEF JournalOK
<1> QED BY Zenon, <1>1, <1>2, <1>3 DEF DiskInv

\* Pruning the journal from below keeps the rest linked.
LEMMA PruneKeeps ==
    ASSUME NEW r \in Block, JournalOK(journal, r), NEW final \in Int
    PROVE  JournalOK(PrunedJournal(final), r)
<1>0. \A n \in Height : n \in Nat
  BY Zenon, GenesisAssumption DEF Height
<1>1. ASSUME NEW n \in Height, PrunedJournal(final)[n] # NoEntry
      PROVE  /\ PrunedJournal(final)[n] = journal[n] /\ journal[n] # NoEntry
             /\ n + 1 \in Height => PrunedJournal(final)[n + 1] = journal[n + 1]
  <2>1. ~(n <= final) /\ PrunedJournal(final)[n] = journal[n]
    BY Zenon, <1>1 DEF PrunedJournal
  <2>2. ~(n + 1 <= final)
    BY SMTT(30), <1>0, <2>1
  <2> QED BY Zenon, <1>1, <2>1, <2>2 DEF PrunedJournal
<1> QED BY <1>1 DEF JournalOK

\* The pass at rest is a pass.
LEMMA NoPassType == NoPass \in PassState
<1>1. NoOverlay \in OverlayState
  BY Zenon DEF NoOverlay, OverlayState, NoDiff, Diff
<1> QED BY Zenon, <1>1 DEF NoPass, PassState

\* A pass that waits for nothing may move on.
LEMMA QueueMoves ==
    ASSUME queue \in Seq(Message), QueueInv(queue, pass), NEW p,
           p = pass \/ pass.pc \notin {"ping", "sent"}
    PROVE  QueueInv(queue, p)
<1>1. PICK q \in Seq(Message) : q = queue
  BY Zenon
<1>2. PICK p0 : p0 = pass
  BY Zenon
<1>3. QueueInv(q, p)
  BY Zenon, <1>1, <1>2, NothingOwed
<1> QED BY Zenon, <1>1, <1>3

\* Store::forkchoice_update leaves the table of its head, and a journal without
\* its oldest entries.
LEMMA UpdateKeeps ==
    ASSUME TypeOK, TableInv, NEW head \in Block, NEW fin \in Block \cup {NoBlock},
           NEW prune \in BOOLEAN,
           forkchoice_update(Branch(canonical, head), head, fin, prune)
    PROVE  /\ ChainTo(canonical', latest')
           /\ finalized' \in Height \cup {-1}
           /\ safe_commit_root' \in Block \cup {NoBlock}
           /\ journal' \in [Height -> EntryState]
           /\ \E top \in Height : \A n \in Height : journal'[n] # NoEntry => n <= top
           /\ \A r \in Block : JournalOK(journal, r) => JournalOK(journal', r)
           /\ queue' \in Seq(Message) /\ Len(queue') <= QueueCap
           /\ \A p : QueueInv(queue, p) => QueueInv(queue', p)
<1> DEFINE canon == CanonicalAfter(canonical, latest, Branch(canonical, head), head)
           root == compute_safe_commit_root(canon, Threshold, head)
           final == IF fin \in known THEN Number[fin] ELSE finalized
           changed == root # NoBlock /\ root # safe_commit_root
<1>1. /\ changed => Room
      /\ canonical' = canon
      /\ latest' = Number[head]
      /\ finalized' = final
      /\ journal' = IF prune /\ final > finalized THEN PrunedJournal(final) ELSE journal
      /\ safe_commit_root' = IF root = NoBlock THEN safe_commit_root ELSE root
      /\ queue' = IF changed THEN Append(queue, Msg("commit", root, "fcu")) ELSE queue
  BY Zenon DEF forkchoice_update
<1>2. ChainTo(canonical', latest')
  BY Zenon, <1>1, CanonicalAfterLinked DEF TableInv
<1>3. root \in Block \cup {NoBlock}
  <2>1. canon \in [Height -> Block \cup {NoBlock}]
    BY Zenon, <1>1, <1>2 DEF ChainTo
  <2> QED BY Zenon, <2>1, SafeRootType, StoreAssumption
<1>4. final \in Height \cup {-1} /\ final \in Int
  <2>1. known \subseteq Block /\ finalized \in Height \cup {-1}
    BY Zenon DEF TypeOK
  <2>2. \A n \in Height : n \in Int
    BY GenesisAssumption DEF Height
  <2>3. fin \in known => Number[fin] \in Height
    BY ZenonT(60), <2>1, SelfAncestor
  <2> QED BY <2>1, <2>2, <2>3
<1> HIDE DEF canon, root, final
<1>5. journal' \in [Height -> EntryState] /\ \A n \in Height : journal'[n] # NoEntry => journal[n] # NoEntry
  <2>1. journal \in [Height -> EntryState] /\ NoEntry \in EntryState
    BY Zenon DEF TypeOK, NoEntry, EntryState, NoDiff, Diff
  <2> QED BY Zenon, <1>1, <2>1 DEF PrunedJournal
<1>6. \E top \in Height : \A n \in Height : journal'[n] # NoEntry => n <= top
  BY Zenon, <1>5 DEF TableInv
<1>7. ASSUME NEW r \in Block, JournalOK(journal, r) PROVE JournalOK(journal', r)
  <2>1. JournalOK(PrunedJournal(final), r)
    BY Zenon, <1>4, <1>7, PruneKeeps
  <2>2. CASE journal' = journal
    BY Zenon, <1>7, <2>2
  <2>3. CASE journal' = PrunedJournal(final)
    BY Zenon, <2>1, <2>3
  <2> QED BY Zenon, <1>1, <2>2, <2>3
<1>8. queue \in Seq(Message) /\ Len(queue) <= QueueCap
  BY Zenon DEF TypeOK
<1>9. CASE ~changed
  BY Zenon, <1>1, <1>2, <1>3, <1>4, <1>5, <1>6, <1>7, <1>8, <1>9 DEF TypeOK
<1>10. CASE changed
  <2>1. root \in Block /\ Len(queue) < QueueCap
    BY Zenon, <1>1, <1>3, <1>10 DEF Room
  <2>2. Msg("commit", root, "fcu") \in Message /\ Msg("commit", root, "fcu").type = "commit"
    BY Zenon, <1>3 DEF Msg, Message
  <2>3. PICK m \in Message : m = Msg("commit", root, "fcu") /\ m.type = "commit"
    BY Zenon, <2>2
  <2>4. ~Owed(m) /\ \A p : MsgOK(m, p)
    BY Zenon, <2>3 DEF Owed, MsgOK
  <2>5. queue' = Append(queue, m)
    BY Zenon, <1>1, <1>10, <2>3
  <2>6. PICK q \in Seq(Message) : q = queue /\ Len(q) < QueueCap
    BY Zenon, <1>8, <2>1
  <2>7. Append(q, m) \in Seq(Message) /\ Len(Append(q, m)) <= QueueCap
    <3>1. PICK k \in Nat : k = Len(q)
      OBVIOUS
    <3>2. Append(q, m) \in Seq(Message) /\ Len(Append(q, m)) = k + 1
      BY <3>1
    <3>3. k + 1 <= QueueCap
      BY <2>6, <3>1, StoreAssumption
    <3> QED BY Zenon, <3>2, <3>3
  <2>8. ASSUME NEW p, QueueInv(q, p) PROVE QueueInv(Append(q, m), p)
    BY Zenon, <2>4, <2>6, <2>8, SendMessage
  <2> QED BY Zenon, <1>1, <1>2, <1>3, <1>4, <1>5, <1>6, <1>7, <2>5, <2>6, <2>7, <2>8 DEF TypeOK
<1> QED BY Zenon, <1>9, <1>10

\* The same for the whole invariant, once the pass and the queue agree.
LEMMA UpdateStep ==
    ASSUME IInv, NEW head \in Block, NEW fin \in Block \cup {NoBlock}, NEW prune \in BOOLEAN,
           forkchoice_update(Branch(canonical, head), head, fin, prune),
           UNCHANGED <<known, cache_vars, disk, last_flush_result, exec, stray, faults>>,
           pass' = pass \/ (pass' = NoPass /\ pass.pc \notin {"ping", "sent"})
    PROVE  IInv'
<1>0. TypeOK /\ TableInv /\ PassInv /\ DiskInv
  BY Zenon DEF IInv
<1>1. /\ ChainTo(canonical', latest')
      /\ finalized' \in Height \cup {-1}
      /\ safe_commit_root' \in Block \cup {NoBlock}
      /\ journal' \in [Height -> EntryState]
      /\ \E top \in Height : \A n \in Height : journal'[n] # NoEntry => n <= top
      /\ \A r \in Block : JournalOK(journal, r) => JournalOK(journal', r)
      /\ queue' \in Seq(Message) /\ Len(queue') <= QueueCap
      /\ \A p : QueueInv(queue, p) => QueueInv(queue', p)
  BY Zenon, <1>0, UpdateKeeps
<1>2. NoPass \in PassState
  BY Zenon, NoPassType
<1>3. TypeOK'
  BY ZenonT(60), <1>0, <1>1, <1>2 DEF TypeOK, ChainTo, cache_vars
<1>4. TableInv'
  BY ZenonT(60), <1>0, <1>1 DEF TableInv, cache_vars
<1>5. PassInv'
  <2>1. PICK p : p = pass'
    BY Zenon
  <2>2. QueueInv(queue, pass) /\ queue \in Seq(Message)
    BY ZenonT(60), <1>0 DEF PassInv, TypeOK
  <2>3. QueueInv(queue, p)
    BY Zenon, <2>1, <2>2, QueueMoves
  <2>4. QueueInv(queue', pass')
    BY Zenon, <1>1, <2>1, <2>3
  <2> QED BY <1>0, <2>4 DEF PassInv, NoPass
<1>6. DiskInv'
  <2>1. disk[RootKey] \in Block
    BY Zenon, <1>0, WritesAssumption DEF TypeOK
  <2>2. CASE stray
    BY ZenonT(60), <2>2 DEF DiskInv
  <2>3. CASE ~stray
    <3>1. JournalOK(journal, disk[RootKey])'
      BY ZenonT(60), <1>0, <1>1, <2>1, <2>3 DEF DiskInv
    <3>2. OverlayOK(overlay, disk[RootKey])'
      BY ZenonT(60), <1>0, <2>3 DEF DiskInv, OverlayOK, cache_vars
    <3>3. OverlayOK(pass.overlay, pass.base)'
      BY <1>0, <2>3 DEF DiskInv, OverlayOK, NoPass
    <3> QED BY Zenon, <1>0, <2>3, <3>1, <3>2, <3>3 DEF DiskInv
  <2> QED BY Zenon, <2>2, <2>3
<1> QED BY Zenon, <1>3, <1>4, <1>5, <1>6 DEF IInv

-----------------------------------------------------------------------------
(* The persist worker's steps.                                             *)

\* Installing a block's layer and acknowledging it.
LEMMA InstallKeeps == IInv /\ WorkerInstall => IInv'
<1> SUFFICES ASSUME IInv, WorkerInstall PROVE IInv'
  BY Zenon
<1>0. TypeOK /\ TableInv /\ PassInv /\ DiskInv
  BY Zenon DEF IInv
<1>1. PICK q \in Seq(Message) : q = queue /\ q # <<>> /\ Len(q) <= QueueCap
  BY Zenon, <1>0 DEF WorkerInstall, TypeOK
<1>2. PICK h : h = Head(q)
  BY Zenon
<1>3. PICK p : p = pass
  BY Zenon
<1>4. PICK p2 : p2 = pass'
  BY Zenon
<1>5. /\ h.type = "block" /\ known' = known \cup {h.b} /\ layers' = layers \cup {h.b}
      /\ older' = (IF h.b \in layers THEN older ELSE [older EXCEPT ![h.b] = layers])
      /\ queue' = <<[Head(q) EXCEPT !.type = "due"]>> \o Tail(q)
      /\ Acked(h.from) /\ last_flush_result' = "Ok"
      /\ UNCHANGED <<canonical, latest, finalized, safe_commit_root, overlay, disk_vars, stray, faults>>
  BY Zenon, <1>1, <1>2 DEF WorkerInstall
<1>6. QueueInv(q, p)
  BY Zenon, <1>0, <1>1, <1>3 DEF PassInv
<1>7. h \in Message /\ MsgOK(h, p)
  BY Zenon, <1>1, <1>2, <1>6, TakeMessage
<1>8. h.b \in Block \ {Genesis} /\ h.from \in {"payload", "replay", "regen", "fcu", "install", "abort"}
  BY Zenon, <1>5, <1>7 DEF MsgOK, Message
<1>9. /\ p2 \in PassState /\ p2.head = p.head /\ p2.todo = p.todo /\ p2.overlay = p.overlay /\ p2.base = p.base
      /\ Owed(h) \/ p2 = p
      /\ h.from = "replay" => p2.pc \in {"replay", "abort"}
      /\ h.from = "regen" => p2.pc \in {"regen", "down"}
  <2>1. p \in PassState
    BY Zenon, <1>0, <1>3 DEF TypeOK
  <2>2. CASE h.from = "replay"
    BY Zenon, <1>3, <1>4, <1>5, <2>1, <2>2 DEF Acked, PassState, Owed
  <2>3. CASE h.from = "regen"
    BY Zenon, <1>3, <1>4, <1>5, <2>1, <2>3 DEF Acked, PassState, Owed
  <2>4. CASE h.from \notin {"replay", "regen"}
    BY Zenon, <1>3, <1>4, <1>5, <2>1, <2>4 DEF Acked
  <2> QED BY Zenon, <2>2, <2>3, <2>4
<1>10. queue' \in Seq(Message) /\ Len(queue') <= QueueCap /\ QueueInv(queue', p2)
  BY ZenonT(60), <1>1, <1>2, <1>5, <1>6, <1>9, TurnDue
<1>11. exec' \in [pc : {"idle", "queued", "sent"}, b : Block \cup {NoBlock}]
       /\ (exec'.pc = "queued" => exec'.b \in Block \ {Genesis})
  <2>1. exec' = NoExec \/ exec' = exec
    BY Zenon, <1>5 DEF Acked
  <2> QED BY SMTT(30), <1>0, <2>1 DEF NoExec, TypeOK, PassInv
<1>12. TypeOK'
  <2>1. layers' \in SUBSET Block /\ known' \in SUBSET Block /\ older' \in [Block -> SUBSET Block]
    BY Zenon, <1>0, <1>5, <1>8 DEF TypeOK
  <2> QED BY Zenon, <1>0, <1>4, <1>5, <1>9, <1>10, <1>11, <2>1 DEF TypeOK, disk_vars
<1>13. TableInv'
  BY Zenon, <1>0, <1>5, <1>8 DEF TableInv, disk_vars
<1>14. PassInv'
  <2>1. p2.pc \in {"ping", "swap", "replay", "abort", "reset"} => p2.head \in Block
    <3>1. CASE h.from = "replay"
      BY Zenon, <1>5, <1>7, <1>9, <3>1 DEF MsgOK
    <3>2. CASE h.from = "regen"
      BY Zenon, <1>9, <3>2
    <3>3. CASE h.from \notin {"replay", "regen"}
      <4>1. p2 = p
        BY Zenon, <1>5, <1>9, <3>3 DEF Owed
      <4> QED BY Zenon, <1>0, <1>3, <4>1 DEF PassInv
    <3> QED BY Zenon, <3>1, <3>2, <3>3
  <2>2. Genesis \notin p2.todo
    BY Zenon, <1>0, <1>3, <1>9 DEF PassInv
  <2> QED BY Zenon, <1>4, <1>10, <1>11, <2>1, <2>2 DEF PassInv
<1>15. DiskInv'
  BY Zenon, <1>0, <1>3, <1>4, <1>5, <1>9, DiskFrame DEF disk_vars
<1> QED BY Zenon, <1>12, <1>13, <1>14, <1>15 DEF IInv

\* A commit step of the worker: the message is done, and the disk may have moved.
LEMMA CommitStep ==
    ASSUME IInv, queue # <<>>, Head(queue).type \in {"due", "commit"}, queue' = Tail(queue),
           UNCHANGED <<chain_vars, last_flush_result, exec, pass, faults>>,
           \/ UNCHANGED <<disk, journal, layers, older, overlay, stray>>
           \/ \E target \in Block \cup {NoBlock} : commit_to_disk(target)
    PROVE  IInv'
<1>0. TypeOK /\ TableInv /\ PassInv /\ DiskInv
  BY Zenon DEF IInv
<1>1. PICK q \in Seq(Message) : q = queue /\ q # <<>> /\ Len(q) <= QueueCap
  BY Zenon, <1>0 DEF TypeOK
<1>2. PICK p : p = pass
  BY Zenon
<1>3. QueueInv(q, p) /\ ~Owed(Head(q))
  BY Zenon, <1>0, <1>1, <1>2 DEF PassInv, Owed
<1>4. queue' \in Seq(Message) /\ Len(queue') <= QueueCap /\ QueueInv(queue', p)
  <2>1. Tail(q) \in Seq(Message) /\ Len(Tail(q)) = Len(q) - 1 /\ QueueInv(Tail(q), p)
    BY Zenon, <1>1, <1>3, TakeMessage
  <2>2. PICK k \in Nat : k = Len(q)
    OBVIOUS
  <2>3. k - 1 <= QueueCap
    BY SMTT(30), <1>1, <2>2, StoreAssumption
  <2> QED BY Zenon, <1>1, <2>1, <2>2, <2>3
<1>5. /\ DiskInv'
      /\ layers' \in SUBSET layers
      /\ older' \in [Block -> SUBSET Block]
      /\ overlay' \in OverlayState
      /\ disk' \in [Key -> Block]
      /\ journal' \in [Height -> EntryState]
      /\ stray' \in BOOLEAN
      /\ \E top \in Height : \A n \in Height : journal'[n] # NoEntry => n <= top
  <2>1. CASE UNCHANGED <<disk, journal, layers, older, overlay, stray>>
    <3>1. DiskInv'
      BY Zenon, <1>0, <2>1, DiskFrame
    <3> QED BY Zenon, <1>0, <2>1, <3>1 DEF TypeOK, TableInv
  <2>2. CASE \E target \in Block \cup {NoBlock} : commit_to_disk(target)
    BY Zenon, <1>0, <2>2, CommitKeeps
  <2> QED BY Zenon, <2>1, <2>2
<1>6. TypeOK'
  <2>1. layers' \in SUBSET Block
    BY Zenon, <1>0, <1>5 DEF TypeOK
  <2> QED BY Zenon, <1>0, <1>4, <1>5, <2>1 DEF TypeOK, chain_vars
<1>7. TableInv'
  BY Zenon, <1>0, <1>5 DEF TableInv, chain_vars
<1>8. PassInv'
  BY Zenon, <1>0, <1>2, <1>4 DEF PassInv
<1> QED BY Zenon, <1>5, <1>6, <1>7, <1>8 DEF IInv

\* A block's second half and a fork choice's commit message.
LEMMA WorkerCommitsKeep == IInv /\ (WorkerCommitDue \/ WorkerCommit) => IInv'
<1> SUFFICES ASSUME IInv, WorkerCommitDue \/ WorkerCommit PROVE IInv'
  BY Zenon
<1>1. CASE WorkerCommit
  <2>1. Head(queue).b \in Block \cup {NoBlock}
    <3>1. queue \in Seq(Message) /\ queue # <<>>
      BY Zenon, <1>1 DEF IInv, TypeOK, WorkerCommit
    <3>2. Head(queue) \in Message
      BY <3>1
    <3> QED BY Zenon, <3>2 DEF Message
  <2> QED BY Zenon, <1>1, <2>1, CommitStep DEF WorkerCommit
<1>2. CASE WorkerCommitDue
  <2> DEFINE parent == Parent[Head(queue).b]
             due == IF Head(queue).from = "regen"
                    THEN get_commitable_by_depth(parent) ELSE get_commitable(parent)
  <2>1. IF due = {} THEN UNCHANGED <<disk, journal, layers, older, overlay, stray>>
                    ELSE commit_to_disk(CHOOSE root \in due : TRUE)
    BY ZenonT(60), <1>2 DEF WorkerCommitDue
  <2>2. due \in SUBSET (Block \cup {NoBlock})
    <3>1. LayerChain(parent) \in SUBSET Block
      <4>1. layers \in SUBSET Block /\ Genesis \notin layers
        BY Zenon DEF IInv, TypeOK, TableInv
      <4> HIDE DEF parent
      <4>2. CASE parent \in layers
        <5>1. PICK b \in layers : b = parent
          BY Zenon, <4>2
        <5>2. LayerChain(b) \in SUBSET (Anc[b] \cap layers)
          BY Zenon, <4>1, ChainFacts
        <5> QED BY Zenon, <4>1, <5>1, <5>2
      <4>3. CASE parent \notin layers
        BY Zenon, <4>3 DEF LayerChain
      <4> QED BY Zenon, <4>2, <4>3
    <3> HIDE DEF parent
    <3> QED BY Zenon, <3>1 DEF get_commitable, get_commitable_by_depth
  <2>3. \/ UNCHANGED <<disk, journal, layers, older, overlay, stray>>
        \/ \E target \in Block \cup {NoBlock} : commit_to_disk(target)
    <3> HIDE DEF due
    <3>1. CASE due = {}
      BY Zenon, <2>1, <3>1
    <3>2. CASE due # {}
      <4>1. PICK target \in due : target = CHOOSE root \in due : TRUE
        BY Zenon, <3>2
      <4> QED BY Zenon, <2>1, <2>2, <3>2, <4>1
    <3> QED BY Zenon, <3>1, <3>2
  <2> HIDE DEF due
  <2> QED BY ZenonT(60), <1>2, <2>3, CommitStep DEF WorkerCommitDue
<1> QED BY Zenon, <1>1, <1>2

\* A failed write leaves everything but the error.
LEMMA WriteFailsKeeps == IInv /\ WorkerWriteFails => IInv'
<1> SUFFICES ASSUME IInv, WorkerWriteFails PROVE IInv'
  BY Zenon
<1>0. TypeOK /\ TableInv /\ PassInv /\ DiskInv
  BY Zenon DEF IInv
<1>1. PICK q \in Seq(Message) : q = queue /\ q # <<>> /\ Len(q) <= QueueCap
  BY Zenon, <1>0 DEF WorkerWriteFails, TypeOK
<1>2. PICK p : p = pass
  BY Zenon
<1>3. QueueInv(q, p)
  BY Zenon, <1>0, <1>1, <1>2 DEF PassInv
<1>4. queue' \in Seq(Message) /\ Len(queue') <= QueueCap /\ QueueInv(queue', p)
  <2>1. Tail(q) \in Seq(Message) /\ Len(Tail(q)) = Len(q) - 1 /\ QueueInv(Tail(q), p)
    BY Zenon, <1>1, <1>3, TakeMessage
  <2>2. PICK k \in Nat : k = Len(q)
    OBVIOUS
  <2>3. k - 1 <= QueueCap
    BY SMTT(30), <1>1, <2>2, StoreAssumption
  <2> QED BY Zenon, <1>1, <2>1, <2>2, <2>3 DEF WorkerWriteFails
<1>5. TypeOK'
  <2>1. faults' \in 0 .. MaxFaults
    BY SMTT(30), <1>0, StoreAssumption DEF TypeOK, WorkerWriteFails
  <2>2. last_flush_result' \in {"Ok", "Err"}
    BY Zenon, <1>0 DEF TypeOK, WorkerWriteFails
  <2> QED BY Zenon, <1>0, <1>4, <2>1, <2>2 DEF TypeOK, WorkerWriteFails, chain_vars, cache_vars, disk_vars
<1>6. TableInv'
  BY Zenon, <1>0 DEF TableInv, WorkerWriteFails, chain_vars, cache_vars, disk_vars
<1>7. PassInv'
  BY Zenon, <1>0, <1>2, <1>4 DEF PassInv, WorkerWriteFails
<1>8. DiskInv'
  BY Zenon, <1>0, DiskFrame DEF WorkerWriteFails, cache_vars, disk_vars
<1> QED BY Zenon, <1>5, <1>6, <1>7, <1>8 DEF IInv

\* The rendezvous of an installing or aborting pass.
LEMMA PingKeeps == IInv /\ WorkerPing => IInv'
<1> SUFFICES ASSUME IInv, WorkerPing PROVE IInv'
  BY Zenon
<1>0. TypeOK /\ TableInv /\ PassInv /\ DiskInv
  BY Zenon DEF IInv
<1>1. PICK q \in Seq(Message) : q = queue /\ q # <<>> /\ Len(q) <= QueueCap
  BY Zenon, <1>0 DEF WorkerPing, TypeOK
<1>2. PICK p \in PassState : p = pass
  BY Zenon, <1>0 DEF TypeOK
<1>3. PICK p2 : p2 = pass'
  BY Zenon
<1>4. QueueInv(q, p) /\ Owed(Head(q)) /\ Head(q).type = "ping"
  BY Zenon, <1>0, <1>1, <1>2 DEF PassInv, Owed, WorkerPing
<1>5. /\ Tail(q) \in Seq(Message) /\ Len(Tail(q)) = Len(q) - 1 /\ QueueInv(Tail(q), p2)
      /\ MsgOK(Head(q), p)
  BY Zenon, <1>1, <1>4, TakeMessage
<1>6. queue' \in Seq(Message) /\ Len(queue') <= QueueCap /\ QueueInv(queue', p2)
  <2>2. PICK k \in Nat : k = Len(q)
    OBVIOUS
  <2>3. k - 1 <= QueueCap
    BY SMTT(30), <1>1, <2>2, StoreAssumption
  <2> QED BY Zenon, <1>1, <1>5, <2>2, <2>3 DEF WorkerPing
<1>7. p.head \in Block /\ Genesis \notin p.todo
  BY Zenon, <1>0, <1>2, <1>4, <1>5 DEF MsgOK, PassInv
<1>8. /\ p2 \in PassState /\ Genesis \notin p2.todo
      /\ p2.pc \in {"ping", "swap", "replay", "abort", "reset"} => p2.head \in Block
      /\ \/ p2.overlay = p.overlay /\ p2.base = p.base
         \/ p2.overlay = NoOverlay
  <2>1. CASE p2 = NoPass
    BY ZenonT(60), <2>1, NoPassType DEF NoPass
  <2>2. CASE p2 # NoPass
    <3>1. p2 = [p EXCEPT !.pc = IF Head(q).from = "install" THEN "swap" ELSE "reset"]
      BY Zenon, <1>1, <1>2, <1>3, <2>2 DEF WorkerPing
    <3> QED BY Zenon, <1>7, <3>1 DEF PassState
  <2> QED BY Zenon, <2>1, <2>2
<1>9. TypeOK'
  BY Zenon, <1>0, <1>3, <1>6, <1>8 DEF TypeOK, WorkerPing, chain_vars, cache_vars, disk_vars
<1>10. TableInv'
  BY Zenon, <1>0 DEF TableInv, WorkerPing, chain_vars, cache_vars, disk_vars
<1>11. PassInv'
  BY Zenon, <1>0, <1>3, <1>6, <1>8 DEF PassInv, WorkerPing
<1>12. DiskInv'
  BY Zenon, <1>0, <1>2, <1>3, <1>8, DiskFrame DEF WorkerPing, cache_vars, disk_vars
<1> QED BY Zenon, <1>9, <1>10, <1>11, <1>12 DEF IInv

-----------------------------------------------------------------------------
(* Steps that change only the queue, the payload or the pass.              *)

\* Everything but the queue, exec and pass is left alone.
LEMMA ControlStep ==
    ASSUME IInv,
           UNCHANGED <<chain_vars, cache_vars, disk_vars, last_flush_result, stray, faults>>,
           queue' \in Seq(Message), Len(queue') <= QueueCap, QueueInv(queue', pass'),
           exec' \in [pc : {"idle", "queued", "sent"}, b : Block \cup {NoBlock}],
           exec'.pc = "queued" => exec'.b \in Block \ {Genesis},
           pass' \in PassState, Genesis \notin pass'.todo,
           pass'.pc \in {"ping", "swap", "replay", "abort", "reset"} => pass'.head \in Block,
           stray \/ OverlayOK(pass'.overlay, pass'.base)
    PROVE  IInv'
<1>0. TypeOK /\ TableInv /\ PassInv /\ DiskInv
  BY Zenon DEF IInv
<1>1. TypeOK'
  BY Zenon, <1>0 DEF TypeOK, chain_vars, cache_vars, disk_vars
<1>2. TableInv'
  BY Zenon, <1>0 DEF TableInv, chain_vars, cache_vars, disk_vars
<1>3. PassInv'
  BY Zenon DEF PassInv
<1>4. DiskInv'
  <2>1. OverlayOK(overlay, disk[RootKey]) => OverlayOK(overlay, disk[RootKey])'
    BY Zenon DEF OverlayOK, cache_vars, disk_vars
  <2>2. JournalOK(journal, disk[RootKey]) => JournalOK(journal, disk[RootKey])'
    BY Zenon DEF JournalOK, disk_vars
  <2>3. OverlayOK(pass'.overlay, pass'.base) => OverlayOK(pass.overlay, pass.base)'
    BY Zenon DEF OverlayOK
  <2> QED BY Zenon, <1>0, <2>1, <2>2, <2>3 DEF DiskInv, disk_vars, cache_vars
<1> QED BY Zenon, <1>1, <1>2, <1>3, <1>4 DEF IInv

\* The facts a control step starts from.
LEMMA ControlFacts ==
    ASSUME IInv
    PROVE  /\ queue \in Seq(Message) /\ Len(queue) <= QueueCap /\ QueueInv(queue, pass)
           /\ exec \in [pc : {"idle", "queued", "sent"}, b : Block \cup {NoBlock}]
           /\ exec.pc = "queued" => exec.b \in Block \ {Genesis}
           /\ pass \in PassState /\ Genesis \notin pass.todo /\ pass.todo \in SUBSET Block
           /\ pass.pc \in {"ping", "swap", "replay", "abort", "reset"} => pass.head \in Block
           /\ stray \/ OverlayOK(pass.overlay, pass.base)
BY Zenon DEF IInv, TypeOK, PassInv, DiskInv, PassState

\* Storing a payload, or handing it to the block worker.
LEMMA PayloadKeeps == ASSUME IInv, NEW b \in Block, StashPayload(b) \/ AcceptPayload(b) PROVE IInv'
<1>0. TypeOK /\ TableInv /\ PassInv /\ DiskInv
  BY Zenon DEF IInv
<1>1. CASE StashPayload(b)
  <2>1. TypeOK'
    BY Zenon, <1>0, <1>1 DEF TypeOK, StashPayload, cache_vars, disk_vars
  <2>2. TableInv'
    BY Zenon, <1>0, <1>1 DEF TableInv, StashPayload, cache_vars, disk_vars
  <2>3. PassInv'
    BY Zenon, <1>0, <1>1 DEF PassInv, StashPayload
  <2>4. DiskInv'
    BY Zenon, <1>0, <1>1, DiskFrame DEF StashPayload, cache_vars, disk_vars
  <2> QED BY Zenon, <2>1, <2>2, <2>3, <2>4 DEF IInv
<1>2. CASE AcceptPayload(b)
  <2>1. exec' = [pc |-> "queued", b |-> b] /\ b # Genesis /\ UNCHANGED <<queue, pass>>
    BY Zenon, <1>2 DEF AcceptPayload, PayloadWanted
  <2>2. UNCHANGED <<chain_vars, cache_vars, disk_vars, last_flush_result, stray, faults>>
    BY Zenon, <1>2 DEF AcceptPayload
  <2>3. /\ exec' \in [pc : {"idle", "queued", "sent"}, b : Block \cup {NoBlock}]
        /\ exec'.b \in Block \ {Genesis}
    BY Zenon, <2>1
  <2>4. /\ queue' \in Seq(Message) /\ Len(queue') <= QueueCap /\ QueueInv(queue', pass')
        /\ pass' \in PassState /\ Genesis \notin pass'.todo
        /\ pass'.pc \in {"ping", "swap", "replay", "abort", "reset"} => pass'.head \in Block
        /\ stray \/ OverlayOK(pass'.overlay, pass'.base)
    BY Zenon, <2>1, ControlFacts
  <2> QED BY Zenon, <2>2, <2>3, <2>4, ControlStep
<1> QED BY Zenon, <1>1, <1>2

\* Executing the payload sends it to the persist worker.
LEMMA ExecuteKeeps == IInv /\ ExecutePayload => IInv'
<1> SUFFICES ASSUME IInv, ExecutePayload PROVE IInv'
  BY Zenon
<1>1. CASE exec' = NoExec /\ UNCHANGED queue
  <2>1. exec' \in [pc : {"idle", "queued", "sent"}, b : Block \cup {NoBlock}] /\ exec'.pc # "queued"
    BY Zenon, <1>1 DEF NoExec
  <2> QED BY Zenon, <1>1, <2>1, ControlFacts, ControlStep DEF ExecutePayload
<1>2. CASE ~(exec' = NoExec /\ UNCHANGED queue)
  <2>1. /\ exec.pc = "queued" /\ Room /\ queue' = Append(queue, Msg("block", exec.b, "payload"))
        /\ exec' = [exec EXCEPT !.pc = "sent"]
    BY Zenon, <1>2 DEF ExecutePayload
  <2>2. exec' \in [pc : {"idle", "queued", "sent"}, b : Block \cup {NoBlock}] /\ exec'.pc = "sent"
    BY Zenon, <2>1, ControlFacts
  <2>3. PICK m : m = Msg("block", exec.b, "payload")
    BY Zenon
  <2>4. m \in Message /\ ~Owed(m) /\ \A p : MsgOK(m, p)
    BY Zenon, <2>1, <2>3, ControlFacts DEF Msg, Message, Owed, MsgOK
  <2>5. PICK q \in Seq(Message) : q = queue /\ Len(q) < QueueCap
    BY Zenon, <2>1, ControlFacts DEF Room
  <2>6. PICK p : p = pass
    BY Zenon
  <2>7. QueueInv(q, p)
    BY Zenon, <2>5, <2>6, ControlFacts
  <2>8. Append(q, m) \in Seq(Message) /\ Len(Append(q, m)) <= QueueCap /\ QueueInv(Append(q, m), p)
    BY Zenon, <2>4, <2>5, <2>7, SendMessage
  <2>9. UNCHANGED pass
    BY Zenon DEF ExecutePayload
  <2>10. queue' \in Seq(Message) /\ Len(queue') <= QueueCap /\ QueueInv(queue', pass')
    BY Zenon, <2>1, <2>3, <2>5, <2>6, <2>8, <2>9
  <2> QED BY Zenon, <2>2, <2>9, <2>10, ControlFacts, ControlStep DEF ExecutePayload
<1> QED BY Zenon, <1>1, <1>2

\* The pass sends the message it will wait for.
LEMMA PassSends ==
    ASSUME IInv, Room, pass.pc \notin {"ping", "sent"}, NEW m \in Message, MsgOK(m, pass'),
           queue' = Append(queue, m)
    PROVE  queue' \in Seq(Message) /\ Len(queue') <= QueueCap /\ QueueInv(queue', pass')
<1>1. PICK q \in Seq(Message) : q = queue /\ Len(q) < QueueCap
  BY Zenon, ControlFacts DEF Room
<1>2. PICK p0 : p0 = pass
  BY Zenon
<1>3. PICK p : p = pass'
  BY Zenon
<1>4. QueueInv(q, p0)
  BY Zenon, <1>1, <1>2, ControlFacts
<1>5. QueueInv(q, p) /\ \A i \in 1 .. Len(q) : ~Owed(q[i])
  BY Zenon, <1>2, <1>4, NothingOwed
<1>6. MsgOK(m, p)
  BY Zenon, <1>3
<1>7. Append(q, m) \in Seq(Message) /\ Len(Append(q, m)) <= QueueCap /\ QueueInv(Append(q, m), p)
  BY Zenon, <1>1, <1>5, <1>6, SendMessage
<1> QED BY Zenon, <1>1, <1>3, <1>7

\* The next block to execute again is one of those left, and not genesis.
LEMMA LowestTodoType ==
    ASSUME IInv, pass.todo # {}
    PROVE  LowestTodo \in Block \ {Genesis} /\ LowestTodo \in pass.todo
<1>1. PICK S \in SUBSET Block : S = pass.todo /\ S # {} /\ Genesis \notin S
  BY Zenon, ControlFacts
<1>2. PICK a \in S : \A c \in S : Number[a] <= Number[c]
  BY Zenon, <1>1, LowestBlock
<1>3. LowestTodo \in S
  BY Zenon, <1>1, <1>2 DEF LowestTodo
<1> QED BY Zenon, <1>1, <1>3

-----------------------------------------------------------------------------
(* Fork choice, the deep-reorg pass and the restart.                       *)

\* A shallow fork choice.
LEMMA ShallowKeeps == ASSUME IInv, NEW fc \in FcState, ShallowForkChoice(fc) PROVE IInv'
<1>1. fc.head \in Block /\ fc.fin \in Block \cup {NoBlock}
  BY Zenon, StoreAssumption
<1>2. PICK h \in Block : h = fc.head
  BY Zenon, <1>1
<1>3. PICK f \in Block \cup {NoBlock} : f = fc.fin
  BY Zenon, <1>1
<1>4. /\ forkchoice_update(Branch(canonical, h), h, f, TRUE)
      /\ UNCHANGED <<known, cache_vars, disk, last_flush_result, exec, stray, faults>>
      /\ pass' = pass
  BY Zenon, <1>2, <1>3 DEF ShallowForkChoice
<1> QED BY Zenon, <1>4, UpdateStep

\* The overlay a deep reorg builds is a diff of the journal's entries.
LEMMA OverlayType ==
    ASSUME TypeOK, NEW from \in Height, NEW to \in Nat, to <= from
    PROVE  from_journal(from, to) \in OverlayState
<1>0. \A n \in Nat : n <= from => n \in Height
  BY Zenon, HeightsBelow
<1>1. from \in Nat /\ to \in Height
  BY <1>0, GenesisAssumption DEF Height
<1>2. \A n \in Height : journal[n] \in EntryState
  BY Zenon DEF TypeOK
<1>3. ASSUME NEW k \in Key
      PROVE  from_journal(from, to).diff[k] \in Block \cup {NoBlock}
  <2> DEFINE E == {n \in to .. from : journal[n].diff[k] # NoBlock}
             oldest == CHOOSE n \in E : \A m \in E : n <= m
  <2>1. from_journal(from, to).diff[k] = IF E = {} THEN NoBlock ELSE journal[oldest].diff[k]
    BY Zenon DEF from_journal
  <2>2. CASE E # {}
    <3>1. E \in SUBSET (0 .. from)
      BY <1>1
    <3>2. oldest \in E
      BY ZenonT(60), <2>2, <3>1, Bounds
    <3>3. oldest \in Height
      BY <1>0, <1>1, <3>2
    <3>4. journal[oldest].diff[k] \in Block \cup {NoBlock}
      BY Zenon, <1>2, <3>3 DEF EntryState, Diff
    <3> QED BY Zenon, <2>1, <2>2, <3>4
  <2> QED BY ZenonT(60), <2>1, <2>2
<1>4. journal[to].parent \in Block \cup {NoBlock}
  BY Zenon, <1>1, <1>2 DEF EntryState
<1>5. from_journal(from, to).diff = [k \in Key |-> from_journal(from, to).diff[k]]
  BY DEF from_journal
<1>6. from_journal(from, to).diff \in Diff
  BY Zenon, <1>3, <1>5 DEF Diff
<1>7. from_journal(from, to) = [serves |-> journal[to].parent, to |-> to, from |-> from,
                                diff |-> from_journal(from, to).diff]
  BY Zenon DEF from_journal
<1> QED BY <1>1, <1>4, <1>6, <1>7 DEF OverlayState

\* Claiming the reorg slot and building the overlay.
LEMMA BeginKeeps == ASSUME IInv, NEW fc \in FcState, BeginDeepReorg(fc) PROVE IInv'
<1>0. TypeOK /\ TableInv /\ PassInv /\ DiskInv
  BY Zenon DEF IInv
<1>1. PICK h \in Block : h = fc.head
  BY Zenon, StoreAssumption
<1>2. fc.fin \in Block \cup {NoBlock}
  BY Zenon, StoreAssumption
<1>3. PICK v \in Block : v = Pivot(canonical, h)
  BY Zenon, <1>0, PivotFacts DEF TableInv
<1>4. Number[v] \in Nat /\ Number[v] + 1 \in Nat
  BY SMTT(30), SelfAncestor
<1>5. /\ pass.pc = "idle" /\ Room /\ queue' = Append(queue, Msg("ping", NoBlock, "install"))
      /\ \E n \in Height : journal[n] # NoEntry
      /\ Edge >= Number[v] + 1
      /\ JournalMatches(Edge, Number[v] + 1)
      /\ pass' = [pc |-> "ping", head |-> fc.head, fin |-> fc.fin,
                  todo |-> Side(canonical, fc.head),
                  overlay |-> from_journal(Edge, Number[v] + 1),
                  base |-> disk[RootKey]]
      /\ UNCHANGED <<chain_vars, cache_vars, disk_vars, last_flush_result, exec, stray, faults>>
  BY Zenon, <1>1, <1>3 DEF BeginDeepReorg
<1>6. PICK e \in Height : e = Edge /\ journal[e] # NoEntry /\ \A m \in Height : journal[m] # NoEntry => m <= e
  BY Zenon, <1>0, <1>5, EdgeFacts DEF TableInv
<1>7. e \in Nat /\ Number[v] + 1 <= e
  BY <1>4, <1>5, <1>6, GenesisAssumption DEF Height
<1>8. PICK to \in Nat : to = Number[v] + 1
  BY Zenon, <1>4
<1>9. PICK o : o = from_journal(e, to)
  BY Zenon
<1>10. o \in OverlayState
  BY Zenon, <1>0, <1>7, <1>8, <1>9, OverlayType
<1>11. PICK S : S = Side(canonical, fc.head)
  BY Zenon
<1>12. S \in SUBSET Block /\ Genesis \notin S
  <2>1. S = {a \in Anc[h] : Number[a] > Number[v]}
    BY Zenon, <1>1, <1>3, <1>11 DEF Side
  <2>2. ~(Number[Genesis] > Number[v])
    BY <1>4, GenesisAssumption
  <2> QED BY Zenon, <2>1, <2>2, SelfAncestor
<1>13. PICK r \in Block : r = disk[RootKey]
  BY Zenon, <1>0, WritesAssumption DEF TypeOK
<1>14. pass' = [pc |-> "ping", head |-> h, fin |-> fc.fin, todo |-> S, overlay |-> o, base |-> r]
  BY ZenonT(60), <1>1, <1>5, <1>6, <1>8, <1>9, <1>11, <1>13
<1>15. /\ pass' \in PassState /\ pass'.pc = "ping" /\ pass'.head = h /\ pass'.todo = S
       /\ pass'.overlay = o /\ pass'.base = r
  BY Zenon, <1>2, <1>10, <1>12, <1>14 DEF PassState
<1>16. ASSUME ~stray PROVE OverlayOK(o, r)
  <2>1. JournalOK(journal, r)
    BY ZenonT(60), <1>0, <1>13, <1>16 DEF DiskInv
  <2>2. /\ journal[e].block \in Anc[r] /\ Number[journal[e].block] = e
        /\ e < Number[r] => e + 1 \in Height /\ journal[e + 1] # NoEntry
    BY Zenon, <1>6, <2>1 DEF JournalOK
  <2>3. e <= Number[r] /\ Number[r] \in Nat
    BY SMTT(60), <2>2, AncestryAssumption, SelfAncestor
  <2>4. ~(e < Number[r])
    BY <1>6, <1>7, <2>2
  <2>5. e = Number[r]
    BY <1>7, <2>3, <2>4
  <2>6. \A n \in to .. e : n \in Height /\ journal[n] # NoEntry
    <3>1. ASSUME NEW n \in to .. e PROVE n \in Height /\ journal[n] # NoEntry
      <4>1. n \in Nat /\ n <= e
        BY <1>7
      <4>2. n \in Height
        BY Zenon, <4>1, HeightsBelow
      <4>3. JournalMatches(e, to)
        BY Zenon, <1>5, <1>6, <1>8
      <4> QED BY Zenon, <4>2, <4>3 DEF JournalMatches
    <3> QED BY Zenon, <3>1
  <2> QED BY Zenon, <1>7, <1>8, <1>9, <2>1, <2>5, <2>6, FromJournal
<1>17. PICK m : m = Msg("ping", NoBlock, "install")
  BY Zenon
<1>18. m \in Message /\ MsgOK(m, pass')
  BY Zenon, <1>15, <1>17 DEF Msg, Message, MsgOK
<1>19. queue' \in Seq(Message) /\ Len(queue') <= QueueCap /\ QueueInv(queue', pass')
  BY Zenon, <1>5, <1>17, <1>18, PassSends
<1>20. exec' = exec /\ (stray \/ OverlayOK(pass'.overlay, pass'.base))
  BY Zenon, <1>5, <1>15, <1>16
<1> QED BY Zenon, <1>5, <1>12, <1>15, <1>19, <1>20, ControlFacts, ControlStep

\* The new cache with the overlay replaces the old one.
LEMMA InstallOverlayKeeps == IInv /\ InstallOverlay => IInv'
<1> SUFFICES ASSUME IInv, InstallOverlay PROVE IInv'
  BY Zenon
<1>0. TypeOK /\ TableInv /\ PassInv /\ DiskInv
  BY Zenon DEF IInv
<1>1. /\ pass.pc = "swap" /\ layers' = {} /\ older' = [b \in Block |-> {}]
      /\ overlay' = pass.overlay /\ stray' = (stray \/ disk[RootKey] # pass.base)
      /\ pass' = [pass EXCEPT !.pc = "replay"]
      /\ UNCHANGED <<chain_vars, disk_vars, queue, last_flush_result, exec, faults>>
  BY Zenon DEF InstallOverlay
<1>2. /\ pass' \in PassState /\ pass'.pc = "replay" /\ pass'.head = pass.head /\ pass'.todo = pass.todo
      /\ pass'.overlay = pass.overlay /\ pass'.base = pass.base /\ pass.overlay \in OverlayState
  BY Zenon, <1>0, <1>1 DEF TypeOK, PassState
<1>3. TypeOK'
  BY Zenon, <1>0, <1>1, <1>2 DEF TypeOK, chain_vars, disk_vars
<1>4. TableInv'
  BY Zenon, <1>0, <1>1 DEF TableInv, chain_vars, disk_vars
<1>5. PassInv'
  <2>1. PICK p : p = pass'
    BY Zenon
  <2>2. QueueInv(queue, p)
    BY Zenon, <1>1, QueueMoves, ControlFacts
  <2> QED BY Zenon, <1>0, <1>1, <1>2, <2>1, <2>2 DEF PassInv
<1>6. DiskInv'
  <2>1. CASE stray'
    BY Zenon, <2>1 DEF DiskInv
  <2>2. CASE ~stray'
    <3>1. ~stray /\ disk[RootKey] = pass.base
      BY Zenon, <1>1, <2>2
    <3>2. OverlayOK(overlay, disk[RootKey])' /\ OverlayOK(pass.overlay, pass.base)'
      BY Zenon, <1>0, <1>1, <1>2, <3>1 DEF DiskInv, OverlayOK, disk_vars
    <3>3. JournalOK(journal, disk[RootKey])'
      BY Zenon, <1>0, <1>1, <3>1 DEF DiskInv, JournalOK, disk_vars
    <3> QED BY Zenon, <1>0, <1>1, <3>1, <3>2, <3>3 DEF DiskInv, disk_vars
  <2> QED BY Zenon, <2>1, <2>2
<1> QED BY Zenon, <1>3, <1>4, <1>5, <1>6 DEF IInv

\* Executing the side chain again, block by block, and giving up.
LEMMA ReplayKeeps == IInv /\ (ReplayBlock \/ AbortDeepReorg) => IInv'
<1> SUFFICES ASSUME IInv, ReplayBlock \/ AbortDeepReorg PROVE IInv'
  BY Zenon
<1>1. CASE ReplayBlock
  <2>1. /\ pass.pc = "replay" /\ pass.todo # {} /\ Room
        /\ queue' = Append(queue, Msg("block", LowestTodo, "replay"))
        /\ pass' = [pass EXCEPT !.pc = "sent", !.todo = @ \ {LowestTodo}]
        /\ UNCHANGED <<chain_vars, cache_vars, disk_vars, last_flush_result, exec, stray, faults>>
    BY Zenon, <1>1 DEF ReplayBlock
  <2>2. PICK l \in Block \ {Genesis} : l = LowestTodo
    BY Zenon, <2>1, LowestTodoType
  <2>3. /\ pass' \in PassState /\ pass'.pc = "sent" /\ pass'.head \in Block /\ Genesis \notin pass'.todo
        /\ pass'.overlay = pass.overlay /\ pass'.base = pass.base
    BY Zenon, <2>1, <2>2, ControlFacts DEF PassState
  <2>4. PICK m : m = Msg("block", l, "replay")
    BY Zenon
  <2>5. m \in Message /\ MsgOK(m, pass')
    BY Zenon, <2>2, <2>3, <2>4 DEF Msg, Message, MsgOK
  <2>6. queue' \in Seq(Message) /\ Len(queue') <= QueueCap /\ QueueInv(queue', pass')
    BY Zenon, <2>1, <2>2, <2>4, <2>5, PassSends
  <2>7. stray \/ OverlayOK(pass'.overlay, pass'.base)
    BY Zenon, <2>3, ControlFacts
  <2> QED BY Zenon, <2>1, <2>3, <2>6, <2>7, ControlFacts, ControlStep
<1>2. CASE AbortDeepReorg
  <2>1. /\ pass.pc \in {"abort", "replay"} /\ Room
        /\ queue' = Append(queue, Msg("ping", NoBlock, "abort"))
        /\ pass' = [pass EXCEPT !.pc = "ping"]
        /\ UNCHANGED <<chain_vars, cache_vars, disk_vars, last_flush_result, exec, stray, faults>>
    BY Zenon, <1>2 DEF AbortDeepReorg
  <2>2. /\ pass' \in PassState /\ pass'.pc = "ping" /\ pass'.head \in Block /\ Genesis \notin pass'.todo
        /\ pass'.overlay = pass.overlay /\ pass'.base = pass.base
    BY Zenon, <2>1, ControlFacts DEF PassState
  <2>3. PICK m : m = Msg("ping", NoBlock, "abort")
    BY Zenon
  <2>4. m \in Message /\ MsgOK(m, pass')
    BY Zenon, <2>2, <2>3 DEF Msg, Message, MsgOK
  <2>5. queue' \in Seq(Message) /\ Len(queue') <= QueueCap /\ QueueInv(queue', pass')
    BY Zenon, <2>1, <2>3, <2>4, PassSends
  <2>6. stray \/ OverlayOK(pass'.overlay, pass'.base)
    BY Zenon, <2>2, ControlFacts
  <2> QED BY Zenon, <2>1, <2>2, <2>5, <2>6, ControlFacts, ControlStep
<1> QED BY Zenon, <1>1, <1>2

\* The cache is emptied: after a failed pass, or because the process stopped.
LEMMA ResetKeeps == IInv /\ (ResetCache \/ Crash) => IInv'
<1> SUFFICES ASSUME IInv, ResetCache \/ Crash PROVE IInv'
  BY Zenon
<1>0. TypeOK /\ TableInv /\ PassInv /\ DiskInv
  BY Zenon DEF IInv
<1>1. /\ layers' = {} /\ older' = [b \in Block |-> {}] /\ overlay' = NoOverlay
      /\ UNCHANGED <<known, canonical, latest, finalized, disk_vars, stray>>
      /\ safe_commit_root' \in {safe_commit_root, NoBlock}
      /\ last_flush_result' \in {last_flush_result, "Ok"}
  BY Zenon DEF ResetCache, Crash, chain_vars
<1>2. /\ pass' \in PassState /\ Genesis \notin pass'.todo /\ pass'.overlay = NoOverlay
      /\ pass'.pc \notin {"ping", "swap", "replay", "abort", "reset"}
  <2>1. CASE pass' = NoPass
    BY Zenon, <2>1, NoPassType DEF NoPass
  <2>2. CASE pass' = [NoPass EXCEPT !.pc = "boot"]
    BY Zenon, <2>2, NoPassType DEF NoPass, PassState
  <2> QED BY Zenon, <2>1, <2>2 DEF ResetCache, Crash
<1>3. queue' \in Seq(Message) /\ Len(queue') <= QueueCap /\ QueueInv(queue', pass')
  <2>1. CASE ResetCache
    <3>1. PICK p : p = pass'
      BY Zenon
    <3>2. QueueInv(queue, p)
      BY Zenon, <2>1, QueueMoves, ControlFacts DEF ResetCache
    <3> QED BY Zenon, <2>1, <3>1, <3>2, ControlFacts DEF ResetCache
  <2>2. CASE Crash
    <3>1. queue' = <<>>
      BY Zenon, <2>2 DEF Crash
    <3>2. Len(queue') = 0 /\ queue' \in Seq(Message)
      BY SMTT(60), <3>1
    <3> QED BY <3>2, StoreAssumption DEF QueueInv
  <2> QED BY Zenon, <2>1, <2>2
<1>4. /\ exec' \in [pc : {"idle", "queued", "sent"}, b : Block \cup {NoBlock}]
      /\ exec'.pc = "queued" => exec'.b \in Block \ {Genesis}
  <2>1. exec' = exec \/ exec' = NoExec
    BY Zenon DEF ResetCache, Crash
  <2> QED BY <2>1, ControlFacts DEF NoExec
<1>5. faults' \in 0 .. MaxFaults
  BY SMTT(60), <1>0, StoreAssumption DEF TypeOK, ResetCache, Crash
<1>6. overlay' \in OverlayState
  BY Zenon, <1>1 DEF NoOverlay, OverlayState, NoDiff, Diff
<1>7. TypeOK'
  BY Zenon, <1>0, <1>1, <1>2, <1>3, <1>4, <1>5, <1>6 DEF TypeOK, disk_vars
<1>8. TableInv'
  BY Zenon, <1>0, <1>1 DEF TableInv, disk_vars
<1>9. PassInv'
  BY Zenon, <1>2, <1>3, <1>4 DEF PassInv
<1>10. DiskInv'
  <2>1. OverlayOK(overlay, disk[RootKey])' /\ OverlayOK(pass.overlay, pass.base)'
    BY Zenon, <1>1, <1>2 DEF OverlayOK
  <2>2. JournalOK(journal, disk[RootKey]) => JournalOK(journal, disk[RootKey])'
    BY Zenon, <1>1 DEF JournalOK, disk_vars
  <2> QED BY Zenon, <1>0, <1>1, <2>1, <2>2 DEF DiskInv, disk_vars
<1> QED BY Zenon, <1>7, <1>8, <1>9, <1>10 DEF IInv

\* The end of a deep reorg.
LEMMA FinishKeeps == IInv /\ FinishDeepReorg => IInv'
<1> SUFFICES ASSUME IInv, FinishDeepReorg PROVE IInv'
  BY Zenon
<1>1. PICK h \in Block : h = pass.head
  BY Zenon, ControlFacts DEF FinishDeepReorg
<1>2. PICK f \in Block \cup {NoBlock} : f = pass.fin
  BY Zenon, ControlFacts DEF PassState
<1>3. /\ forkchoice_update(Branch(canonical, h), h, f, FALSE)
      /\ UNCHANGED <<known, cache_vars, disk, last_flush_result, exec, stray, faults>>
      /\ pass' = NoPass /\ pass.pc \notin {"ping", "sent"}
  BY Zenon, <1>1, <1>2 DEF FinishDeepReorg
<1> QED BY Zenon, <1>3, UpdateStep

\* The blocks adopt_committed_head_above walks are the branch of the committed head.
LEMMA AdoptBranch ==
    ASSUME TableInv, NEW c \in Block, canonical[latest] \in Anc[c]
    PROVE  {a \in Anc[c] : Number[a] > latest} \ {c} = Branch(canonical, c)
<1>1. PICK tip \in Block : tip = canonical[latest] /\ tip \in Anc[c] /\ Number[tip] = latest
  <2>1. latest \in Height /\ canonical[latest] \in Block
    BY Zenon DEF TableInv, ChainTo
  <2>2. latest <= latest
    BY <2>1, GenesisAssumption DEF Height
  <2> QED BY Zenon, <2>1, <2>2 DEF TableInv, ChainTo
<1>2. CanonicalAncestors(canonical, c) = Anc[tip]
  <2>1. \A b \in Block : is_canonical(canonical, b) <=> b \in Anc[tip]
    BY Zenon, <1>1, CanonicalIsAncestor DEF TableInv
  <2>2. Anc[tip] \subseteq Anc[c] /\ Anc[c] \subseteq Block
    BY <1>1, AncestryAssumption, SelfAncestor
  <2> QED BY Zenon, <2>1, <2>2 DEF CanonicalAncestors
<1>3. Pivot(canonical, c) = Highest(Anc[tip])
  BY Zenon, <1>2 DEF Pivot, Highest
<1>4. tip \in Anc[tip] /\ \A x \in Anc[tip] : Number[x] <= Number[tip]
  BY Zenon, SelfAncestor, AncestryAssumption
<1>5. Highest(Anc[tip]) = tip
  BY Zenon, <1>4, HighestUnique
<1> QED BY Zenon, <1>1, <1>3, <1>5 DEF Branch, Side

\* Adopting the committed head at start.
LEMMA AdoptKeeps == IInv /\ AdoptHead => IInv'
<1> SUFFICES ASSUME IInv, AdoptHead PROVE IInv'
  BY Zenon
<1>0. TypeOK /\ TableInv
  BY Zenon DEF IInv
<1>1. PICK c \in Block : c = journal[Edge].block /\ canonical[latest] \in Anc[c]
  BY Zenon, <1>0 DEF AdoptHead, CanAdopt, TypeOK
<1>2. {a \in Anc[c] : Number[a] > latest} \ {c} = Branch(canonical, c)
  BY Zenon, <1>0, <1>1, AdoptBranch
<1>3. forkchoice_update({a \in Anc[c] : Number[a] > latest} \ {c}, c, NoBlock, TRUE)
  BY Zenon, <1>1 DEF AdoptHead
<1>4. forkchoice_update(Branch(canonical, c), c, NoBlock, TRUE)
  BY ZenonT(60), <1>2, <1>3 DEF forkchoice_update
<1>5. /\ UNCHANGED <<known, cache_vars, disk, last_flush_result, exec, stray, faults>>
      /\ pass' = NoPass /\ pass.pc \notin {"ping", "sent"}
  BY Zenon DEF AdoptHead
<1> QED BY ZenonT(60), <1>4, <1>5, UpdateStep

\* The canonical blocks above a height are blocks, and none is genesis.
LEMMA CanonicalAbove ==
    ASSUME TableInv, NEW last \in Nat
    PROVE  /\ {canonical[n] : n \in last + 1 .. latest} \in SUBSET Block
           /\ Genesis \notin {canonical[n] : n \in last + 1 .. latest}
<1>1. latest \in Height /\ latest \in Nat
  BY SMTT(60), GenesisAssumption DEF TableInv, ChainTo, Height
<1>2. ASSUME NEW n \in last + 1 .. latest PROVE canonical[n] \in Block \ {Genesis}
  <2>1. n \in Nat /\ n <= latest /\ n # 0
    BY <1>1
  <2>2. n \in Height
    BY Zenon, <1>1, <2>1, HeightsBelow
  <2>3. canonical[n] \in Anc[canonical[latest]] /\ Number[canonical[n]] = n /\ canonical[latest] \in Block
    BY Zenon, <2>1, <2>2 DEF TableInv, ChainTo
  <2> QED BY Zenon, <2>1, <2>3, SelfAncestor, GenesisAssumption
<1> QED BY Zenon, <1>2

\* Looking for a state to start from, and executing from there.
LEMMA RegenerateKeeps == IInv /\ (FindState \/ RegenerateBlock \/ RegenerationDone) => IInv'
<1> SUFFICES ASSUME IInv, FindState \/ RegenerateBlock \/ RegenerationDone PROVE IInv'
  BY Zenon
<1>0. TypeOK /\ TableInv
  BY Zenon DEF IInv
<1>1. CASE FindState
  <2>1. /\ pass.pc = "boot" /\ UNCHANGED <<queue, exec>>
        /\ UNCHANGED <<chain_vars, cache_vars, disk_vars, last_flush_result, stray, faults>>
    BY Zenon, <1>1 DEF FindState
  <2>2. /\ pass' \in PassState /\ Genesis \notin pass'.todo /\ pass'.overlay = pass.overlay /\ pass'.base = pass.base
        /\ pass'.pc \notin {"ping", "swap", "replay", "abort", "reset"}
    <3>1. CASE WithState = {}
      <4>1. pass' = [pass EXCEPT !.pc = "bricked"]
        BY Zenon, <1>1, <3>1 DEF FindState
      <4> QED BY Zenon, <4>1, ControlFacts DEF PassState
    <3>2. CASE WithState # {}
      <4> DEFINE last == CHOOSE n \in WithState : \A m \in WithState : m <= n
      <4>1. WithState \in SUBSET (0 .. latest) /\ latest \in Height
        BY Zenon, <1>0 DEF WithState, TypeOK
      <4>2. PICK S : S = WithState
        BY Zenon
      <4>3. PICK top \in Height : top = latest
        BY Zenon, <4>1
      <4>4. \E n \in S : \A m \in S : m <= n
        BY Zenon, <3>2, <4>1, <4>2, <4>3, Bounds
      <4>5. last \in Nat
        <5>1. \E n \in WithState : \A m \in WithState : m <= n
          BY Zenon, <4>2, <4>4
        <5>2. last \in WithState
          BY Zenon, <5>1
        <5> HIDE DEF last
        <5> QED BY <4>1, <5>2
      <4>6. pass' = [pass EXCEPT !.pc = "regen", !.todo = {canonical[n] : n \in last + 1 .. latest}]
        BY Zenon, <1>1, <3>2 DEF FindState
      <4> HIDE DEF last
      <4>7. PICK l \in Nat : l = last
        BY Zenon, <4>5
      <4>8. PICK T : T = {canonical[n] : n \in last + 1 .. latest}
        BY ZenonT(60)
      <4>9. T \in SUBSET Block /\ Genesis \notin T
        BY Zenon, <1>0, <4>7, <4>8, CanonicalAbove
      <4>10. pass' = [pass EXCEPT !.pc = "regen", !.todo = T]
        BY Zenon, <4>6, <4>8
      <4> QED BY Zenon, <4>9, <4>10, ControlFacts DEF PassState
    <3> QED BY Zenon, <3>1, <3>2
  <2>3. PICK p : p = pass'
    BY Zenon
  <2>4. QueueInv(queue, p)
    BY Zenon, <2>1, QueueMoves, ControlFacts
  <2>5. QueueInv(queue', pass') /\ (stray \/ OverlayOK(pass'.overlay, pass'.base))
    BY Zenon, <2>1, <2>2, <2>3, <2>4, ControlFacts
  <2> QED BY Zenon, <2>1, <2>2, <2>5, ControlFacts, ControlStep
<1>2. CASE RegenerateBlock
  <2>1. /\ pass.pc = "regen" /\ pass.todo # {} /\ exec' = exec
        /\ UNCHANGED <<chain_vars, cache_vars, disk_vars, last_flush_result, stray, faults>>
    BY Zenon, <1>2 DEF RegenerateBlock
  <2>2. PICK l \in Block \ {Genesis} : l = LowestTodo
    BY Zenon, <2>1, LowestTodoType
  <2>3. CASE /\ Room /\ queue' = Append(queue, Msg("block", LowestTodo, "regen"))
             /\ pass' = [pass EXCEPT !.pc = "sent", !.todo = @ \ {LowestTodo}]
    <3>1. /\ pass' \in PassState /\ pass'.pc = "sent" /\ Genesis \notin pass'.todo
          /\ pass'.overlay = pass.overlay /\ pass'.base = pass.base
      BY ZenonT(60), <2>2, <2>3, ControlFacts DEF PassState
    <3>2. PICK m : m = Msg("block", l, "regen")
      BY Zenon
    <3>3. m \in Message /\ MsgOK(m, pass')
      BY Zenon, <2>2, <3>1, <3>2 DEF Msg, Message, MsgOK
    <3>4. queue' \in Seq(Message) /\ Len(queue') <= QueueCap /\ QueueInv(queue', pass')
      BY Zenon, <2>1, <2>2, <2>3, <3>2, <3>3, PassSends
    <3>5. stray \/ OverlayOK(pass'.overlay, pass'.base)
      BY Zenon, <3>1, ControlFacts
    <3> QED BY Zenon, <2>1, <3>1, <3>4, <3>5, ControlFacts, ControlStep
  <2>4. CASE pass' = [pass EXCEPT !.pc = "bricked"] /\ UNCHANGED queue
    <3>1. /\ pass' \in PassState /\ pass'.pc = "bricked" /\ Genesis \notin pass'.todo
          /\ pass'.overlay = pass.overlay /\ pass'.base = pass.base
      BY Zenon, <2>4, ControlFacts DEF PassState
    <3>2. PICK p : p = pass'
      BY Zenon
    <3>3. QueueInv(queue, p)
      BY Zenon, <2>1, QueueMoves, ControlFacts
    <3>4. QueueInv(queue', pass') /\ (stray \/ OverlayOK(pass'.overlay, pass'.base))
      BY Zenon, <2>4, <3>1, <3>2, <3>3, ControlFacts
    <3> QED BY Zenon, <2>1, <2>4, <3>1, <3>4, ControlFacts, ControlStep
  <2> QED BY Zenon, <1>2, <2>3, <2>4 DEF RegenerateBlock
<1>3. CASE RegenerationDone
  <2>1. pass.pc = "regen" /\ pass' = NoPass /\ UNCHANGED <<queue, exec>>
    BY Zenon, <1>3 DEF RegenerationDone
  <2>6. UNCHANGED <<chain_vars, cache_vars, disk_vars, last_flush_result, stray, faults>>
    BY Zenon, <1>3 DEF RegenerationDone
  <2>2. /\ pass' \in PassState /\ Genesis \notin pass'.todo /\ pass'.pc = "idle"
        /\ OverlayOK(pass'.overlay, pass'.base)
    BY Zenon, <2>1, NoPassType DEF NoPass, OverlayOK
  <2>3. PICK p : p = pass'
    BY Zenon
  <2>4. QueueInv(queue, p)
    BY Zenon, <2>1, QueueMoves, ControlFacts
  <2>5. QueueInv(queue', pass')
    BY Zenon, <2>1, <2>3, <2>4
  <2> QED BY Zenon, <2>1, <2>2, <2>5, <2>6, ControlFacts, ControlStep
<1> QED BY Zenon, <1>1, <1>2, <1>3

-----------------------------------------------------------------------------
(* The theorems.                                                           *)

\* A fresh database satisfies the invariant.
LEMMA InitHolds == Init => IInv
<1> SUFFICES ASSUME Init PROVE IInv
  BY Zenon
<1>0. /\ 0 \in Height /\ \A n \in Height : n \in Nat
      /\ Anc[Genesis] = {Genesis} /\ Number[Genesis] = 0
      /\ State[Genesis] \in [Key -> Block] /\ State[Genesis][RootKey] = Genesis
      /\ NoEntry \in EntryState /\ NoOverlay \in OverlayState
  <2>1. NoEntry \in EntryState /\ NoOverlay \in OverlayState
    BY Zenon DEF NoEntry, EntryState, NoOverlay, OverlayState, NoDiff, Diff
  <2> QED BY SMTT(60), <2>1, GenesisAssumption, AncestorAssumption, StateFacts DEF Height
<1>1. TypeOK
  <2>1. exec \in [pc : {"idle", "queued", "sent"}, b : Block \cup {NoBlock}]
    BY Zenon DEF Init, NoExec
  <2>2. queue \in Seq(Message) /\ Len(queue) <= QueueCap
    <3>1. queue = <<>>
      BY Zenon DEF Init
    <3>2. queue \in Seq(Message) /\ Len(queue) = 0
      BY SMTT(30), <3>1
    <3> QED BY <3>2, StoreAssumption
  <2>3. /\ known \in SUBSET Block /\ canonical \in [Height -> Block \cup {NoBlock}]
        /\ latest \in Height /\ finalized \in Height \cup {-1} /\ safe_commit_root \in Block \cup {NoBlock}
    BY Zenon, <1>0, GenesisAssumption DEF Init
  <2>4. layers \in SUBSET Block /\ older \in [Block -> SUBSET Block] /\ overlay \in OverlayState
    BY Zenon, <1>0 DEF Init
  <2>5. /\ disk \in [Key -> Block] /\ journal \in [Height -> EntryState] /\ last_flush_result \in {"Ok", "Err"}
        /\ stray \in BOOLEAN
    BY ZenonT(60), <1>0 DEF Init
  <2>6. faults \in 0 .. MaxFaults
    BY StoreAssumption DEF Init
  <2>7. pass \in PassState
    BY Zenon, NoPassType DEF Init
  <2> QED BY Zenon, <2>1, <2>2, <2>3, <2>4, <2>5, <2>6, <2>7 DEF TypeOK
<1>2. TableInv
  <2>1. ChainTo(canonical, latest)
    BY SMTT(60), <1>0, GenesisAssumption DEF Init, ChainTo
  <2> QED BY Zenon, <1>0, <2>1 DEF Init, TableInv
<1>3. PassInv
  <2>1. queue = <<>> /\ pass = NoPass /\ exec = NoExec
    BY Zenon DEF Init
  <2>2. Len(queue) = 0
    BY Zenon, <2>1
  <2> QED BY <2>1, <2>2 DEF PassInv, QueueInv, NoPass, NoExec
<1>4. DiskInv
  BY Zenon, <1>0 DEF Init, DiskInv, JournalOK, OverlayOK, NoPass
<1> QED BY Zenon, <1>1, <1>2, <1>3, <1>4 DEF IInv

\* Every step of the store keeps it.
LEMMA NextKeeps == IInv /\ [Next]_vars => IInv'
<1> SUFFICES ASSUME IInv, [Next]_vars PROVE IInv'
  BY Zenon
<1>1. CASE Worker
  BY Zenon, <1>1, InstallKeeps, WorkerCommitsKeep, WriteFailsKeeps, PingKeeps DEF Worker
<1>2. CASE Payload
  BY Zenon, <1>2, PayloadKeeps DEF Payload
<1>3. CASE ExecutePayload
  BY Zenon, <1>3, ExecuteKeeps
<1>4. CASE ForkChoiceCall
  BY Zenon, <1>4, ShallowKeeps, BeginKeeps DEF ForkChoiceCall
<1>5. CASE DeepReorg
  BY Zenon, <1>5, InstallOverlayKeeps, ReplayKeeps, ResetKeeps, FinishKeeps DEF DeepReorg
<1>6. CASE Crash
  BY Zenon, <1>6, ResetKeeps
<1>7. CASE Boot
  BY Zenon, <1>7, AdoptKeeps, RegenerateKeeps DEF Boot
<1>8. CASE UNCHANGED vars
  <2>1. TypeOK'
    BY Zenon, <1>8 DEF IInv, TypeOK, vars
  <2>2. TableInv'
    BY Zenon, <1>8 DEF IInv, TableInv, vars
  <2>3. PassInv'
    BY Zenon, <1>8 DEF IInv, PassInv, vars
  <2>4. DiskInv'
    BY Zenon, <1>8, DiskFrame DEF IInv, vars
  <2> QED BY Zenon, <2>1, <2>2, <2>3, <2>4 DEF IInv
<1> QED BY SMTT(30), <1>1, <1>2, <1>3, <1>4, <1>5, <1>6, <1>7, <1>8 DEF Next

\* The invariant holds throughout.
LEMMA StoreInvariant == Spec => []IInv
BY InitHolds, NextKeeps, PTL DEF Spec

\* The on-disk trie is the state of one block after every commit, deep reorg,
\* failed write and restart (commit_to_disk), unless a diff was laid over a
\* foreign base.
THEOREM DiskIsOneStateAlways == Spec => []DiskIsOneState
<1>1. IInv => DiskIsOneState
  BY Zenon DEF IInv, DiskInv, DiskIsOneState
<1> QED BY <1>1, StoreInvariant, PTL

\* The STATE_HISTORY journal undoes the blocks of the disk's state one by one,
\* through batched commits, reconciliations and pruning.
THEOREM JournalReversesAlways == Spec => []JournalReverses
<1>1. IInv => JournalReverses
  BY Zenon, JournalFollows DEF IInv
<1> QED BY <1>1, StoreInvariant, PTL

\* Overlay::from_journal over the disk shows the pivot's state for as long as it
\* is installed.
THEOREM OverlayShowsPivotAlways == Spec => []OverlayShowsPivot
<1>1. IInv => OverlayShowsPivot
  BY Zenon, OverlayFollows DEF IInv
<1> QED BY <1>1, StoreInvariant, PTL

\* TrieWrapper::get through layers, overlay and disk returns the state of the
\* block asked for, whenever the block's layers lead down to the base.
THEOREM AnchoredReadsAlways == Spec => []AnchoredReads
<1>1. IInv => AnchoredReads
  BY Zenon, ReadsFollow DEF IInv
<1> QED BY <1>1, StoreInvariant, PTL
=============================================================================
