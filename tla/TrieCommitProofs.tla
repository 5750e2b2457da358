-------------------------- MODULE TrieCommitProofs -------------------------
(***************************************************************************)
(* Proofs about TrieStore, first part: the invariant of the store, what    *)
(* follows from it, and what a commit and the queue's messages preserve,   *)
(* for every block tree, every set of paths and writes, any threshold and  *)
(* queue, and any number of crashes.                                       *)
(***************************************************************************)
EXTENDS TrieStore, TLAPS

-----------------------------------------------------------------------------
(* The fork-choice rules, for every block tree.                            *)

\* A canonical table that is exactly the ancestor chain of its head.
ChainTo(canon, n) ==
    /\ n \in Height
    /\ canon \in [Height -> Block \cup {NoBlock}]
    /\ canon[n] \in Block
    /\ \A m \in Height :
          /\ m <= n => canon[m] \in Anc[canon[n]] /\ Number[canon[m]] = m
          /\ m > n => canon[m] = NoBlock

\* Every block is its own ancestor and has a natural number as height.
LEMMA SelfAncestor ==
    ASSUME NEW b \in Block
    PROVE  /\ b \in Anc[b]
           /\ Anc[b] \in SUBSET Block
           /\ Number[b] \in Nat
           /\ Number[b] \in Height
BY Zenon, GenesisAssumption, AncestorAssumption DEF Height

\* In a linked table the canonical blocks are the head's ancestors.
LEMMA CanonicalIsAncestor ==
    ASSUME NEW canon, NEW n, ChainTo(canon, n), NEW b \in Block
    PROVE  is_canonical(canon, b) <=> b \in Anc[canon[n]]
<1> DEFINE tip == canon[n]
<1>1. tip \in Block /\ Number[b] \in Height /\ Number[tip] = n /\ Height \subseteq Nat
  BY SelfAncestor, GenesisAssumption DEF ChainTo, Height
<1>2. ASSUME is_canonical(canon, b) PROVE b \in Anc[tip]
  <2>1. Number[b] <= n
    BY <1>1, <1>2, GenesisAssumption DEF ChainTo, is_canonical
  <2> QED BY Zenon, <1>1, <1>2, <2>1 DEF ChainTo, is_canonical
<1>3. ASSUME b \in Anc[tip] PROVE is_canonical(canon, b)
  <2>1. Number[b] <= n
    BY <1>1, <1>3, AncestryAssumption
  <2>2. canon[Number[b]] \in Anc[tip] /\ Number[canon[Number[b]]] = Number[b]
    BY Zenon, <1>1, <2>1 DEF ChainTo
  <2> QED BY Zenon, <1>1, <1>3, <2>2, AncestryAssumption DEF is_canonical
<1> QED BY Zenon, <1>2, <1>3

\* The pivot of a head is a canonical ancestor of it, and every block of the
\* head's chain above the pivot is on the side branch.
LEMMA PivotFacts ==
    ASSUME NEW canon, NEW n, ChainTo(canon, n), NEW h \in Block
    PROVE  /\ Pivot(canon, h) \in Block
           /\ Pivot(canon, h) \in Anc[h]
           /\ Pivot(canon, h) \in Anc[canon[n]]
<1> DEFINE tip == canon[n]
<1>1. tip \in Block
  BY Zenon DEF ChainTo
<1>2. CanonicalAncestors(canon, h) = Anc[h] \cap Anc[tip]
  BY Zenon, CanonicalIsAncestor, SelfAncestor DEF CanonicalAncestors
<1>3. PICK m \in Block : Anc[h] \cap Anc[tip] = Anc[m]
  BY Zenon, <1>1, MeetAssumption
<1>4. m \in CanonicalAncestors(canon, h)
  BY Zenon, <1>2, <1>3, SelfAncestor
<1>5. \A c \in CanonicalAncestors(canon, h) : Number[c] <= Number[m]
  BY Zenon, <1>2, <1>3, AncestryAssumption
<1>6. Pivot(canon, h) \in CanonicalAncestors(canon, h)
  BY Zenon, <1>4, <1>5 DEF Pivot
<1> QED BY Zenon, <1>2, <1>6, SelfAncestor

\* Store::forkchoice_update keeps the canonical table an ancestor chain, when
\* the branch it is given was computed against the table it updates.
LEMMA CanonicalAfterLinked ==
    ASSUME NEW canon, NEW n, ChainTo(canon, n), NEW h \in Block
    PROVE  ChainTo(CanonicalAfter(canon, n, Branch(canon, h), h), Number[h])
<1> DEFINE new == CanonicalAfter(canon, n, Branch(canon, h), h)
           p == Pivot(canon, h)
           br == Branch(canon, h)
<1>0. p \in Block /\ p \in Anc[h] /\ p \in Anc[canon[n]]
  BY Zenon, PivotFacts
<1> HIDE DEF p
<1>1. /\ p \in Block /\ p \in Anc[h] /\ p \in Anc[canon[n]]
      /\ canon[n] \in Block /\ n \in Nat /\ Height \subseteq Nat
      /\ Number[h] \in Height /\ Number[h] \in Nat
      /\ Number[p] \in Nat /\ Number[canon[n]] = n
  BY <1>0, SelfAncestor, GenesisAssumption DEF ChainTo, Height
<1>2. \A b \in br : b \in Anc[h] /\ b \in Block /\ Number[b] <= Number[h]
  BY Zenon, AncestryAssumption, SelfAncestor DEF Branch, Side
<1>3. new \in [Height -> Block \cup {NoBlock}]
  BY Zenon, <1>2 DEF CanonicalAfter, ChainTo
<1>4. new[Number[h]] = h
  BY Zenon, <1>1 DEF CanonicalAfter
<1>5. ASSUME NEW m \in Height, m > Number[h] PROVE new[m] = NoBlock
  <2>1. ~ \E b \in br : Number[b] = m
    BY <1>1, <1>2, <1>5, SelfAncestor
  <2>2. m > n => canon[m] = NoBlock
    BY Zenon DEF ChainTo
  <2> QED BY <1>1, <1>5, <2>1, <2>2 DEF CanonicalAfter
<1>6. ASSUME NEW m \in Height, m < Number[h]
      PROVE  new[m] \in Anc[h] /\ Number[new[m]] = m
  <2>1. CASE \E b \in br : Number[b] = m
    <3>1. new[m] \in br /\ Number[new[m]] = m
      <4>1. m # Number[h] /\ ~(m > Number[h])
        BY <1>1, <1>6
      <4> HIDE DEF br
      <4> QED BY Zenon, <2>1, <4>1 DEF CanonicalAfter, br
    <3> QED BY Zenon, <1>2, <3>1
  <2>2. CASE ~ \E b \in br : Number[b] = m
    <3>1. new[m] = canon[m]
      <4>1. m # Number[h] /\ ~(m > Number[h])
        BY <1>1, <1>6
      <4> HIDE DEF br
      <4> QED BY Zenon, <2>2, <4>1 DEF CanonicalAfter, br
    <3>2. PICK a \in Anc[h] : Number[a] = m
      <4>1. m \in Nat
        BY Zenon, <1>1
      <4>2. m \in 0..Number[h]
        BY <1>1, <1>6, <4>1
      <4> QED BY Zenon, <4>2, AncestryAssumption
    <3>3. m <= Number[p]
      <4>1. a # h /\ a \notin Branch(canon, h)
        BY <1>1, <1>6, <2>2, <3>2
      <4> QED BY <1>1, <3>2, <4>1 DEF Branch, Side, p
    <3>4. m <= n
      BY <1>1, <3>3, AncestryAssumption
    <3>5. canon[m] \in Anc[canon[n]] /\ Number[canon[m]] = m
      BY Zenon, <3>4 DEF ChainTo
    <3>6. canon[m] \in Anc[p]
      BY <1>1, <3>3, <3>5, AncestryAssumption
    <3> QED BY <1>1, <3>1, <3>5, <3>6, AncestryAssumption
  <2> QED BY Zenon, <2>1, <2>2
<1>7. h \in Anc[h]
  BY Zenon, SelfAncestor
<1> HIDE DEF new
<1>8. ASSUME NEW m \in Height, m <= Number[h]
      PROVE  new[m] \in Anc[h] /\ Number[new[m]] = m
  <2>1. m \in Nat
    BY Zenon, <1>1
  <2>2. m = Number[h] \/ m < Number[h]
    BY <1>1, <1>8, <2>1
  <2> QED BY Zenon, <1>4, <1>6, <1>7, <2>2
<1> QED BY Zenon, <1>1, <1>3, <1>4, <1>5, <1>8 DEF ChainTo, new

\* compute_safe_commit_root reads a cell of the table, for any threshold.
LEMMA SafeRootType ==
    ASSUME NEW canon \in [Height -> Block \cup {NoBlock}], NEW h \in Block,
           NEW threshold \in Nat
    PROVE  compute_safe_commit_root(canon, threshold, h) \in Block \cup {NoBlock}
<1>1. CASE Number[h] >= threshold
  <2>1. Number[h] - threshold \in 0..Number[h]
    BY <1>1, SelfAncestor
  <2>2. PICK a \in Anc[h] : Number[a] = Number[h] - threshold
    BY Zenon, <2>1, AncestryAssumption
  <2>3. Number[h] - threshold \in Height
    BY Zenon, <2>2, SelfAncestor
  <2> QED BY Zenon, <1>1, <2>3 DEF compute_safe_commit_root
<1>2. CASE ~(Number[h] >= threshold)
  BY Zenon, <1>2 DEF compute_safe_commit_root
<1> QED BY Zenon, <1>1, <1>2

-----------------------------------------------------------------------------
(* The highest block of a chain, and the states of a chain of blocks.      *)

\* Blocks can be taken in the order of their numbers.
LEMMA LowestBlock ==
    ASSUME NEW S \in SUBSET Block, S # {}
    PROVE  \E a \in S : \A c \in S : Number[a] <= Number[c]
<1> DEFINE T == {Number[a] : a \in S}
<1>1. T \in SUBSET Height /\ T # {}
  BY Zenon DEF Height
<1>2. PICK t \in T : \A u \in T : t <= u
  BY Zenon, <1>1, LowestAssumption
<1> QED BY Zenon, <1>2

\* Down from a block's number every number is a height.
LEMMA HeightsBelow ==
    ASSUME NEW top \in Height, NEW n \in Nat, n <= top
    PROVE  n \in Height
<1>1. PICK b \in Block : top = Number[b]
  BY Zenon DEF Height
<1>2. n \in 0 .. Number[b]
  BY <1>1, GenesisAssumption
<1>3. PICK a \in Anc[b] : Number[a] = n
  BY Zenon, <1>2, AncestryAssumption
<1> QED BY Zenon, <1>3, SelfAncestor DEF Height

\* A set of numbers up to a height has a lowest and a highest one.
LEMMA Bounds ==
    ASSUME NEW top \in Height, NEW S \in SUBSET (0 .. top), S # {}
    PROVE  /\ \E n \in S : \A m \in S : n <= m
           /\ \E n \in S : \A m \in S : m <= n
<1>1. top \in Nat
  BY GenesisAssumption DEF Height
<1>2. \A n \in 0 .. top : n \in Height /\ top - n \in Height
  <2>1. \A n \in 0 .. top : n \in Nat /\ n <= top /\ top - n \in Nat /\ top - n <= top
    BY <1>1
  <2> QED BY Zenon, <2>1, HeightsBelow
<1>3. \E n \in S : \A m \in S : n <= m
  BY Zenon, <1>2, LowestAssumption
<1> DEFINE T == {top - n : n \in S}
<1>0. T \in SUBSET Height /\ T # {}
  BY Zenon, <1>2
<1>4. PICK t \in T : \A u \in T : t <= u
  BY Zenon, <1>0, LowestAssumption
<1>5. PICK n \in S : t = top - n
  BY Zenon
<1>6. ASSUME NEW m \in S PROVE m <= n
  <2>1. top - n <= top - m
    BY Zenon, <1>4, <1>5
  <2> QED BY <1>1, <2>1
<1> QED BY Zenon, <1>3, <1>6

\* A set of ancestors has a highest block, and Highest is that block.
LEMMA HighestIs ==
    ASSUME NEW b \in Block, NEW S \in SUBSET Anc[b], S # {}
    PROVE  Highest(S) \in S /\ \A c \in S : Number[c] <= Number[Highest(S)]
<1> DEFINE T == {Number[a] : a \in S}
<1>1. Number[b] \in Height /\ T \in SUBSET (0 .. Number[b]) /\ T # {}
  BY SelfAncestor, AncestryAssumption, GenesisAssumption
<1>2. PICK t \in T : \A u \in T : u <= t
  BY Zenon, <1>1, Bounds
<1> QED BY Zenon, <1>2 DEF Highest

\* There is only one.
LEMMA HighestUnique ==
    ASSUME NEW b \in Block, NEW S \in SUBSET Anc[b], NEW a \in S,
           \A c \in S : Number[c] <= Number[a]
    PROVE  Highest(S) = a
<1>1. Highest(S) \in S /\ Number[a] <= Number[Highest(S)]
  BY Zenon, HighestIs
<1>2. Number[Highest(S)] <= Number[a]
  BY Zenon, <1>1
<1>3. a \in Anc[b] /\ Highest(S) \in Anc[b] /\ Number[a] \in Nat /\ Number[Highest(S)] \in Nat
  BY Zenon, <1>1, SelfAncestor
<1>4. Number[a] = Number[Highest(S)]
  BY <1>1, <1>2, <1>3
<1> QED BY Zenon, <1>3, <1>4, AncestryAssumption

\* Every path has a version in every state, and the root's is the block itself.
LEMMA StateFacts ==
    ASSUME NEW b \in Block
    PROVE  State[b] \in [Key -> Block] /\ State[b][RootKey] = b
<1>1. ASSUME NEW k \in Key PROVE Highest(Writers(Anc[b], k)) \in Block
  <2>1. Genesis \in Writers(Anc[b], k) /\ Writers(Anc[b], k) \in SUBSET Anc[b]
    BY Zenon, AncestryAssumption, WritesAssumption DEF Writers
  <2>2. Highest(Writers(Anc[b], k)) \in Anc[b]
    BY Zenon, <2>1, HighestIs
  <2> QED BY Zenon, <2>2, SelfAncestor
<1>2. Highest(Writers(Anc[b], RootKey)) = b
  <2>1. b \in Writers(Anc[b], RootKey) /\ Writers(Anc[b], RootKey) \in SUBSET Anc[b]
    BY Zenon, SelfAncestor, WritesAssumption DEF Writers
  <2>2. \A c \in Writers(Anc[b], RootKey) : Number[c] <= Number[b]
    BY Zenon, <2>1, AncestryAssumption
  <2> QED BY Zenon, <2>1, <2>2, HighestUnique
<1> QED BY Zenon, <1>1, <1>2, WritesAssumption DEF State

\* The blocks of b's chain from a up.
From(a, b) == {x \in Anc[b] : Number[x] >= Number[a]}

\* The writes of a part of the chain, laid over the state below it, are the state
\* of its head.
LEMMA StateOver ==
    ASSUME NEW b \in Block, NEW a \in Anc[b], a # Genesis
    PROVE  WritesOver(From(a, b), State[Parent[a]]) = State[b]
<1>0. a \in Block /\ Parent[a] \in Block /\ Number[a] \in Nat /\ Number[a] = Number[Parent[a]] + 1
  BY Zenon, SelfAncestor, ParentAssumption
<1>1. /\ From(a, b) \in SUBSET Anc[b]
      /\ \A x \in Anc[b] : Number[x] \in Nat /\ x \in Block
  BY Zenon, SelfAncestor DEF From
<1>2. ASSUME NEW x \in Anc[b] PROVE x \notin From(a, b) <=> x \in Anc[Parent[a]]
  <2>1. Anc[a] = {a} \cup Anc[Parent[a]] /\ Anc[a] \subseteq Anc[b]
    BY Zenon, <1>0, AncestorAssumption, AncestryAssumption
  <2>2. ASSUME x \notin From(a, b) PROVE x \in Anc[Parent[a]]
    <3>1. Number[x] < Number[a]
      BY <1>0, <1>1, <2>2 DEF From
    <3>2. x \in Anc[a] /\ x # a
      BY <1>0, <1>1, <3>1, AncestryAssumption
    <3> QED BY Zenon, <2>1, <3>2
  <2>3. ASSUME x \in Anc[Parent[a]] PROVE x \notin From(a, b)
    <3>1. Number[x] <= Number[Parent[a]] /\ Number[Parent[a]] \in Nat
      BY Zenon, <1>0, <2>3, AncestryAssumption, SelfAncestor
    <3>2. Number[x] < Number[a]
      BY <1>0, <1>1, <3>1
    <3> QED BY <1>0, <1>1, <3>2 DEF From
  <2> QED BY Zenon, <2>2, <2>3
<1>3. Anc[Parent[a]] \subseteq Anc[b]
  BY <1>0, AncestorAssumption, AncestryAssumption
<1>4. ASSUME NEW k \in Key
      PROVE  (IF Writers(From(a, b), k) = {} THEN State[Parent[a]][k]
                                             ELSE Highest(Writers(From(a, b), k)))
               = State[b][k]
  <2>1. State[b][k] = Highest(Writers(Anc[b], k)) /\ State[Parent[a]][k] = Highest(Writers(Anc[Parent[a]], k))
    BY Zenon, <1>0 DEF State
  <2>2. CASE Writers(From(a, b), k) = {}
    <3>1. Writers(Anc[b], k) = Writers(Anc[Parent[a]], k)
      BY Zenon, <1>2, <1>3, <2>2 DEF Writers
    <3> QED BY Zenon, <2>1, <2>2, <3>1
  <2>3. CASE Writers(From(a, b), k) # {}
    <3>1. PICK h : h = Highest(Writers(From(a, b), k))
      BY Zenon
    <3>2. Writers(From(a, b), k) \in SUBSET Anc[b]
      BY Zenon, <1>1 DEF Writers
    <3>3. h \in Writers(From(a, b), k) /\ \A c \in Writers(From(a, b), k) : Number[c] <= Number[h]
      BY Zenon, <2>3, <3>1, <3>2, HighestIs
    <3>4. h \in Writers(Anc[b], k) /\ Number[h] >= Number[a] /\ Writers(Anc[b], k) \in SUBSET Anc[b]
      BY Zenon, <3>3 DEF Writers, From
    <3>5. ASSUME NEW c \in Writers(Anc[b], k) PROVE Number[c] <= Number[h]
      <4>1. c \in Anc[b] /\ k \in Writes[c]
        BY Zenon DEF Writers
      <4>2. CASE c \in From(a, b)
        BY Zenon, <3>3, <4>1, <4>2 DEF Writers
      <4>3. CASE c \notin From(a, b)
        <5>1. Number[c] < Number[a]
          BY <1>0, <1>1, <4>1, <4>3 DEF From
        <5> QED BY <1>0, <1>1, <3>4, <4>1, <5>1
      <4> QED BY Zenon, <4>2, <4>3
    <3>6. Highest(Writers(Anc[b], k)) = h
      BY Zenon, <3>4, <3>5, HighestUnique
    <3> QED BY Zenon, <2>1, <2>3, <3>1, <3>6
  <2> QED BY Zenon, <2>2, <2>3
<1>5. State[b] = [k \in Key |-> State[b][k]]
  BY Zenon, StateFacts
<1> QED BY Zenon, <1>4, <1>5 DEF WritesOver

\* A block leaves the paths it does not write.
LEMMA StateStep ==
    ASSUME NEW b \in Block, b # Genesis, NEW k \in Key, k \notin Writes[b]
    PROVE  State[b][k] = State[Parent[b]][k]
<1>1. b \in Anc[b] /\ Number[b] \in Nat
  BY Zenon, SelfAncestor
<1>2. WritesOver(From(b, b), State[Parent[b]]) = State[b]
  BY Zenon, <1>1, StateOver
<1>3. \A x \in Anc[b] : Number[x] >= Number[b] => x = b
  <2>1. \A x \in Anc[b] : Number[x] <= Number[b] /\ Number[x] \in Nat
    BY Zenon, SelfAncestor, AncestryAssumption
  <2> QED BY <1>1, <2>1, AncestryAssumption
<1>4. Writers(From(b, b), k) = {}
  BY Zenon, <1>3 DEF Writers, From
<1> QED BY Zenon, <1>2, <1>4 DEF WritesOver
-----------------------------------------------------------------------------
(* The inductive invariant.                                                *)

\* The canonical table is the chain of the head, genesis has no layer, and the
\* journal ends somewhere.
TableInv ==
    /\ ChainTo(canonical, latest)
    /\ Genesis \notin layers
    /\ \E top \in Height : \A n \in Height : journal[n] # NoEntry => n <= top

\* The message the fork-choice caller or the startup code waits for.
Owed(m) == m.type = "ping" \/ (m.type = "block" /\ m.from \in {"replay", "regen"})

\* A message is one the pass p can be waiting for, and carries a block that is
\* not genesis.
MsgOK(m, p) ==
    /\ m.type \in {"block", "due"} => m.b \in Block \ {Genesis}
    /\ m.type = "ping" => p.pc = "ping"
    /\ m.type = "block" /\ m.from \in {"replay", "regen"} => p.pc = "sent"
    /\ m.type = "block" /\ m.from = "replay" => p.head \in Block

\* The pass waits for at most one message.
QueueInv(q, p) ==
    /\ \A i \in 1 .. Len(q) : MsgOK(q[i], p)
    /\ \A i, j \in 1 .. Len(q) : Owed(q[i]) /\ Owed(q[j]) => i = j

\* The pass waits only for messages it sent, and never executes genesis.
PassInv ==
    /\ QueueInv(queue, pass)
    /\ pass.pc \in {"ping", "swap", "replay", "abort", "reset"} => pass.head \in Block
    /\ Genesis \notin pass.todo
    /\ exec.pc = "queued" => exec.b \in Block \ {Genesis}

\* The journal undoes the disk's state block by block down to its lowest entry.
JournalOK(entries, r) ==
    \A n \in Height : entries[n] # NoEntry =>
        /\ entries[n].block \in Anc[r] \ {Genesis}
        /\ Number[entries[n].block] = n
        /\ entries[n].parent = Parent[entries[n].block]
        /\ Over(entries[n].diff, State[entries[n].block]) = State[entries[n].parent]
        /\ n < Number[r] => n + 1 \in Height /\ entries[n + 1] # NoEntry

\* An overlay shows the state it serves when laid over the state of base.
OverlayOK(ov, base) ==
    ov # NoOverlay =>
        /\ base \in Block
        /\ ov.serves \in Anc[base]
        /\ ov.to = Number[ov.serves] + 1
        /\ ov.from = Number[base]
        /\ Over(ov.diff, State[base]) = State[ov.serves]

\* Unless a diff went over a foreign base: the disk is one block's state, the
\* journal undoes it, and the overlays lie over the state they were built from.
DiskInv ==
    \/ stray
    \/ /\ disk = State[disk[RootKey]]
       /\ JournalOK(journal, disk[RootKey])
       /\ OverlayOK(overlay, disk[RootKey])
       /\ OverlayOK(pass.overlay, pass.base)

\* The inductive invariant of the store.
IInv == TypeOK /\ TableInv /\ PassInv /\ DiskInv

-----------------------------------------------------------------------------
(* Layers.                                                                 *)

\* A walk down the layers stops at a lowest layer, and meets every block from
\* there up.
LEMMA ChainFacts ==
    ASSUME layers \in SUBSET Block, Genesis \notin layers, NEW b \in layers
    PROVE  /\ b \in LayerChain(b)
           /\ LayerChain(b) \in SUBSET (Anc[b] \cap layers)
           /\ \E a \in LayerChain(b) : \A c \in LayerChain(b) : Number[a] <= Number[c]
           /\ \A a \in LayerChain(b) :
                (\A c \in LayerChain(b) : Number[a] <= Number[c])
                  => LayerChain(b) = From(a, b) /\ a # Genesis
<1>0. /\ b \in Block
      /\ \A x \in Anc[b] : x \in Block /\ Number[x] \in Nat /\ Number[x] <= Number[b]
      /\ Number[b] \in Nat /\ b \in Anc[b]
  BY Zenon, SelfAncestor, AncestryAssumption
<1>1. LayerChain(b) = {a \in Anc[b] : \A c \in Anc[b] : Number[c] >= Number[a] => c \in layers}
  BY Zenon DEF LayerChain
<1>2. b \in LayerChain(b)
  <2>1. \A c \in Anc[b] : Number[c] >= Number[b] => c = b
    BY <1>0, AncestryAssumption
  <2> QED BY Zenon, <1>0, <1>1, <2>1
<1>3. LayerChain(b) \in SUBSET (Anc[b] \cap layers)
  <2>1. \A a \in Anc[b] : Number[a] >= Number[a]
    BY <1>0
  <2> QED BY Zenon, <1>1, <2>1
<1>4. \E a \in LayerChain(b) : \A c \in LayerChain(b) : Number[a] <= Number[c]
  BY Zenon, <1>0, <1>2, <1>3, LowestBlock
<1>5. ASSUME NEW a \in LayerChain(b), \A c \in LayerChain(b) : Number[a] <= Number[c]
      PROVE  LayerChain(b) = From(a, b) /\ a # Genesis
  <2>1. a \in Anc[b] /\ Number[a] \in Nat /\ a # Genesis
    BY Zenon, <1>0, <1>3
  <2>2. ASSUME NEW x \in From(a, b) PROVE x \in LayerChain(b)
    <3>1. x \in Anc[b] /\ Number[x] >= Number[a]
      BY Zenon DEF From
    <3>2. ASSUME NEW c \in Anc[b], Number[c] >= Number[x] PROVE c \in layers
      <4>1. Number[c] >= Number[a]
        BY <1>0, <2>1, <3>1, <3>2
      <4> QED BY Zenon, <1>1, <4>1
    <3> QED BY Zenon, <1>1, <3>1, <3>2
  <2>3. ASSUME NEW x \in LayerChain(b) PROVE x \in From(a, b)
    <3>1. x \in Anc[b] /\ Number[a] <= Number[x]
      BY Zenon, <1>3, <1>5
    <3> QED BY Zenon, <1>0, <2>1, <3>1 DEF From
  <2> QED BY Zenon, <2>1, <2>2, <2>3
<1> QED BY Zenon, <1>2, <1>3, <1>4, <1>5

\* A block with no layer has no chain of layers.
LEMMA NoChain == ASSUME NEW b, b \notin layers PROVE LayerChain(b) = {}
BY Zenon DEF LayerChain

\* The bottom layer stands alone: what its walk meets is only itself.
LEMMA BottomChain ==
    ASSUME layers \in SUBSET Block, Genesis \notin layers, NEW b \in layers
    PROVE  /\ bottom_layer_root(b) \in layers
           /\ LayerChain(bottom_layer_root(b)) = {bottom_layer_root(b)}
<1>1. PICK a : a = bottom_layer_root(b)
  BY Zenon
<1>2. a \in LayerChain(b) /\ \A c \in LayerChain(b) : Number[a] <= Number[c]
  BY Zenon, <1>1, ChainFacts DEF bottom_layer_root
<1>3. /\ a \in layers /\ a \in Anc[b] /\ LayerChain(b) = From(a, b) /\ a # Genesis
      /\ b \in Block /\ a \in Block /\ Anc[a] \subseteq Anc[b]
  BY Zenon, <1>2, ChainFacts, AncestryAssumption
<1>4. a \in LayerChain(a) /\ LayerChain(a) \in SUBSET (Anc[a] \cap layers)
  BY Zenon, <1>3, ChainFacts
<1>5. ASSUME NEW x \in LayerChain(a) PROVE x = a
  <2>1. x \in Anc[a] /\ x \in Anc[b] /\ Number[x] \in Nat /\ Number[a] \in Nat
    BY Zenon, <1>3, <1>4, SelfAncestor
  <2>2. ASSUME NEW c \in Anc[b], Number[c] >= Number[x] PROVE c \in layers
    <3>0. c \in Block /\ Number[c] \in Nat
      BY Zenon, <1>3, SelfAncestor
    <3>1. CASE Number[c] >= Number[a]
      <4>1. c \in From(a, b)
        BY Zenon, <3>1 DEF From
      <4> QED BY Zenon, <1>3, <4>1, ChainFacts
    <3>2. CASE ~(Number[c] >= Number[a])
      <4>1. Number[c] <= Number[a]
        BY <2>1, <3>0, <3>2
      <4>2. c \in Anc[a]
        BY Zenon, <1>3, <4>1, AncestryAssumption
      <4> QED BY Zenon, <1>3, <2>2, <4>2 DEF LayerChain
    <3> QED BY Zenon, <3>1, <3>2
  <2>3. x \in LayerChain(b)
    BY Zenon, <2>1, <2>2 DEF LayerChain
  <2>4. Number[a] <= Number[x] /\ Number[x] <= Number[a]
    BY Zenon, <1>2, <1>3, <2>1, <2>3, AncestryAssumption
  <2> QED BY <1>3, <2>1, <2>4, AncestryAssumption
<1> QED BY Zenon, <1>1, <1>3, <1>4, <1>5

\* Over with nothing in the diff.
LEMMA OverNothing == ASSUME NEW s \in [Key -> Block] PROVE Over(NoDiff, s) = s
BY Zenon DEF Over, NoDiff

\* What lies under the layers is the state of the base.
LEMMA BaseState ==
    ASSUME TypeOK, DiskInv, ~stray
    PROVE  Base \in Block /\ Over(overlay.diff, disk) = State[Base]
<1>1. disk \in [Key -> Block] /\ disk[RootKey] \in Block
  BY Zenon, WritesAssumption DEF TypeOK
<1>2. disk = State[disk[RootKey]] /\ OverlayOK(overlay, disk[RootKey])
  BY Zenon DEF DiskInv
<1>3. CASE overlay = NoOverlay
  <2>1. overlay.diff = NoDiff
    BY Zenon, <1>3 DEF NoOverlay
  <2>2. Over(overlay.diff, disk) = disk
    BY Zenon, <1>1, <2>1, OverNothing
  <2> QED BY Zenon, <1>1, <1>2, <1>3, <2>2 DEF Base
<1>4. CASE overlay # NoOverlay
  <2>1. overlay.serves \in Block
    BY Zenon, <1>1, <1>2, <1>4, SelfAncestor DEF OverlayOK
  <2> QED BY Zenon, <1>2, <1>4, <2>1 DEF OverlayOK, Base
<1> QED BY Zenon, <1>3, <1>4

-----------------------------------------------------------------------------
(* What the invariant says of readers and of the journal.                  *)

\* A reader whose layers rest on the base sees its block's state
\* (TrieWrapper::get).
LEMMA ReadsFollow == TypeOK /\ TableInv /\ DiskInv => AnchoredReads
<1> SUFFICES ASSUME TypeOK, TableInv, DiskInv, ~stray, NEW b \in Block, Anchored(b), NEW k \in Key
             PROVE  Read(b, k) = State[b][k]
  BY Zenon DEF AnchoredReads
<1>1. Base \in Block /\ Over(overlay.diff, disk) = State[Base]
  BY Zenon, BaseState
<1>2. layers \in SUBSET Block /\ Genesis \notin layers /\ disk \in [Key -> Block] /\ disk = State[disk[RootKey]]
  BY Zenon DEF TypeOK, TableInv, DiskInv
<1>3. CASE b \in layers
  <2>1. PICK a \in LayerChain(b) : Parent[a] = Base /\ \A c \in LayerChain(b) : Number[a] <= Number[c]
    BY Zenon, <1>3 DEF Anchored, RestsOnBase
  <2>2. LayerChain(b) = From(a, b) /\ a # Genesis /\ a \in Anc[b]
    BY Zenon, <1>2, <1>3, <2>1, ChainFacts
  <2>3. WritesOver(From(a, b), State[Base]) = State[b]
    BY Zenon, <2>1, <2>2, StateOver
  <2>4. Below(b) = State[Base]
    BY Zenon, <1>1, <1>2, <1>3 DEF Below, overlay_serves, Base
  <2>5. Read(b, k) = WritesOver(LayerChain(b), Below(b))[k]
    BY Zenon DEF Read, WritesOver
  <2> QED BY Zenon, <2>2, <2>3, <2>4, <2>5
<1>4. CASE b \notin layers
  <2>1. b = Base /\ LayerChain(b) = {}
    BY Zenon, <1>4, NoChain DEF Anchored
  <2>2. Below(b) = State[Base]
    BY Zenon, <1>1, <1>2, <1>4, <2>1 DEF Below, overlay_serves, Base
  <2>3. Read(b, k) = Below(b)[k]
    BY Zenon, <2>1 DEF Read, Writers
  <2> QED BY Zenon, <2>1, <2>2, <2>3
<1> QED BY Zenon, <1>3, <1>4

\* An entry's parent is the block of the entry below it.
LEMMA EntryLinked ==
    ASSUME NEW entries, NEW r \in Block, JournalOK(entries, r),
           NEW n \in Height, n + 1 \in Height, entries[n] # NoEntry, entries[n + 1] # NoEntry
    PROVE  entries[n + 1].parent = entries[n].block
<1>1. PICK x : x = entries[n + 1].block
  BY Zenon
<1>2. PICK y : y = entries[n].block
  BY Zenon
<1>3. n \in Nat
  BY GenesisAssumption DEF Height
<1>4. /\ x \in Anc[r] \ {Genesis} /\ Number[x] = n + 1
      /\ entries[n + 1].parent = Parent[x]
  BY Zenon, <1>1 DEF JournalOK
<1>5. y \in Anc[r] /\ Number[y] = n
  BY Zenon, <1>2 DEF JournalOK
<1>6. /\ x \in Block /\ Parent[x] \in Block /\ Number[x] = Number[Parent[x]] + 1
      /\ Number[Parent[x]] \in Nat
  BY Zenon, <1>4, SelfAncestor, ParentAssumption
<1>7. Parent[x] \in Anc[r]
  <2>1. Anc[x] \subseteq Anc[r] /\ Parent[x] \in Anc[x]
    BY <1>4, <1>6, SelfAncestor, AncestryAssumption, AncestorAssumption
  <2> QED BY Zenon, <2>1
<1>8. Number[Parent[x]] = Number[y]
  BY SMTT(30), <1>3, <1>4, <1>5, <1>6
<1> QED BY <1>2, <1>4, <1>5, <1>7, <1>8, AncestryAssumption

\* The journal's facts give the property (Store::get_state_history_block_hash).
LEMMA JournalFollows == TypeOK /\ DiskInv => JournalReverses
<1> SUFFICES ASSUME TypeOK, DiskInv, ~stray, NEW n \in Height, journal[n] # NoEntry
             PROVE  /\ Number[journal[n].block] = n
                    /\ journal[n].parent = Parent[journal[n].block]
                    /\ Over(journal[n].diff, State[journal[n].block]) = State[journal[n].parent]
                    /\ \/ /\ journal[n].block = disk[RootKey]
                          /\ \A m \in Height : journal[m] # NoEntry => m <= n
                       \/ \E m \in Height : /\ m = n + 1
                                            /\ journal[m] # NoEntry
                                            /\ journal[m].parent = journal[n].block
  BY Zenon DEF JournalReverses
<1>1. PICK r \in Block : r = disk[RootKey]
  BY Zenon, WritesAssumption DEF TypeOK
<1>2. JournalOK(journal, r)
  BY Zenon, <1>1 DEF DiskInv
<1>3. /\ Number[journal[n].block] = n
      /\ journal[n].parent = Parent[journal[n].block]
      /\ Over(journal[n].diff, State[journal[n].block]) = State[journal[n].parent]
      /\ journal[n].block \in Anc[r]
      /\ n < Number[r] => n + 1 \in Height /\ journal[n + 1] # NoEntry
  BY Zenon, <1>2 DEF JournalOK
<1>4. n \in Nat /\ Number[r] \in Nat
  BY Zenon, GenesisAssumption DEF Height
<1>5. CASE n < Number[r]
  <2>1. n + 1 \in Height /\ journal[n + 1] # NoEntry
    BY Zenon, <1>3, <1>5
  <2>2. journal[n + 1].parent = journal[n].block
    BY Zenon, <1>2, <2>1, EntryLinked
  <2> QED BY Zenon, <1>3, <2>1, <2>2
<1>6. CASE ~(n < Number[r])
  <2>1. \A m \in Height : journal[m] # NoEntry => m <= Number[r]
    <3>1. ASSUME NEW m \in Height, journal[m] # NoEntry PROVE m <= Number[r]
      <4>1. journal[m].block \in Anc[r] /\ Number[journal[m].block] = m
        BY Zenon, <1>2, <3>1 DEF JournalOK
      <4> QED BY <4>1, AncestryAssumption
    <3> QED BY Zenon, <3>1
  <2>2. n = Number[r]
    BY SMTT(30), <1>4, <1>6, <2>1
  <2>3. journal[n].block = r
    BY Zenon, <1>3, <2>2, SelfAncestor, AncestryAssumption
  <2> QED BY Zenon, <1>1, <1>3, <2>1, <2>2, <2>3
<1> QED BY Zenon, <1>5, <1>6

\* An installed overlay shows its pivot.
LEMMA OverlayFollows == DiskInv => OverlayShowsPivot
BY Zenon DEF DiskInv, OverlayOK, OverlayShowsPivot

-----------------------------------------------------------------------------
(* Building an overlay from the journal (Overlay::from_journal).           *)

\* The newest entry is the one of the state on disk.
LEMMA EdgeFacts ==
    ASSUME NEW top \in Height, \A n \in Height : journal[n] # NoEntry => n <= top,
           NEW some \in Height, journal[some] # NoEntry
    PROVE  /\ Edge \in Height
           /\ journal[Edge] # NoEntry
           /\ \A m \in Height : journal[m] # NoEntry => m <= Edge
<1> DEFINE T == {m \in Height : journal[m] # NoEntry}
<1>1. T \in SUBSET (0 .. top) /\ T # {}
  BY GenesisAssumption DEF Height
<1>2. PICK n \in T : \A m \in T : m <= n
  BY Zenon, <1>1, Bounds
<1> QED BY Zenon, <1>2 DEF Edge

\* What every step of a walk keeps, the walk keeps.
LEMMA WalkDown ==
    ASSUME NEW to \in Nat, NEW o \in Height, to <= o, NEW f,
           \A m \in to .. o - 1 : f[m] = f[m + 1]
    PROVE  f[to] = f[o]
<1> DEFINE S == {m \in to .. o : f[m] = f[o]}
<1>1. S \in SUBSET (0 .. o) /\ o \in S /\ o \in Nat
  BY GenesisAssumption DEF Height
<1>2. PICK n \in S : \A m \in S : n <= m
  BY Zenon, <1>1, Bounds
<1>3. n \in to .. o /\ f[n] = f[o] /\ n \in Nat
  BY <1>1, <1>2
<1>4. CASE n = to
  BY Zenon, <1>3, <1>4
<1>5. CASE n # to
  <2>1. n - 1 \in to .. o - 1 /\ (n - 1) + 1 = n /\ n - 1 \in to .. o
    BY <1>1, <1>3, <1>5
  <2>2. f[n - 1] = f[n]
    BY Zenon, <2>1
  <2>3. n - 1 \in S
    BY Zenon, <1>3, <2>1, <2>2
  <2>4. n <= n - 1
    BY Zenon, <1>2, <2>3
  <2> QED BY <1>3, <2>4
<1> QED BY Zenon, <1>4, <1>5

\* The journal's entries, oldest first, laid over the state of the newest one's
\* block show the state below the oldest one.
LEMMA FromJournal ==
    ASSUME NEW r \in Block, JournalOK(journal, r), NEW to \in Nat, to <= Number[r],
           \A n \in to .. Number[r] : n \in Height /\ journal[n] # NoEntry
    PROVE  OverlayOK(from_journal(Number[r], to), r)
<1> DEFINE from == Number[r]
           ov == from_journal(Number[r], to)
<1>0. from \in Nat /\ from \in Height /\ to \in to .. from
  BY GenesisAssumption DEF Height
<1>1. PICK x \in Anc[r] \ {Genesis} : x = journal[to].block /\ Number[x] = to /\ journal[to].parent = Parent[x]
  BY <1>0 DEF JournalOK
<1>2. x \in Block /\ Parent[x] \in Block /\ Number[x] = Number[Parent[x]] + 1 /\ Parent[x] \in Anc[r]
  <2>1. x \in Block /\ Parent[x] \in Block /\ Number[x] = Number[Parent[x]] + 1
    BY Zenon, SelfAncestor, ParentAssumption
  <2>2. Anc[x] \subseteq Anc[r] /\ Parent[x] \in Anc[x]
    BY SMTT(30), <2>1, SelfAncestor, AncestryAssumption, AncestorAssumption
  <2> QED BY Zenon, <2>1, <2>2
<1>3. ov.serves = Parent[x] /\ ov.to = to /\ ov.from = from
  BY Zenon, <1>1 DEF from_journal
<1>4. ASSUME NEW k \in Key PROVE Over(ov.diff, State[r])[k] = State[Parent[x]][k]
  <2> DEFINE f == [m \in to .. from + 1 |-> IF m = from + 1 THEN State[r][k]
                                            ELSE State[journal[m].parent][k]]
             E == {n \in to .. from : journal[n].diff[k] # NoBlock}
             oldest == CHOOSE n \in E : \A m \in E : n <= m
  <2>1. ASSUME NEW m \in to .. from
        PROVE  f[m] = IF journal[m].diff[k] # NoBlock THEN journal[m].diff[k] ELSE f[m + 1]
    <3>0. m \in Nat /\ m # from + 1 /\ m \in to .. from + 1 /\ m + 1 \in to .. from + 1
      BY SMTT(30), <1>0
    <3>1. /\ m \in Height /\ journal[m] # NoEntry
          /\ journal[m].block \in Anc[r] /\ Number[journal[m].block] = m
          /\ Over(journal[m].diff, State[journal[m].block]) = State[journal[m].parent]
      BY Zenon DEF JournalOK
    <3>2. f[m] = Over(journal[m].diff, State[journal[m].block])[k]
      BY Zenon, <3>0, <3>1
    <3>3. State[journal[m].block][k] = f[m + 1]
      <4>1. CASE m = from
        <5>1. journal[m].block = r
          BY <3>1, <4>1, SelfAncestor, AncestryAssumption
        <5>2. f[m + 1] = State[r][k]
          BY Zenon, <3>0, <4>1
        <5> QED BY Zenon, <5>1, <5>2
      <4>2. CASE m # from
        <5>1. m + 1 \in to .. from /\ m + 1 # from + 1
          BY <1>0, <3>0, <4>2
        <5>2. journal[m + 1].parent = journal[m].block
          BY Zenon, <3>1, <5>1, EntryLinked
        <5>3. f[m + 1] = State[journal[m + 1].parent][k]
          BY Zenon, <3>0, <5>1
        <5> QED BY Zenon, <5>2, <5>3
      <4> QED BY Zenon, <4>1, <4>2
    <3> QED BY Zenon, <3>2, <3>3 DEF Over
  <2>2. f[to] = State[Parent[x]][k]
    BY SMTT(30), <1>0, <1>1
  <2>3. ov.diff[k] = IF E = {} THEN NoBlock ELSE journal[oldest].diff[k]
    BY Zenon DEF from_journal
  <2>4. CASE E = {}
    <3>1. \A m \in to .. from : f[m] = f[m + 1]
      BY Zenon, <2>1, <2>4
    <3>2. from \in to .. from /\ \A m \in to .. from - 1 : m \in to .. from
      BY <1>0
    <3> HIDE DEF f
    <3>3. f[to] = f[from] /\ f[from] = f[from + 1]
      BY <1>0, <3>1, <3>2, WalkDown
    <3>4. f[from + 1] = State[r][k]
      BY SMTT(30), <1>0 DEF f
    <3> QED BY Zenon, <2>2, <2>3, <2>4, <3>3, <3>4 DEF Over
  <2>5. CASE E # {}
    <3>1. E \in SUBSET (0 .. from)
      BY <1>0
    <3>2. oldest \in E /\ \A m \in E : oldest <= m
      BY Zenon, <1>0, <2>5, <3>1, Bounds
    <3> HIDE DEF oldest
    <3>3. PICK o \in E : o = oldest /\ \A m \in E : o <= m
      BY Zenon, <3>2
    <3>4. o \in to .. from /\ o \in Height /\ to <= o /\ journal[o].diff[k] # NoBlock
      BY <1>0, HeightsBelow
    <3>5. ASSUME NEW m \in to .. o - 1 PROVE f[m] = f[m + 1]
      <4>1. m \in to .. from /\ ~(o <= m)
        BY <1>0, <3>4
      <4>2. m \notin E
        BY Zenon, <3>3, <4>1
      <4> QED BY ZenonT(60), <2>1, <4>1, <4>2
    <3> HIDE DEF f
    <3>6. f[to] = f[o]
      BY <3>4, <3>5, WalkDown
    <3>7. f[o] = journal[o].diff[k]
      BY Zenon, <2>1, <3>4
    <3> HIDE DEF ov
    <3> QED BY Zenon, <2>2, <2>3, <2>5, <3>3, <3>4, <3>6, <3>7 DEF Over
  <2> QED BY Zenon, <2>4, <2>5
<1>5. Over(ov.diff, State[r]) = State[Parent[x]]
  <2>1. State[Parent[x]] \in [Key -> Block]
    BY Zenon, <1>2, StateFacts
  <2>2. Over(ov.diff, State[r]) = [k \in Key |-> Over(ov.diff, State[r])[k]]
    BY Zenon DEF Over
  <2> QED BY Zenon, <1>4, <2>1, <2>2
<1> QED BY ZenonT(60), <1>1, <1>2, <1>3, <1>5 DEF OverlayOK

-----------------------------------------------------------------------------
(* Committing layers (commit_to_disk).                                     *)

\* A commit folds the layers from a lowest one up to its root; under an overlay
\* the two are the same layer.
LEMMA CommitShape ==
    ASSUME TypeOK, TableInv, NEW target \in layers, commit_to_disk(target)
    PROVE  \E root \in layers : \E a \in Anc[root] \ {Genesis} :
              /\ overlay # NoOverlay => a = root
              /\ disk' = DiskAfter(From(a, root))
              /\ journal' = JournalAfter(From(a, root))
              /\ layers' \in SUBSET layers
              /\ older' \in [Block -> SUBSET Block]
              /\ overlay' = NoOverlay
              /\ stray' = (stray \/ ~RestsOnBase(From(a, root)))
<1> DEFINE root == IF overlay = NoOverlay THEN target ELSE bottom_layer_root(target)
<1>0. layers \in SUBSET Block /\ Genesis \notin layers /\ older \in [Block -> SUBSET Block]
  BY Zenon DEF TypeOK, TableInv
<1>1. root \in layers /\ overlay # NoOverlay => LayerChain(root) = {root}
  BY Zenon, <1>0, BottomChain
<1>1a. root \in layers
  BY Zenon, <1>0, BottomChain
<1>2. /\ disk' = DiskAfter(LayerChain(root))
      /\ journal' = JournalAfter(LayerChain(root))
      /\ Commit(root, LayerChain(root))
      /\ overlay' = NoOverlay
      /\ stray' = (stray \/ ~RestsOnBase(LayerChain(root)))
  BY Zenon DEF commit_to_disk
<1> HIDE DEF root
<1>3. PICK a \in LayerChain(root) : \A c \in LayerChain(root) : Number[a] <= Number[c]
  BY Zenon, <1>0, <1>1a, ChainFacts
<1>4. LayerChain(root) = From(a, root) /\ a # Genesis /\ a \in Anc[root]
  BY Zenon, <1>0, <1>1a, <1>3, ChainFacts
<1>5. layers' \in SUBSET layers /\ older' \in [Block -> SUBSET Block]
  <2> DEFINE kept == {b \in layers \ LayerChain(root) : root \in older[b]}
  <2>1. layers' = kept /\ older' = [b \in Block |-> IF b \in kept THEN older[b] \cap kept ELSE {}]
    BY Zenon, <1>2 DEF Commit
  <2>2. kept \in SUBSET layers
    BY Zenon
  <2> HIDE DEF kept
  <2> QED BY Zenon, <1>0, <2>1, <2>2
<1>6. overlay # NoOverlay => a = root
  BY Zenon, <1>1, <1>1a, <1>3
<1> QED BY Zenon, <1>1a, <1>2, <1>4, <1>5, <1>6

\* Whatever is folded in, the disk keeps one version of every path.
LEMMA DiskAfterType ==
    ASSUME TypeOK, NEW b \in Block, NEW S \in SUBSET Anc[b]
    PROVE  DiskAfter(S) \in [Key -> Block]
<1>1. ASSUME NEW k \in Key, Writers(S, k) # {} PROVE Highest(Writers(S, k)) \in Block
  <2>1. Writers(S, k) \in SUBSET Anc[b]
    BY Zenon DEF Writers
  <2> QED BY Zenon, <1>1, <2>1, HighestIs, SelfAncestor
<1>2. overlay.diff \in [Key -> Block \cup {NoBlock}] /\ disk \in [Key -> Block]
  BY Zenon DEF TypeOK, OverlayState, Diff
<1>3. Over(overlay.diff, disk) \in [Key -> Block]
  BY Zenon, <1>2 DEF Over
<1> QED BY Zenon, <1>1, <1>3 DEF DiskAfter, WritesOver

\* The journal stays a table of entries that ends somewhere.
LEMMA JournalAfterType ==
    ASSUME TypeOK, TableInv, NEW root \in Block, NEW a \in Anc[root]
    PROVE  /\ JournalAfter(From(a, root)) \in [Height -> EntryState]
           /\ \E top \in Height : \A n \in Height :
                 JournalAfter(From(a, root))[n] # NoEntry => n <= top
<1> DEFINE chain == From(a, root)
<1>0. chain \in SUBSET Anc[root] /\ Anc[root] \in SUBSET Block
  BY Zenon, SelfAncestor DEF From
<1>1. ASSUME NEW b \in chain PROVE Entry(b, chain) \in EntryState
  <2>1. {x \in chain : Number[x] < Number[b]} \in SUBSET Anc[root]
    BY Zenon, <1>0
  <2>2. DiskAfter({x \in chain : Number[x] < Number[b]}) \in [Key -> Block]
    BY Zenon, <2>1, DiskAfterType
  <2>3. b \in Block /\ Parent[b] \in Block \cup {NoBlock}
    BY Zenon, <1>0, GenesisAssumption
  <2> QED BY Zenon, <2>2, <2>3 DEF Entry, EntryState, Diff
<1>2. NoEntry \in EntryState
  BY Zenon DEF NoEntry, EntryState, NoDiff, Diff
<1>3. journal \in [Height -> EntryState]
  BY Zenon DEF TypeOK
<1>4. JournalAfter(chain) \in [Height -> EntryState]
  <2> HIDE DEF chain
  <2> QED BY Zenon, <1>1, <1>2, <1>3 DEF JournalAfter
<1>5. PICK top \in Height : \A n \in Height : journal[n] # NoEntry => n <= top
  BY Zenon DEF TableInv
<1>6. PICK new \in Height : new >= top /\ new >= Number[root]
  <2>1. top \in Nat /\ Number[root] \in Nat /\ Number[root] \in Height
    BY GenesisAssumption, SelfAncestor DEF Height
  <2>2. CASE top >= Number[root]
    BY <2>1, <2>2
  <2>3. CASE ~(top >= Number[root])
    BY SMTT(30), <2>1, <2>3
  <2> QED BY Zenon, <2>2, <2>3
<1>7. ASSUME NEW n \in Height, JournalAfter(chain)[n] # NoEntry PROVE n <= new
  <2>0. n \in Nat /\ top \in Nat /\ new \in Nat /\ Number[root] \in Nat
    BY GenesisAssumption DEF Height
  <2>1. CASE \E b \in chain : Number[b] = n
    <3>1. n <= Number[root]
      BY Zenon, <1>0, <2>1, AncestryAssumption
    <3> QED BY <1>6, <2>0, <3>1
  <2>2. CASE ~\E b \in chain : Number[b] = n
    <3>1. journal[n] # NoEntry
      BY Zenon, <1>7, <2>2 DEF JournalAfter
    <3>2. n <= top
      BY Zenon, <1>5, <3>1
    <3> QED BY <1>6, <2>0, <3>2
  <2> QED BY Zenon, <2>1, <2>2
<1> QED BY Zenon, <1>4, <1>7

\* The pre-images of a committed block: the layers below it in the same batch,
\* the overlay and the disk show its parent's state.
LEMMA BatchPreImage ==
    ASSUME TypeOK, DiskInv, ~stray, NEW root \in Block, NEW a \in Anc[root] \ {Genesis},
           Parent[a] = Base, NEW b \in From(a, root)
    PROVE  DiskAfter({x \in From(a, root) : Number[x] < Number[b]}) = State[Parent[b]]
<1> DEFINE below == {x \in From(a, root) : Number[x] < Number[b]}
<1>0. /\ a \in Block /\ b \in Block /\ b \in Anc[root] /\ Number[b] >= Number[a]
      /\ Number[a] \in Nat /\ Number[b] \in Nat
      /\ \A x \in Anc[root] : x \in Block /\ Number[x] \in Nat
  BY Zenon, SelfAncestor DEF From
<1>1. Base \in Block /\ Over(overlay.diff, disk) = State[Base]
  BY Zenon, BaseState
<1>2. CASE b = a
  <2>1. below = {}
    BY <1>0, <1>2 DEF From
  <2>2. DiskAfter({}) = State[Base]
    <3>1. State[Base] \in [Key -> Block]
      BY Zenon, <1>1, StateFacts
    <3>2. WritesOver({}, State[Base]) = [k \in Key |-> State[Base][k]]
      BY Zenon DEF WritesOver, Writers
    <3> QED BY Zenon, <1>1, <3>1, <3>2 DEF DiskAfter
  <2> QED BY Zenon, <1>2, <2>1, <2>2
<1>3. CASE b # a
  <2>1. Number[b] # Number[a]
    BY Zenon, <1>0, <1>3, AncestryAssumption
  <2>2. Number[b] > Number[a]
    BY <1>0, <2>1
  <2>3. b # Genesis
    BY <1>0, <2>2, GenesisAssumption
  <2>4. Parent[b] \in Block /\ Number[b] = Number[Parent[b]] + 1 /\ Anc[b] = {b} \cup Anc[Parent[b]]
        /\ Number[Parent[b]] \in Nat
    BY Zenon, <1>0, <2>3, ParentAssumption, AncestorAssumption, GenesisAssumption
  <2>5. Anc[b] \subseteq Anc[root]
    BY Zenon, <1>0, AncestryAssumption
  <2>6. a \in Anc[Parent[b]]
    <3>1. Number[a] <= Number[b]
      BY Zenon, <1>0
    <3>2. a \in Anc[b]
      BY Zenon, <1>0, <3>1, AncestryAssumption
    <3> QED BY Zenon, <1>3, <2>4, <3>2
  <2>7. below = From(a, Parent[b])
    <3>1. ASSUME NEW x \in below PROVE x \in From(a, Parent[b])
      <4>1. x \in Anc[root] /\ Number[x] >= Number[a] /\ Number[x] < Number[b] /\ Number[x] \in Nat
        BY Zenon, <1>0 DEF From
      <4>2. Number[x] <= Number[b]
        BY <1>0, <4>1
      <4>3. x \in Anc[b] /\ x # b
        BY SMTT(30), <1>0, <4>1, <4>2, AncestryAssumption
      <4> QED BY Zenon, <2>4, <4>1, <4>3 DEF From
    <3>2. ASSUME NEW x \in From(a, Parent[b]) PROVE x \in below
      <4>1. x \in Anc[Parent[b]] /\ Number[x] >= Number[a]
        BY Zenon DEF From
      <4>2. x \in Anc[root] /\ Number[x] <= Number[Parent[b]]
        BY Zenon, <2>4, <2>5, <4>1, AncestryAssumption
      <4>3. Number[x] \in Nat
        BY Zenon, <1>0, <4>2
      <4>4. Number[x] < Number[b]
        BY <2>4, <4>2, <4>3
      <4> QED BY Zenon, <4>1, <4>2, <4>4 DEF From
    <3> QED BY Zenon, <3>1, <3>2
  <2>8. WritesOver(From(a, Parent[b]), State[Parent[a]]) = State[Parent[b]]
    BY Zenon, <2>4, <2>6, StateOver
  <2> QED BY Zenon, <1>1, <2>7, <2>8 DEF DiskAfter
<1> QED BY Zenon, <1>2, <1>3

\* A committed block's entry undoes it.
LEMMA EntryUndoes ==
    ASSUME TypeOK, DiskInv, ~stray, NEW root \in Block, NEW a \in Anc[root] \ {Genesis},
           Parent[a] = Base, NEW b \in From(a, root)
    PROVE  /\ b \in Anc[root] \ {Genesis}
           /\ Entry(b, From(a, root)).block = b
           /\ Entry(b, From(a, root)).parent = Parent[b]
           /\ Over(Entry(b, From(a, root)).diff, State[b]) = State[Parent[b]]
<1>1. b \in Anc[root] /\ b \in Block /\ Number[b] >= Number[a] /\ a \in Block /\ Number[a] \in Nat /\ Number[b] \in Nat
  BY Zenon, SelfAncestor DEF From
<1>2. b # Genesis
  <2>1. Parent[a] \in Block /\ Number[a] = Number[Parent[a]] + 1 /\ Number[Parent[a]] \in Nat
    BY Zenon, <1>1, ParentAssumption, GenesisAssumption
  <2>2. Number[b] # 0
    BY <1>1, <2>1
  <2> QED BY Zenon, <2>2, GenesisAssumption
<1>3. DiskAfter({x \in From(a, root) : Number[x] < Number[b]}) = State[Parent[b]]
  BY Zenon, BatchPreImage
<1>4. State[Parent[b]] \in [Key -> Block] /\ State[b] \in [Key -> Block]
  BY Zenon, <1>1, <1>2, StateFacts, ParentAssumption
<1>5. /\ Entry(b, From(a, root)).block = b
      /\ Entry(b, From(a, root)).parent = Parent[b]
      /\ Entry(b, From(a, root)).diff =
           [k \in Key |-> IF k \in Writes[b] \/ overlay.diff[k] # NoBlock
                          THEN State[Parent[b]][k] ELSE NoBlock]
  BY ZenonT(60), <1>3 DEF Entry
<1> DEFINE d == Entry(b, From(a, root)).diff
<1>6. ASSUME NEW k \in Key
      PROVE  (IF d[k] # NoBlock THEN d[k] ELSE State[b][k]) = State[Parent[b]][k]
  <2>1. CASE k \in Writes[b] \/ overlay.diff[k] # NoBlock
    BY <1>4, <1>5, <2>1, GenesisAssumption
  <2>2. CASE ~(k \in Writes[b] \/ overlay.diff[k] # NoBlock)
    <3>1. d[k] = NoBlock
      BY Zenon, <1>5, <2>2
    <3>2. State[b][k] = State[Parent[b]][k]
      BY Zenon, <1>1, <1>2, <2>2, StateStep
    <3> QED BY Zenon, <3>1, <3>2
  <2> QED BY Zenon, <2>1, <2>2
<1>7. Over(d, State[b]) = State[Parent[b]]
  <2> HIDE DEF d
  <2> QED BY Zenon, <1>4, <1>6 DEF Over
<1> QED BY Zenon, <1>1, <1>2, <1>5, <1>7

\* The entry JournalAfter writes at a committed height.
LEMMA CommittedEntry ==
    ASSUME NEW root \in Block, NEW a \in Anc[root], NEW b \in From(a, root), NEW n \in Height, Number[b] = n
    PROVE  JournalAfter(From(a, root))[n] = Entry(b, From(a, root))
<1>1. \A x \in From(a, root) : Number[x] = n => x = b
  BY Zenon, AncestryAssumption DEF From
<1>2. (CHOOSE x \in From(a, root) : Number[x] = n) = b
  BY Zenon, <1>1
<1> QED BY ZenonT(60), <1>2 DEF JournalAfter

\* A commit over the base it was computed against moves the disk to the state of
\* its root, and the journal with it.
LEMMA CommitMoves ==
    ASSUME TypeOK, TableInv, DiskInv, ~stray, NEW root \in Block, NEW a \in Anc[root] \ {Genesis},
           Parent[a] = Base, overlay # NoOverlay => a = root
    PROVE  /\ DiskAfter(From(a, root)) = State[root]
           /\ JournalOK(JournalAfter(From(a, root)), root)
<1> DEFINE chain == From(a, root)
           after == JournalAfter(From(a, root))
<1>0. PICK r \in Block : r = disk[RootKey]
  BY Zenon, WritesAssumption DEF TypeOK
<1>1. Base \in Block /\ Over(overlay.diff, disk) = State[Base]
  BY Zenon, BaseState
<1>2. DiskAfter(chain) = State[root]
  <2>1. WritesOver(chain, State[Base]) = State[root]
    BY Zenon, StateOver
  <2> QED BY Zenon, <1>1, <2>1 DEF DiskAfter
<1>3. /\ a \in Block /\ Number[a] = Number[Base] + 1 /\ Number[Base] \in Nat /\ Number[root] \in Nat
      /\ Number[r] \in Nat /\ Number[a] <= Number[root] /\ Number[a] \in Nat /\ root \in Anc[root]
      /\ \A n \in Height : n \in Nat
  BY SMTT(30), <1>1, SelfAncestor, ParentAssumption, GenesisAssumption, AncestryAssumption DEF Height
<1>4. Base \in Anc[r] /\ Base \in Anc[root] /\ Anc[Base] \subseteq Anc[root]
  <2>1. Base \in Anc[r]
    BY Zenon, <1>0, SelfAncestor DEF Base, DiskInv, OverlayOK
  <2>2. Base \in Anc[a]
    BY Zenon, <1>1, <1>3, SelfAncestor, AncestorAssumption
  <2>3. Base \in Anc[root]
    BY Zenon, <2>2, AncestryAssumption
  <2> QED BY Zenon, <2>1, <2>3, AncestryAssumption
<1>5. JournalOK(journal, r)
  BY Zenon, <1>0 DEF DiskInv
<1>6. ASSUME NEW n \in Height, ~\E b \in chain : Number[b] = n, after[n] # NoEntry
      PROVE  journal[n] # NoEntry /\ after[n] = journal[n] /\ n <= Number[Base]
  <2>1. journal[n] # NoEntry /\ after[n] = journal[n]
    BY Zenon, <1>6 DEF JournalAfter
  <2>2. journal[n].block \in Anc[r] /\ Number[journal[n].block] = n
    BY Zenon, <1>5, <2>1 DEF JournalOK
  <2>3. n <= Number[r]
    BY SMTT(30), <2>2, AncestryAssumption
  <2>4. CASE overlay = NoOverlay
    BY Zenon, <1>0, <2>1, <2>3, <2>4 DEF Base
  <2>5. CASE overlay # NoOverlay
    <3>1. Base = overlay.serves /\ overlay.to = Number[Base] + 1 /\ overlay.from = Number[r] /\ a = root
      BY Zenon, <1>0, <2>5 DEF Base, DiskInv, OverlayOK
    <3>2. root \in chain /\ Number[root] = overlay.to
      BY Zenon, <1>3, <3>1 DEF From
    <3>3. ~(n \in overlay.to .. overlay.from)
      BY Zenon, <1>6, <2>5, <3>2 DEF JournalAfter
    <3>4. n < Number[Base] + 1
      BY <1>3, <2>3, <3>1, <3>3
    <3> QED BY SMTT(30), <1>3, <2>1, <3>4
  <2> QED BY Zenon, <2>4, <2>5
<1>7. ASSUME NEW n \in Height, n >= Number[a], n <= Number[root] PROVE \E b \in chain : Number[b] = n
  <2>1. n \in 0 .. Number[root]
    BY <1>3, <1>7
  <2>2. PICK b \in Anc[root] : Number[b] = n
    BY Zenon, <2>1, AncestryAssumption
  <2>3. b \in chain
    BY Zenon, <1>7, <2>2 DEF From
  <2> QED BY Zenon, <2>2, <2>3
<1>8. ASSUME NEW b \in chain, NEW n \in Height, Number[b] = n
      PROVE  after[n] = Entry(b, chain) /\ after[n] # NoEntry
  <2>1. after[n] = Entry(b, chain)
    BY Zenon, <1>8, CommittedEntry
  <2>2. Entry(b, chain).block = b /\ b \in Block
    BY SMTT(30), EntryUndoes, SelfAncestor
  <2>3. NoEntry.block = NoBlock
    BY Zenon DEF NoEntry
  <2> QED BY Zenon, <2>1, <2>2, <2>3, GenesisAssumption
<1>9. ASSUME NEW n \in Height, after[n] # NoEntry
      PROVE  /\ after[n].block \in Anc[root] \ {Genesis}
             /\ Number[after[n].block] = n
             /\ after[n].parent = Parent[after[n].block]
             /\ Over(after[n].diff, State[after[n].block]) = State[after[n].parent]
             /\ n < Number[root] => n + 1 \in Height /\ after[n + 1] # NoEntry
  <2>0. n \in Nat
    BY Zenon, <1>3
  <2>1. CASE \E b \in chain : Number[b] = n
    <3>1. PICK b \in chain : Number[b] = n
      BY Zenon, <2>1
    <3>2. after[n] = Entry(b, chain)
      BY Zenon, <1>8, <3>1
    <3>3. /\ b \in Anc[root] \ {Genesis} /\ Entry(b, chain).block = b /\ Entry(b, chain).parent = Parent[b]
          /\ Over(Entry(b, chain).diff, State[b]) = State[Parent[b]]
      BY SMTT(30), EntryUndoes
    <3>4. ASSUME n < Number[root] PROVE n + 1 \in Height /\ after[n + 1] # NoEntry
      <4>1. n + 1 \in Nat /\ n + 1 <= Number[root] /\ n + 1 >= Number[a]
        BY SMTT(30), <1>3, <2>0, <3>1, <3>4 DEF From
      <4>2. n + 1 \in Height
        BY Zenon, <4>1, HeightsBelow, SelfAncestor
      <4> QED BY Zenon, <1>7, <1>8, <4>1, <4>2
    <3> HIDE DEF after
    <3> QED BY Zenon, <3>1, <3>2, <3>3, <3>4
  <2>2. CASE ~\E b \in chain : Number[b] = n
    <3>1. journal[n] # NoEntry /\ after[n] = journal[n] /\ n <= Number[Base]
      BY Zenon, <1>6, <1>9, <2>2
    <3>2. /\ journal[n].block \in Anc[r] \ {Genesis} /\ Number[journal[n].block] = n
          /\ journal[n].parent = Parent[journal[n].block]
          /\ Over(journal[n].diff, State[journal[n].block]) = State[journal[n].parent]
          /\ n < Number[r] => n + 1 \in Height /\ journal[n + 1] # NoEntry
      BY Zenon, <1>5, <3>1 DEF JournalOK
    <3>3. journal[n].block \in Anc[root]
      <4>1. journal[n].block \in Anc[Base]
        BY SMTT(30), <1>4, <3>1, <3>2, AncestryAssumption
      <4> QED BY Zenon, <1>4, <4>1
    <3>4. n + 1 \in Height /\ after[n + 1] # NoEntry
      <4>0. n + 1 \in Nat /\ n + 1 <= Number[a] /\ n + 1 <= Number[root] /\ Number[a] \in Height
        BY <1>3, <2>0, <3>1, SelfAncestor
      <4>1. n + 1 \in Height
        BY Zenon, <4>0, HeightsBelow
      <4>2. CASE n + 1 = Number[a]
        <5>1. n + 1 >= Number[a]
          BY <1>3, <4>2
        <5> QED BY Zenon, <1>7, <1>8, <4>0, <4>1, <5>1
      <4>3. CASE n + 1 # Number[a]
        <5>1. n + 1 <= Number[Base] /\ n + 1 < Number[a] /\ n < Number[Base]
          BY SMTT(30), <1>3, <2>0, <4>0, <4>3
        <5>2. Number[Base] <= Number[r]
          BY Zenon, <1>4, AncestryAssumption
        <5>3. n < Number[r]
          BY SMTT(30), <1>3, <2>0, <5>1, <5>2
        <5>4. journal[n + 1] # NoEntry
          BY Zenon, <3>2, <5>3
        <5>5. ~\E b \in chain : Number[b] = n + 1
          <6>1. ASSUME NEW b \in chain, Number[b] = n + 1 PROVE FALSE
            <7>1. Number[b] >= Number[a]
              BY Zenon DEF From
            <7> QED BY <1>3, <4>0, <5>1, <6>1, <7>1
          <6> QED BY Zenon, <6>1
        <5>6. ~(overlay # NoOverlay /\ n + 1 \in overlay.to .. overlay.from)
          <6>1. ASSUME overlay # NoOverlay PROVE overlay.to = Number[Base] + 1
            BY Zenon, <6>1 DEF Base, DiskInv, OverlayOK
          <6> QED BY SMTT(30), <1>3, <4>0, <5>1, <6>1
        <5>7. after[n + 1] = journal[n + 1]
          BY Zenon, <4>1, <5>5, <5>6 DEF JournalAfter
        <5> QED BY Zenon, <4>1, <5>4, <5>7
      <4> QED BY Zenon, <4>2, <4>3
    <3> HIDE DEF after
    <3> QED BY Zenon, <3>1, <3>2, <3>3, <3>4
  <2> QED BY ZenonT(60), <2>1, <2>2
<1>10. JournalOK(after, root)
  <2> HIDE DEF after
  <2> QED BY Zenon, <1>9 DEF JournalOK
<1> QED BY Zenon, <1>2, <1>10

\* commit_to_disk keeps the invariant; a commit over a foreign base is what stray
\* records.
LEMMA CommitKeeps ==
    ASSUME TypeOK, TableInv, DiskInv, UNCHANGED <<pass>>, NEW target, commit_to_disk(target)
    PROVE  /\ DiskInv'
           /\ layers' \in SUBSET layers
           /\ older' \in [Block -> SUBSET Block]
           /\ overlay' \in OverlayState
           /\ disk' \in [Key -> Block]
           /\ journal' \in [Height -> EntryState]
           /\ stray' \in BOOLEAN
           /\ \E top \in Height : \A n \in Height : journal'[n] # NoEntry => n <= top
<1>1. CASE target \notin layers
  <2>1. UNCHANGED <<disk, journal, layers, older, overlay, stray>>
    BY Zenon, <1>1 DEF commit_to_disk
  <2>2. DiskInv'
    BY Zenon, <2>1 DEF DiskInv, OverlayOK, JournalOK
  <2> QED BY Zenon, <2>1, <2>2 DEF TypeOK, TableInv
<1>2. CASE target \in layers
  <2>1. PICK root \in layers : \E a \in Anc[root] \ {Genesis} :
              /\ overlay # NoOverlay => a = root
              /\ disk' = DiskAfter(From(a, root))
              /\ journal' = JournalAfter(From(a, root))
              /\ layers' \in SUBSET layers
              /\ older' \in [Block -> SUBSET Block]
              /\ overlay' = NoOverlay
              /\ stray' = (stray \/ ~RestsOnBase(From(a, root)))
    BY Zenon, <1>2, CommitShape
  <2>2. PICK a \in Anc[root] \ {Genesis} :
              /\ overlay # NoOverlay => a = root
              /\ disk' = DiskAfter(From(a, root))
              /\ journal' = JournalAfter(From(a, root))
              /\ layers' \in SUBSET layers
              /\ older' \in [Block -> SUBSET Block]
              /\ overlay' = NoOverlay
              /\ stray' = (stray \/ ~RestsOnBase(From(a, root)))
    BY Zenon, <2>1
  <2>3. root \in Block /\ a \in Block /\ From(a, root) \in SUBSET Anc[root] /\ a \in From(a, root)
    BY SMTT(30), SelfAncestor DEF TypeOK, From
  <2>4. disk' \in [Key -> Block]
    BY Zenon, <2>2, <2>3, DiskAfterType
  <2>5. journal' \in [Height -> EntryState] /\ \E top \in Height : \A n \in Height : journal'[n] # NoEntry => n <= top
    BY Zenon, <2>2, <2>3, JournalAfterType
  <2>6. overlay' \in OverlayState
    BY Zenon, <2>2 DEF NoOverlay, OverlayState, NoDiff, Diff
  <2>7. ASSUME ~stray' PROVE DiskInv'
    <3>1. ~stray /\ RestsOnBase(From(a, root))
      BY Zenon, <2>2, <2>7
    <3>2. Parent[a] = Base
      <4>1. PICK c \in From(a, root) : Parent[c] = Base /\ \A x \in From(a, root) : Number[c] <= Number[x]
        BY Zenon, <3>1 DEF RestsOnBase
      <4>2. Number[c] >= Number[a] /\ Number[c] <= Number[a] /\ c \in Anc[root] /\ Number[c] \in Nat /\ Number[a] \in Nat
        BY Zenon, <2>3, <4>1, SelfAncestor DEF From
      <4>3. c = a
        BY SMTT(30), <2>3, <4>2, AncestryAssumption
      <4> QED BY Zenon, <4>1, <4>3
    <3>3. DiskAfter(From(a, root)) = State[root] /\ JournalOK(JournalAfter(From(a, root)), root)
      BY Zenon, <2>2, <2>3, <3>1, <3>2, CommitMoves
    <3>4. disk' = State[root] /\ disk'[RootKey] = root
      BY Zenon, <2>2, <2>3, <3>3, StateFacts
    <3>5. OverlayOK(overlay, disk[RootKey])'
      BY Zenon, <2>2 DEF OverlayOK, NoOverlay
    <3>6. OverlayOK(pass.overlay, pass.base)'
      BY Zenon, <3>1 DEF DiskInv, OverlayOK
    <3>7. JournalOK(journal, disk[RootKey])'
      BY ZenonT(60), <2>2, <3>3, <3>4 DEF JournalOK
    <3> QED BY Zenon, <3>4, <3>5, <3>6, <3>7 DEF DiskInv
  <2>8. stray' \in BOOLEAN /\ DiskInv'
    BY Zenon, <2>2, <2>7 DEF TypeOK, DiskInv
  <2> QED BY Zenon, <2>2, <2>4, <2>5, <2>6, <2>8
<1> QED BY Zenon, <1>1, <1>2

-----------------------------------------------------------------------------
(* The queue.                                                              *)

\* Taking the message in hand off the queue.
LEMMA TakeMessage ==
    ASSUME NEW q \in Seq(Message), q # <<>>, NEW p, NEW p2, QueueInv(q, p),
           Owed(Head(q)) \/ p2 = p
    PROVE  /\ Tail(q) \in Seq(Message) /\ Len(Tail(q)) = Len(q) - 1
           /\ Head(q) \in Message /\ MsgOK(Head(q), p)
           /\ QueueInv(Tail(q), p2)
<1>0. PICK k \in Nat : k = Len(q)
  OBVIOUS
<1>1. /\ Tail(q) \in Seq(Message) /\ Len(Tail(q)) = k - 1 /\ k >= 1 /\ Head(q) = q[1] /\ Head(q) \in Message
      /\ \A i \in 1 .. k - 1 : Tail(q)[i] = q[i + 1]
  BY <1>0
<1>2. 1 \in 1 .. k
  BY <1>1
<1>3. /\ \A i \in 1 .. k : MsgOK(q[i], p)
      /\ \A i, j \in 1 .. k : Owed(q[i]) /\ Owed(q[j]) => i = j
  BY Zenon, <1>0 DEF QueueInv
<1>4. ASSUME NEW i \in 1 .. k - 1 PROVE MsgOK(Tail(q)[i], p2)
  <2>1. i + 1 \in 1 .. k /\ i + 1 # 1
    OBVIOUS
  <2>2. MsgOK(q[i + 1], p) /\ Tail(q)[i] = q[i + 1]
    BY Zenon, <1>1, <1>3, <2>1
  <2>3. CASE p2 = p
    BY Zenon, <2>2, <2>3
  <2>4. CASE Owed(Head(q))
    <3>1. ~Owed(q[i + 1])
      BY Zenon, <1>1, <1>2, <1>3, <2>1, <2>4
    <3> QED BY ZenonT(60), <2>2, <3>1 DEF MsgOK, Owed
  <2> QED BY Zenon, <2>3, <2>4
<1>5. ASSUME NEW i \in 1 .. k - 1, NEW j \in 1 .. k - 1, Owed(Tail(q)[i]), Owed(Tail(q)[j])
      PROVE  i = j
  <2>1. i + 1 \in 1 .. k /\ j + 1 \in 1 .. k
    OBVIOUS
  <2>2. Owed(q[i + 1]) /\ Owed(q[j + 1])
    BY Zenon, <1>1, <1>5
  <2>3. i + 1 = j + 1
    BY Zenon, <1>3, <2>1, <2>2
  <2> QED BY <2>3
<1>6. QueueInv(Tail(q), p2)
  BY Zenon, <1>1, <1>4, <1>5 DEF QueueInv
<1> QED BY Zenon, <1>0, <1>1, <1>2, <1>3, <1>6

\* The message in hand becomes a due commit.
LEMMA TurnDue ==
    ASSUME NEW q \in Seq(Message), q # <<>>, NEW p, NEW p2, QueueInv(q, p),
           Owed(Head(q)) \/ p2 = p, Head(q).type = "block"
    PROVE  /\ <<[Head(q) EXCEPT !.type = "due"]>> \o Tail(q) \in Seq(Message)
           /\ Len(<<[Head(q) EXCEPT !.type = "due"]>> \o Tail(q)) = Len(q)
           /\ QueueInv(<<[Head(q) EXCEPT !.type = "due"]>> \o Tail(q), p2)
<1>0. PICK k \in Nat : k = Len(q)
  OBVIOUS
<1>1. /\ Tail(q) \in Seq(Message) /\ Len(Tail(q)) = k - 1 /\ k >= 1 /\ Head(q) \in Message
      /\ MsgOK(Head(q), p) /\ QueueInv(Tail(q), p2)
  BY <1>0, TakeMessage
<1>2. PICK m : m = [Head(q) EXCEPT !.type = "due"]
  BY Zenon
<1>3. m \in Message /\ m.type = "due" /\ m.b = Head(q).b
  BY Zenon, <1>1, <1>2 DEF Message
<1>4. ~Owed(m) /\ MsgOK(m, p2)
  BY Zenon, <1>1, <1>3 DEF Owed, MsgOK
<1>5. PICK t \in Seq(Message) : t = Tail(q) /\ Len(t) = k - 1
  BY Zenon, <1>1
<1>6. PICK s : s = <<m>> \o t
  BY Zenon
<1>7. /\ s \in Seq(Message) /\ Len(s) = k /\ s[1] = m
      /\ \A i \in 2 .. k : s[i] = t[i - 1]
  BY <1>1, <1>3, <1>5, <1>6
<1>8. /\ \A i \in 1 .. k - 1 : MsgOK(t[i], p2)
      /\ \A i, j \in 1 .. k - 1 : Owed(t[i]) /\ Owed(t[j]) => i = j
  BY Zenon, <1>1, <1>5 DEF QueueInv
<1>9. ASSUME NEW i \in 1 .. k PROVE MsgOK(s[i], p2)
  <2>1. CASE i = 1
    BY Zenon, <1>4, <1>7, <2>1
  <2>2. CASE i # 1
    <3>1. i \in 2 .. k /\ i - 1 \in 1 .. k - 1
      BY <2>2
    <3> QED BY Zenon, <1>7, <1>8, <3>1
  <2> QED BY Zenon, <2>1, <2>2
<1>10. ASSUME NEW i \in 1 .. k, NEW j \in 1 .. k, Owed(s[i]), Owed(s[j]) PROVE i = j
  <2>1. i # 1 /\ j # 1
    BY Zenon, <1>4, <1>7, <1>10
  <2>2. i \in 2 .. k /\ i - 1 \in 1 .. k - 1 /\ j \in 2 .. k /\ j - 1 \in 1 .. k - 1
    BY <2>1
  <2>3. i - 1 = j - 1
    BY Zenon, <1>7, <1>8, <1>10, <2>2
  <2> QED BY SMTT(30), <2>3
<1>11. QueueInv(s, p2)
  BY Zenon, <1>7, <1>9, <1>10 DEF QueueInv
<1> QED BY Zenon, <1>0, <1>2, <1>5, <1>6, <1>7, <1>11

\* No message is owed unless the pass waits for it, so the pass may move on.
LEMMA NothingOwed ==
    ASSUME NEW q \in Seq(Message), NEW p, NEW p2, QueueInv(q, p), p.pc \notin {"ping", "sent"}
    PROVE  /\ \A i \in 1 .. Len(q) : ~Owed(q[i])
           /\ QueueInv(q, p2)
<1>1. \A i \in 1 .. Len(q) : ~Owed(q[i])
  BY Zenon DEF QueueInv, MsgOK, Owed
<1>2. \A i \in 1 .. Len(q) : MsgOK(q[i], p2)
  BY Zenon, <1>1 DEF QueueInv, MsgOK, Owed
<1> QED BY Zenon, <1>1, <1>2 DEF QueueInv

\* Sending a message: one nobody waits for, or the first one the pass waits for.
LEMMA SendMessage ==
    ASSUME NEW q \in Seq(Message), Len(q) < QueueCap, NEW p, QueueInv(q, p),
           NEW m \in Message, MsgOK(m, p), ~Owed(m) \/ \A i \in 1 .. Len(q) : ~Owed(q[i])
    PROVE  /\ Append(q, m) \in Seq(Message)
           /\ Len(Append(q, m)) <= QueueCap
           /\ QueueInv(Append(q, m), p)
<1>0. PICK k \in Nat : k = Len(q)
  OBVIOUS
<1>1. PICK s : s = Append(q, m)
  BY ZenonT(60)
<1>2. /\ s \in Seq(Message) /\ Len(s) = k + 1 /\ s[k + 1] = m
      /\ \A i \in 1 .. k : s[i] = q[i]
  BY <1>0, <1>1
<1>3. /\ \A i \in 1 .. k : MsgOK(q[i], p)
      /\ \A i, j \in 1 .. k : Owed(q[i]) /\ Owed(q[j]) => i = j
  BY Zenon, <1>0 DEF QueueInv
<1>4. ASSUME NEW i \in 1 .. k + 1 PROVE MsgOK(s[i], p)
  <2>1. CASE i = k + 1
    BY Zenon, <1>2, <2>1
  <2>2. CASE i # k + 1
    <3>1. i \in 1 .. k
      BY <2>2
    <3> QED BY Zenon, <1>2, <1>3, <3>1
  <2> QED BY Zenon, <2>1, <2>2
<1>5. ASSUME NEW i \in 1 .. k + 1, NEW j \in 1 .. k + 1, Owed(s[i]), Owed(s[j]) PROVE i = j
  <2>1. CASE i = k + 1
    <3>1. \A l \in 1 .. k : ~Owed(q[l])
      BY Zenon, <1>0, <1>2, <1>5, <2>1
    <3>2. j \notin 1 .. k
      BY Zenon, <1>2, <1>5, <3>1
    <3> QED BY SMTT(30), <2>1, <3>2
  <2>2. CASE j = k + 1
    <3>1. \A l \in 1 .. k : ~Owed(q[l])
      BY Zenon, <1>0, <1>2, <1>5, <2>2
    <3>2. i \notin 1 .. k
      BY Zenon, <1>2, <1>5, <3>1
    <3> QED BY SMTT(30), <2>2, <3>2
  <2>3. CASE i # k + 1 /\ j # k + 1
    <3>1. i \in 1 .. k /\ j \in 1 .. k
      BY SMTT(30), <2>3
    <3> QED BY Zenon, <1>2, <1>3, <1>5, <3>1
  <2> QED BY Zenon, <2>1, <2>2, <2>3
<1>6. QueueInv(s, p)
  BY Zenon, <1>2, <1>4, <1>5 DEF QueueInv
<1>7. k + 1 <= QueueCap
  BY SMTT(30), <1>0, StoreAssumption
<1> QED BY Zenon, <1>1, <1>2, <1>6, <1>7
=============================================================================
