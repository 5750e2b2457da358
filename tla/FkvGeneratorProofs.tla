------------------------- MODULE FkvGeneratorProofs -------------------------
(***************************************************************************)
(* Proofs about FkvGenerator, for any number of accounts, slots, values    *)
(* and commits, any batch size and any stored trie, where no account is    *)
(* removed from the trie (from Cancun on).                                 *)
(***************************************************************************)
EXTENDS FkvGenerator, FiniteSetTheorems, TLAPS

-----------------------------------------------------------------------------
(* The flat tables.                                                        *)

\* No slot without its account: the walk finds every leaf of the trie.
Rooted == \A k \in Key : trie[k] # 0 => trie[<<k[1], 0>>] # 0

\* The worker writes only while the generator is not walking, and commits only
\* after the startup code had its turn.
Handshake ==
    /\ worker # "idle" => starter = "sent"
    /\ worker = "write" => gen.pc \notin {"iterate", "check"}

\* The flat tables are the trie up to the frontier and empty past it; the
\* frontier is on a leaf of an account that exists.
Frontier ==
    /\ last_computed = last_written
    /\ \A k \in Key : flat[k] = IF AtMost(k, last_written) THEN trie[k] ELSE 0
    /\ last_written \in Key => trie[<<last_written[1], 0>>] # 0
    /\ gen.pc \in {"iterate", "check", "stopped"} => last_written # Complete
    /\ gen.pc = "stopped" => batch = {}

\* A pass that has visited nothing yet.
Fresh ==
    /\ gen.pc = "iterate"
    /\ gen.at = <<last_written[1] - 1, MaxSlot>>
    /\ gen.skip = last_written[2]
    /\ batch = {}

\* A pass under way: it is at the frontier or past it, and what lies between is
\* in the open batch.
Walking ==
    /\ gen.skip = 0
    /\ \A j \in Key : Less(gen.at, j) => AtMost(last_written, j)
    /\ \A j \in Key : Less(last_written, j) /\ AtMost(j, gen.at) /\ trie[j] # 0
                        => <<j, trie[j]>> \in batch
    /\ \A leaf \in batch : leaf[2] = trie[leaf[1]] /\ AtMost(leaf[1], gen.at)

\* Inside a pass the generator is at one of those two points.
Pass == gen.pc \in {"iterate", "check"} => Fresh \/ Walking

\* The inductive invariant behind FlatCorrect and ReadsAgree.
FlatInv == TypeOK /\ IsFiniteSet(batch) /\ Rooted /\ Handshake /\ Frontier /\ Pass

-----------------------------------------------------------------------------
(* The order of the keys and the walk.                                     *)

\* Places in the walk: a key, or a position before or between keys.
Position == Int \X Int

\* The keys are places of the walk, in its order.
LEMMA KeyFacts ==
    /\ Key \subseteq Position /\ Unset \in Position /\ Complete \in Position
    /\ Unset \notin Key /\ Complete \notin Key
    /\ \A k \in Key : /\ k[1] \in 1 .. MaxAccount /\ k[2] \in 0 .. MaxSlot
                      /\ k[1] \in Int /\ k[2] \in Int
                      /\ <<k[1], 0>> \in Key /\ Less(Unset, k) /\ Less(k, Complete)
BY FkvAssumption DEF Key, Position, Unset, Complete, Less

\* Less is a strict total order.
LEMMA OrderFacts ==
    ASSUME NEW i \in Position, NEW j \in Position, NEW k \in Position
    PROVE  /\ ~Less(i, i)
           /\ Less(i, j) => ~Less(j, i)
           /\ Less(i, j) /\ Less(j, k) => Less(i, k)
           /\ Less(i, j) \/ i = j \/ Less(j, i)
           /\ AtMost(i, j) <=> Less(i, j) \/ i = j
           /\ AtMost(i, j) /\ AtMost(j, k) => AtMost(i, k)
           /\ AtMost(i, j) /\ Less(j, k) => Less(i, k)
           /\ Less(i, j) /\ AtMost(j, k) => Less(i, k)
<1>1. /\ ~Less(i, i)
      /\ Less(i, j) => ~Less(j, i)
      /\ Less(i, j) /\ Less(j, k) => Less(i, k)
  BY DEF Position, Less
<1>2. Less(i, j) \/ i = j \/ Less(j, i)
  BY DEF Position, Less
<1>3. AtMost(i, j) <=> Less(i, j) \/ i = j
  BY Zenon, <1>1, <1>2 DEF AtMost
<1>4. (AtMost(j, k) <=> Less(j, k) \/ j = k) /\ (AtMost(i, k) <=> Less(i, k) \/ i = k)
  BY DEF Position, Less, AtMost
<1> QED BY Zenon, <1>1, <1>2, <1>3, <1>4

\* First picks the least key of a set.
LEMMA FirstIsLeast ==
    ASSUME NEW S \in SUBSET Key, S # {}
    PROVE  First(S) \in S /\ \A j \in S : AtMost(First(S), j)
<1> DEFINE N == OpToRel(<, Nat)
           L == LexPairOrdering(N, N, Nat, Nat)
<1>1. IsWellFoundedOn(N, Nat)
  BY Zenon, NatLessThanWellFounded
<1>2. N = {ss \in Nat \X Nat : ss[1] < ss[2]}
  BY Zenon DEF OpToRel
<1>3. L = {ss \in (Nat \X Nat) \X (Nat \X Nat) :
             \/ <<ss[1][1], ss[2][1]>> \in N
             \/ ss[1][1] = ss[2][1] /\ <<ss[1][2], ss[2][2]>> \in N}
  BY Zenon DEF LexPairOrdering
<1> HIDE DEF N
<1>4. IsWellFoundedOn(L, Nat \X Nat)
  BY Zenon, <1>1, WFLexPairOrdering
<1> HIDE DEF L
<1>5. S \subseteq Nat \X Nat
  BY FkvAssumption DEF Key
<1>6. PICK x \in S : \A y \in S : ~(<<y, x>> \in L)
  BY Zenon, <1>4, <1>5, WFMin
<1>7. ASSUME NEW y \in S PROVE AtMost(x, y)
  <2>1. x \in Nat \X Nat /\ y \in Nat \X Nat /\ ~(<<y, x>> \in L)
    BY Zenon, <1>5, <1>6
  <2>2. ~(<<y[1], x[1]>> \in N) /\ ~(y[1] = x[1] /\ <<y[2], x[2]>> \in N)
    BY Zenon, <1>3, <2>1
  <2>3. ~(y[1] < x[1]) /\ ~(y[1] = x[1] /\ y[2] < x[2])
    BY Zenon, <1>2, <2>1, <2>2
  <2> QED BY Zenon, <2>3 DEF AtMost, Less
<1> QED BY Zenon, <1>7 DEF First

\* In a rooted trie the walk finds what is there.
LEMMA LeafIsThere ==
    ASSUME trie \in Tries, Rooted, NEW k \in Key PROVE Leaf(trie, k) = trie[k]
BY Zenon, KeyFacts DEF Leaf, Rooted, Tries

\* The next leaf of a walk: the first one past its position.
LEMMA NextLeaf ==
    ASSUME trie \in Tries, Rooted, NEW at \in Position, NEW k,
           Ahead(trie, at) # {}, k = First(Ahead(trie, at))
    PROVE  /\ k \in Key /\ trie[k] \in 1 .. MaxValue /\ Less(at, k)
           /\ \A j \in Key : Less(at, j) /\ trie[j] # 0 => AtMost(k, j)
<1>1. Ahead(trie, at) = {j \in Key : trie[j] # 0 /\ Less(at, j)}
  BY Zenon, LeafIsThere DEF Ahead
<1>2. PICK S \in SUBSET Key : S = Ahead(trie, at)
  BY Zenon, <1>1
<1>3. k \in S /\ \A j \in S : AtMost(k, j)
  BY Zenon, <1>2, FirstIsLeast
<1>4. k \in Key /\ trie[k] # 0 /\ Less(at, k)
  BY Zenon, <1>1, <1>2, <1>3
<1>5. trie[k] \in 1 .. MaxValue
  BY <1>4, FkvAssumption DEF Tries
<1>6. \A j \in Key : Less(at, j) /\ trie[j] # 0 => AtMost(k, j)
  BY Zenon, <1>1, <1>2, <1>3
<1> QED BY Zenon, <1>4, <1>5, <1>6

\* A batch of leaves of the trie lands.
LEMMA WrittenLeaves ==
    ASSUME TypeOK, NEW leaves \in SUBSET (Key \X (1 .. MaxValue)), NEW front,
           \A leaf \in leaves : leaf[2] = trie[leaf[1]], Written(leaves, front)
    PROVE  /\ flat' \in Tries
           /\ \A k \in Key : flat'[k] = IF \E leaf \in leaves : leaf[1] = k
                                        THEN trie[k] ELSE flat[k]
           /\ last_written' = front /\ last_computed' = front
<1>1. \A k \in Key : flat'[k] = IF \E leaf \in leaves : leaf[1] = k
                                THEN (CHOOSE leaf \in leaves : leaf[1] = k)[2] ELSE flat[k]
  BY Zenon DEF Written
<1>2. ASSUME NEW k \in Key, \E leaf \in leaves : leaf[1] = k
      PROVE  (CHOOSE leaf \in leaves : leaf[1] = k)[2] = trie[k]
  BY Zenon, <1>2
<1>3. \A k \in Key : flat'[k] = IF \E leaf \in leaves : leaf[1] = k
                                THEN trie[k] ELSE flat[k]
  BY Zenon, <1>1, <1>2
<1>4. flat' = [k \in Key |-> flat'[k]]
  BY Zenon DEF Written
<1>5. \A k \in Key : flat'[k] \in 0 .. MaxValue
  BY Zenon, <1>3 DEF TypeOK, Tries
<1> QED BY Zenon, <1>3, <1>4, <1>5 DEF Written, Tries

-----------------------------------------------------------------------------
(* Passes of the generator.                                                *)

\* What the types say of the position and of the frontier.
LEMMA Positions ==
    ASSUME TypeOK
    PROVE  /\ gen.at \in Position /\ gen.at[2] \in 0 .. MaxSlot /\ gen.skip \in 0 .. MaxSlot
           /\ last_written \in Position /\ last_written[2] \in 0 .. MaxSlot
           /\ last_written[1] \in 0 .. MaxAccount + 1
           /\ last_written \notin Key => last_written[2] = 0
           /\ last_written \notin Key /\ last_written # Complete => last_written = Unset
<1>1. /\ gen.at \in (-1 .. MaxAccount) \X (0 .. MaxSlot) /\ gen.skip \in 0 .. MaxSlot
      /\ last_written \in Key \cup {Unset, Complete}
  BY Zenon DEF TypeOK
<1>2. MaxAccount \in Nat /\ MaxSlot \in Nat
  BY Zenon, FkvAssumption
<1>3. gen.at \in Position /\ gen.at[2] \in 0 .. MaxSlot
  BY <1>1, <1>2 DEF Position
<1>4. CASE last_written \in Key
  <2>1. last_written[1] \in 1 .. MaxAccount /\ last_written[2] \in 0 .. MaxSlot
    BY Zenon, <1>4, KeyFacts
  <2>2. last_written[1] \in 0 .. MaxAccount + 1
    BY <1>2, <2>1
  <2>3. last_written \in Position
    BY Zenon, <1>4, KeyFacts
  <2> QED BY Zenon, <1>1, <1>3, <1>4, <2>1, <2>2, <2>3
<1>5. CASE last_written = Unset
  <2>1. last_written[1] = 0 /\ last_written[2] = 0
    BY Zenon, <1>5 DEF Unset
  <2> QED BY <1>1, <1>2, <1>3, <1>5, <2>1, KeyFacts
<1>6. CASE last_written = Complete
  <2>1. last_written[1] = MaxAccount + 1 /\ last_written[2] = 0
    BY Zenon, <1>6 DEF Complete
  <2> QED BY <1>1, <1>2, <1>3, <1>6, <2>1, KeyFacts
<1> QED BY Zenon, <1>1, <1>4, <1>5, <1>6

\* A pass that starts on an account leaf, or with no frontier, is under way.
LEMMA FreshIsWalking ==
    ASSUME TypeOK, Fresh, last_written[2] = 0 PROVE Walking
<1>1. /\ last_written \in Position /\ last_written[1] \in Int /\ MaxSlot \in Nat
      /\ gen.at = <<last_written[1] - 1, MaxSlot>>
  BY Positions, FkvAssumption DEF Fresh
<1>c. gen.at[1] = last_written[1] - 1 /\ gen.at[2] = MaxSlot
  BY <1>1
<1>k. \A j \in Key : j[1] \in Int /\ j[2] \in 0 .. MaxSlot
  BY Zenon, KeyFacts
<1>2. ASSUME NEW j \in Key, Less(gen.at, j) PROVE AtMost(last_written, j)
  BY <1>1, <1>2, <1>c, <1>k DEF Less, AtMost
<1>3. ASSUME NEW j \in Key, Less(last_written, j) PROVE ~AtMost(j, gen.at)
  BY <1>1, <1>3, <1>c, <1>k DEF Less, AtMost
<1> QED BY Zenon, <1>2, <1>3 DEF Walking, Fresh

\* A pass that starts inside an account meets that account first.
LEMMA FreshFirst ==
    ASSUME TypeOK, Rooted, Frontier, Fresh, last_written \in Key
    PROVE  /\ Ahead(trie, gen.at) # {}
           /\ First(Ahead(trie, gen.at)) = <<last_written[1], 0>>
<1> DEFINE a == <<last_written[1], 0>>
<1>1. /\ a \in Key /\ trie[a] # 0 /\ last_written[1] \in Int /\ MaxSlot \in Nat
      /\ gen.at = <<last_written[1] - 1, MaxSlot>> /\ gen.at \in Position
  BY Zenon, KeyFacts, Positions, FkvAssumption DEF Frontier, Fresh
<1>2. Less(gen.at, a)
  BY <1>1 DEF Less
<1>3. Leaf(trie, a) # 0
  BY Zenon, <1>1, LeafIsThere DEF TypeOK
<1>4. a \in Ahead(trie, gen.at)
  BY Zenon, <1>1, <1>2, <1>3 DEF Ahead
<1>5. PICK k : k = First(Ahead(trie, gen.at))
  BY Zenon
<1>6. PICK at \in Position : at = gen.at
  BY Zenon, <1>1
<1>7. k \in Key /\ Less(at, k) /\ AtMost(k, a)
  BY Zenon, <1>1, <1>2, <1>4, <1>5, <1>6, NextLeaf DEF TypeOK
<1>8. k[1] = last_written[1] /\ k[2] = 0
  <2>1. at[1] = last_written[1] - 1 /\ at[2] = MaxSlot
    BY <1>1, <1>6
  <2>2. k[1] \in Int /\ k[2] \in 0 .. MaxSlot
    BY Zenon, <1>7, KeyFacts
  <2>3. ~(last_written[1] < k[1]) /\ ~(last_written[1] = k[1] /\ 0 < k[2])
    BY Zenon, <1>7 DEF Less, AtMost
  <2>4. at[1] < k[1] \/ (at[1] = k[1] /\ at[2] < k[2])
    BY Zenon, <1>7 DEF Less
  <2> QED BY <1>1, <2>1, <2>2, <2>3, <2>4
<1>9. k = <<k[1], k[2]>>
  BY <1>7 DEF Key
<1> QED BY Zenon, <1>4, <1>5, <1>8, <1>9

\* A pass under way takes the next leaf: no leaf is between, none is below the
\* frontier, and all up to it are in the batch with it.
LEMMA WalkingPut ==
    ASSUME TypeOK, Rooted, Frontier, Walking, NEW k, Ahead(trie, gen.at) # {},
           k = First(Ahead(trie, gen.at)), NEW put, put = batch \cup {<<k, trie[k]>>}
    PROVE  /\ k \in Key /\ AtMost(last_written, k)
           /\ \A j \in Key : Less(last_written, j) /\ AtMost(j, k) /\ trie[j] # 0
                               => <<j, trie[j]>> \in put
           /\ \A leaf \in put : leaf[2] = trie[leaf[1]] /\ AtMost(leaf[1], k)
           /\ put \in SUBSET (Key \X (1 .. MaxValue))
<1>1. PICK at \in Position : at = gen.at
  BY Zenon, Positions
<1>2. /\ k \in Key /\ trie[k] \in 1 .. MaxValue /\ Less(at, k)
      /\ \A j \in Key : Less(at, j) /\ trie[j] # 0 => AtMost(k, j)
  BY Zenon, <1>1, NextLeaf DEF TypeOK
<1>3. batch \in SUBSET (Key \X (1 .. MaxValue))
  BY Zenon DEF TypeOK
<1>4. AtMost(last_written, k)
  BY Zenon, <1>1, <1>2 DEF Walking
<1>5. ASSUME NEW j \in Key, Less(last_written, j), AtMost(j, k), trie[j] # 0
      PROVE  <<j, trie[j]>> \in put
  <2>1. j \in Position /\ k \in Position
    BY Zenon, <1>2, KeyFacts
  <2>2. CASE AtMost(j, at)
    BY Zenon, <1>1, <1>5, <2>2 DEF Walking
  <2>3. CASE Less(at, j)
    <3>1. AtMost(k, j)
      BY Zenon, <1>2, <1>5, <2>3
    <3>2. j = k
      BY Zenon, <1>5, <2>1, <3>1, OrderFacts
    <3> QED BY Zenon, <3>2
  <2> QED BY Zenon, <2>2, <2>3 DEF AtMost
<1>6. ASSUME NEW leaf \in put PROVE leaf[2] = trie[leaf[1]] /\ AtMost(leaf[1], k)
  <2>1. CASE leaf \in batch
    <3>1. leaf[1] \in Position /\ k \in Position
      BY Zenon, <1>2, <1>3, <2>1, KeyFacts
    <3>2. leaf[2] = trie[leaf[1]] /\ AtMost(leaf[1], at)
      BY Zenon, <1>1, <2>1 DEF Walking
    <3>3. Less(leaf[1], k)
      BY <1>2, <3>1, <3>2, OrderFacts
    <3> QED BY Zenon, <3>1, <3>2, <3>3, OrderFacts
  <2>2. CASE leaf = <<k, trie[k]>>
    <3>1. k \in Position
      BY Zenon, <1>2, KeyFacts
    <3>2. AtMost(k, k)
      BY <3>1, OrderFacts
    <3> QED BY Zenon, <2>2, <3>2
  <2> QED BY Zenon, <2>1, <2>2
<1> QED BY <1>2, <1>3, <1>4, <1>5, <1>6

-----------------------------------------------------------------------------
(* The invariant.                                                          *)

\* An empty table over the first root satisfies the invariant.
LEMMA FlatInit == Init => FlatInv
<1> SUFFICES ASSUME Init PROVE FlatInv
  BY Zenon
<1>1. IsFiniteSet({}) /\ Cardinality({}) = 0
  BY Zenon, FS_EmptySet
<1>2. trie \in Tries /\ \A k \in Key : trie[k] = Leaf(trie, k)
  BY Zenon, StoredTriesAssumption DEF Init
<1>3. flat \in Tries
  BY FkvAssumption DEF Init, Tries
<1>4. gen \in [pc : {"wait", "iterate", "check", "stopped", "done", "dead"},
               at : (-1 .. MaxAccount) \X (0 .. MaxSlot), skip : 0 .. MaxSlot]
  BY FkvAssumption DEF Init, Unset
<1>5. batch = {} /\ Cardinality(batch) <= BatchSize /\ commits \in 0 .. MaxCommits
        /\ faults \in 0 .. MaxFaults
  BY <1>1, FkvAssumption DEF Init
<1>6. TypeOK
  BY Zenon, <1>2, <1>3, <1>4, <1>5 DEF Init, TypeOK
<1>7. Rooted
  BY Zenon, <1>2 DEF Rooted, Leaf
<1>8. Frontier
  BY Zenon, KeyFacts DEF Init, Frontier, AtMost
<1> QED BY Zenon, <1>1, <1>5, <1>6, <1>7, <1>8 DEF Init, FlatInv, Handshake, Pass

\* Opening a pass: it starts right before the account of the frontier.
LEMMA OpenPass ==
    ASSUME FlatInv, last_written # Complete, gen' = Opened, batch' = {},
           UNCHANGED last_written
    PROVE  /\ gen' \in [pc : {"wait", "iterate", "check", "stopped", "done", "dead"},
                        at : (-1 .. MaxAccount) \X (0 .. MaxSlot), skip : 0 .. MaxSlot]
           /\ gen'.pc = "iterate" /\ Fresh'
<1>1. /\ last_written[1] \in 0 .. MaxAccount /\ last_written[2] \in 0 .. MaxSlot
      /\ MaxSlot \in Nat /\ MaxAccount \in Nat
  <2>1. last_written \in Key \/ last_written = Unset
    BY Zenon DEF FlatInv, TypeOK
  <2>2. CASE last_written \in Key
    <3>1. last_written[1] \in 1 .. MaxAccount /\ last_written[2] \in 0 .. MaxSlot
      BY Zenon, <2>2, KeyFacts
    <3> QED BY <3>1, FkvAssumption
  <2>3. CASE last_written = Unset
    BY <2>3, FkvAssumption DEF Unset
  <2> QED BY Zenon, <2>1, <2>2, <2>3
<1>2. last_written[1] - 1 \in -1 .. MaxAccount /\ MaxSlot \in 0 .. MaxSlot
  BY <1>1
<1>3. <<last_written[1] - 1, MaxSlot>> \in (-1 .. MaxAccount) \X (0 .. MaxSlot)
  BY Zenon, <1>2
<1> QED BY Zenon, <1>1, <1>3 DEF Opened, Fresh

\* A pass that starts resumes from the last key written.
LEMMA BeginKeeps == ASSUME FlatInv, Begin PROVE FlatInv'
<1>1. worker' = "idle" /\ starter' \in {"send", "sent"}
  BY Zenon DEF Begin, FlatInv, Handshake, TypeOK
<1>2. /\ gen' \in [pc : {"wait", "iterate", "check", "stopped", "done", "dead"},
                   at : (-1 .. MaxAccount) \X (0 .. MaxSlot), skip : 0 .. MaxSlot]
      /\ \/ last_written # Complete /\ gen'.pc = "iterate" /\ Fresh'
         \/ gen'.pc = "done"
  <2>1. CASE last_written = Complete
    BY Zenon, <2>1 DEF Begin, FlatInv, TypeOK
  <2>2. CASE last_written # Complete
    BY Zenon, <2>2, OpenPass DEF Begin
  <2> QED BY Zenon, <2>1, <2>2
<1>3. /\ batch' = {} /\ UNCHANGED <<trie, last_written, last_computed, commits, faults>>
      /\ flat' = IF last_written = Unset THEN [k \in Key |-> 0] ELSE flat
  BY Zenon DEF Begin
<1>4. flat' \in Tries /\ \A k \in Key : flat'[k] = flat[k]
  <2>1. CASE last_written = Unset
    <3>1. \A k \in Key : flat[k] = 0
      BY Zenon, <2>1, KeyFacts DEF FlatInv, Frontier, AtMost
    <3> QED BY <1>3, <2>1, <3>1, FkvAssumption DEF Tries
  <2>2. CASE last_written # Unset
    BY Zenon, <1>3, <2>2 DEF FlatInv, TypeOK
  <2> QED BY Zenon, <2>1, <2>2
<1>5. IsFiniteSet(batch') /\ Cardinality(batch') <= BatchSize
  <2>1. IsFiniteSet({}) /\ Cardinality({}) = 0
    BY Zenon, FS_EmptySet
  <2> QED BY <1>3, <2>1, FkvAssumption
<1>6. TypeOK'
  BY Zenon, <1>1, <1>2, <1>3, <1>4, <1>5 DEF FlatInv, TypeOK
<1>7. Rooted'
  BY Zenon, <1>3 DEF FlatInv, Rooted
<1>8. Frontier'
  BY Zenon, <1>2, <1>3, <1>4 DEF FlatInv, Frontier
<1> QED BY Zenon, <1>1, <1>2, <1>5, <1>6, <1>7, <1>8 DEF FlatInv, Handshake, Pass

\* Steps that leave disk, batch and walk as they are: only where the two
\* threads stand changes.
LEMMA QuietKeeps ==
    ASSUME FlatInv,
           UNCHANGED <<trie, flat, last_written, last_computed, batch, starter>>,
           gen' = gen \/ (gen' = [gen EXCEPT !.pc = gen'.pc] /\ gen'.pc \in {"iterate", "done", "dead"}
                           /\ (gen'.pc = "iterate" => gen.pc = "check")),
           worker' \in {"idle", "stop", "write", "continue"},
           worker' = "write" => gen'.pc \notin {"iterate", "check"},
           worker' # "idle" => starter = "sent",
           commits' \in 0 .. MaxCommits, faults' \in 0 .. MaxFaults
    PROVE  FlatInv'
<1>1. gen' \in [pc : {"wait", "iterate", "check", "stopped", "done", "dead"},
                at : (-1 .. MaxAccount) \X (0 .. MaxSlot), skip : 0 .. MaxSlot]
  BY Zenon DEF FlatInv, TypeOK
<1>2. gen'.at = gen.at /\ gen'.skip = gen.skip
  BY Zenon DEF FlatInv, TypeOK
<1>3. TypeOK'
  BY Zenon, <1>1 DEF FlatInv, TypeOK
<1>4. Rooted' /\ Handshake'
  BY Zenon DEF FlatInv, Rooted, Handshake
<1>5. Frontier'
  BY Zenon DEF FlatInv, Frontier
<1>6. Walking => Walking'
  BY Zenon, <1>2 DEF Walking
<1>7. Pass'
  <2>1. CASE gen' = gen
    BY Zenon, <2>1, <1>6 DEF FlatInv, Pass, Fresh
  <2>2. CASE gen'.pc = "iterate" /\ gen.pc = "check"
    BY Zenon, <2>2, <1>6 DEF FlatInv, Pass, Fresh
  <2>3. CASE gen'.pc \in {"done", "dead"}
    BY Zenon, <2>3 DEF Pass
  <2> QED BY Zenon, <2>1, <2>2, <2>3
<1> QED BY Zenon, <1>3, <1>4, <1>5, <1>7 DEF FlatInv

\* The types after a step of the walk.
LEMMA WalkTypes ==
    ASSUME FlatInv, UNCHANGED <<trie, worker, starter, commits, faults>>, flat' \in Tries,
           last_written' \in Key \cup {Complete} \/ UNCHANGED last_written,
           last_computed' = last_written',
           gen'.pc \in {"iterate", "check", "done"}, gen'.skip = 0,
           gen' = [pc |-> gen'.pc, at |-> gen'.at, skip |-> gen'.skip],
           gen'.at \in (-1 .. MaxAccount) \X (0 .. MaxSlot),
           batch' \in SUBSET (Key \X (1 .. MaxValue)),
           Cardinality(batch') <= BatchSize
    PROVE  TypeOK'
<1>1. MaxSlot \in Nat
  BY Zenon, FkvAssumption
<1>2. gen' \in [pc : {"wait", "iterate", "check", "stopped", "done", "dead"},
                at : (-1 .. MaxAccount) \X (0 .. MaxSlot), skip : 0 .. MaxSlot]
  BY <1>1
<1>3. last_written' \in Key \cup {Unset, Complete} /\ last_computed' \in Key \cup {Unset, Complete}
  BY Zenon DEF FlatInv, TypeOK
<1> QED BY Zenon, <1>2, <1>3 DEF FlatInv, TypeOK

\* A leaf more in a batch that is not full.
LEMMA BatchGrows ==
    ASSUME FlatInv, NEW x, ~Full(batch \cup {x})
    PROVE  IsFiniteSet(batch \cup {x}) /\ Cardinality(batch \cup {x}) <= BatchSize
<1>1. IsFiniteSet(batch \cup {x})
  BY Zenon, FS_AddElement DEF FlatInv
<1>2. Cardinality(batch \cup {x}) \in Nat
  BY Zenon, <1>1, FS_CardinalityType
<1> QED BY <1>1, <1>2, FkvAssumption DEF Full

\* A pass that starts inside an account: the account leaf is put again and the
\* slots below the frontier's are skipped.  A batch of one leaf is never full.
LEMMA VisitSkips ==
    ASSUME FlatInv, Visit, Fresh, last_written[2] # 0 PROVE FlatInv'
<1>1. last_written \in Key /\ gen.skip = last_written[2] /\ gen.skip \in 1 .. MaxSlot
        /\ batch = {} /\ gen.pc = "iterate"
  <2>1. last_written \in Key /\ last_written[2] \in 0 .. MaxSlot /\ MaxSlot \in Nat
    BY Zenon, Positions, FkvAssumption DEF FlatInv
  <2> QED BY <2>1 DEF Fresh
<1> DEFINE k == <<last_written[1], 0>>
           at == <<last_written[1], gen.skip - 1>>
           put == batch \cup {<<k, trie[k]>>}
<1>2. First(Ahead(trie, gen.at)) = k /\ k \in Key
  BY Zenon, <1>1, FreshFirst, KeyFacts DEF FlatInv
<1>3. put = {<<k, trie[k]>>}
  BY Zenon, <1>1
<1>4. ~Full(put)
  <2>1. Cardinality({<<k, trie[k]>>}) = 1
    BY Zenon, FS_Singleton
  <2> QED BY <1>3, <2>1, FkvAssumption DEF Full
<1>5. /\ gen'.pc \in {"iterate", "check"} /\ gen'.at = at /\ gen'.skip = 0
      /\ gen' = [pc |-> gen'.pc, at |-> gen'.at, skip |-> gen'.skip]
      /\ batch' = put
      /\ UNCHANGED <<trie, flat, last_written, last_computed, worker, starter, commits, faults>>
  <2>1. k[2] = 0 /\ gen.skip > 0 /\ k[1] = last_written[1]
    BY <1>1
  <2> HIDE DEF k
  <2> QED BY Zenon, <1>2, <1>4, <2>1 DEF Visit
<1>6. trie[k] \in 1 .. MaxValue
  <2>1. trie[k] \in 0 .. MaxValue /\ trie[k] # 0
    BY Zenon, <1>1, <1>2 DEF FlatInv, TypeOK, Tries, Frontier
  <2> QED BY <2>1, FkvAssumption
<1>7. at \in (-1 .. MaxAccount) \X (0 .. MaxSlot)
  <2>1. last_written[1] \in 1 .. MaxAccount /\ MaxAccount \in Nat /\ MaxSlot \in Nat
    BY Zenon, <1>1, KeyFacts, FkvAssumption
  <2>2. last_written[1] \in -1 .. MaxAccount /\ gen.skip - 1 \in 0 .. MaxSlot
    BY <1>1, <2>1
  <2> QED BY Zenon, <2>2
<1>8. IsFiniteSet(batch') /\ Cardinality(batch') <= BatchSize
  BY Zenon, <1>4, <1>5, BatchGrows
<1>9. batch' \in SUBSET (Key \X (1 .. MaxValue))
  BY <1>2, <1>3, <1>5, <1>6
<1>10. TypeOK'
  BY Zenon, <1>5, <1>7, <1>8, <1>9, WalkTypes DEF FlatInv, TypeOK, Frontier
<1>11. Walking'
  <2>1. /\ at \in Position /\ last_written \in Position /\ at[1] = last_written[1]
        /\ at[2] = last_written[2] - 1 /\ last_written[1] \in Int /\ last_written[2] \in Int
    BY <1>1, <1>7, KeyFacts, FkvAssumption DEF Position
  <2>2. ASSUME NEW j \in Key, Less(at, j) PROVE AtMost(last_written, j)
    <3>1. j[1] \in Int /\ j[2] \in Int
      BY Zenon, KeyFacts, FkvAssumption
    <3> QED BY <2>1, <2>2, <3>1 DEF Less, AtMost
  <2>3. ASSUME NEW j \in Key, Less(last_written, j) PROVE ~AtMost(j, at)
    <3>1. j[1] \in Int /\ j[2] \in Int
      BY Zenon, KeyFacts, FkvAssumption
    <3> QED BY <2>1, <2>3, <3>1 DEF Less, AtMost
  <2>4. AtMost(k, at)
    BY <1>1, <2>1 DEF Less, AtMost
  <2>5. \A leaf \in batch' : leaf[2] = trie[leaf[1]] /\ AtMost(leaf[1], at)
    BY <1>3, <1>5, <2>4
  <2> HIDE DEF at, put, k
  <2> QED BY Zenon, <1>5, <2>2, <2>3, <2>5 DEF Walking
<1>12. Rooted' /\ Handshake' /\ Frontier'
  BY Zenon, <1>1, <1>5 DEF FlatInv, Rooted, Handshake, Frontier
<1> QED BY Zenon, <1>8, <1>10, <1>11, <1>12 DEF FlatInv, Pass

\* The frontier moves: what lay between it and its new place is in the batch
\* that lands, or not in the trie.
LEMMA FrontierMoves ==
    ASSUME FlatInv, NEW leaves \in SUBSET (Key \X (1 .. MaxValue)), NEW front \in Position,
           \A leaf \in leaves : leaf[2] = trie[leaf[1]] /\ AtMost(leaf[1], front),
           \A j \in Key : Less(last_written, j) /\ AtMost(j, front) /\ trie[j] # 0
                            => <<j, trie[j]>> \in leaves,
           AtMost(last_written, front),
           Written(leaves, front), UNCHANGED trie
    PROVE  /\ flat' \in Tries /\ last_written' = front /\ last_computed' = front
           /\ \A k \in Key : flat'[k] = IF AtMost(k, front) THEN trie[k] ELSE 0
<1>1. /\ flat' \in Tries /\ last_written' = front /\ last_computed' = front
      /\ \A k \in Key : flat'[k] = IF \E leaf \in leaves : leaf[1] = k
                                   THEN trie[k] ELSE flat[k]
  BY WrittenLeaves DEF FlatInv
<1>2. ASSUME NEW k \in Key PROVE flat'[k] = IF AtMost(k, front) THEN trie[k] ELSE 0
  <2>1. /\ k \in Position /\ last_written \in Position
        /\ flat[k] = IF AtMost(k, last_written) THEN trie[k] ELSE 0
    BY Zenon, KeyFacts, Positions DEF FlatInv, Frontier
  <2>2. CASE \E leaf \in leaves : leaf[1] = k
    BY <1>1, <2>2
  <2>3. CASE ~ \E leaf \in leaves : leaf[1] = k
    <3>1. flat'[k] = flat[k] /\ <<k, trie[k]>> \notin leaves
      BY Zenon, <1>1, <2>3
    <3>2. CASE AtMost(k, last_written)
      <4>1. AtMost(k, front)
        BY Zenon, <2>1, <3>2, OrderFacts
      <4> QED BY Zenon, <2>1, <3>1, <3>2, <4>1
    <3>3. CASE ~AtMost(k, last_written)
      BY Zenon, <2>1, <3>1, <3>3 DEF AtMost
    <3> QED BY Zenon, <3>2, <3>3
  <2> QED BY Zenon, <2>2, <2>3
<1> QED BY Zenon, <1>1, <1>2

\* A pass under way puts the next leaf, and a full batch lands with the
\* frontier on that leaf.
LEMMA VisitWalks ==
    ASSUME FlatInv, Visit, Walking PROVE FlatInv'
<1>1. PICK k : k = First(Ahead(trie, gen.at))
  BY Zenon
<1>2. PICK put : put = batch \cup {<<k, trie[k]>>}
  BY Zenon
<1>3. /\ k \in Key /\ AtMost(last_written, k)
      /\ \A j \in Key : Less(last_written, j) /\ AtMost(j, k) /\ trie[j] # 0
                          => <<j, trie[j]>> \in put
      /\ \A leaf \in put : leaf[2] = trie[leaf[1]] /\ AtMost(leaf[1], k)
      /\ put \in SUBSET (Key \X (1 .. MaxValue))
  BY <1>1, <1>2, WalkingPut DEF FlatInv, Visit
<1>4. /\ gen'.pc \in {"iterate", "check"} /\ gen'.at = k /\ gen'.skip = 0
      /\ gen' = [pc |-> gen'.pc, at |-> gen'.at, skip |-> gen'.skip]
      /\ UNCHANGED <<trie, worker, starter, commits, faults>>
      /\ IF Full(put) THEN Written(put, k) /\ batch' = {}
         ELSE batch' = put /\ UNCHANGED <<flat, last_written, last_computed>>
  BY <1>1, <1>2 DEF Visit, Walking
<1>5. gen.pc = "iterate"
  BY Zenon DEF Visit
<1>6. /\ k \in Position /\ last_written \in Position /\ k # Complete /\ k # Unset
      /\ AtMost(k, k) /\ \A j \in Key : j \in Position
  BY Zenon, <1>3, KeyFacts, Positions, OrderFacts DEF FlatInv
<1>7. gen'.at \in (-1 .. MaxAccount) \X (0 .. MaxSlot)
  BY <1>3, <1>4, FkvAssumption DEF Key
<1>8. Rooted' /\ Handshake'
  BY Zenon, <1>4, <1>5 DEF FlatInv, Rooted, Handshake
<1>9. CASE Full(put)
  <2>1. /\ flat' \in Tries /\ last_written' = k /\ last_computed' = k
        /\ \A j \in Key : flat'[j] = IF AtMost(j, k) THEN trie[j] ELSE 0
    BY <1>3, <1>4, <1>6, <1>9, FrontierMoves
  <2>2. batch' = {} /\ IsFiniteSet(batch') /\ Cardinality(batch') <= BatchSize
    <3>1. IsFiniteSet({}) /\ Cardinality({}) = 0
      BY Zenon, FS_EmptySet
    <3> QED BY <1>4, <1>9, <3>1, FkvAssumption
  <2>3. TypeOK'
    BY Zenon, <1>3, <1>4, <1>7, <2>1, <2>2, WalkTypes
  <2>4. trie[<<k[1], 0>>] # 0
    <3>1. PICK at \in Position : at = gen.at
      BY Zenon, Positions DEF FlatInv
    <3>2. trie[k] \in 1 .. MaxValue
      BY Zenon, <1>1, <3>1, NextLeaf DEF Visit, FlatInv, TypeOK
    <3>3. trie[k] # 0
      BY <3>2, FkvAssumption
    <3> QED BY Zenon, <1>3, <3>3 DEF FlatInv, Rooted
  <2>5. Frontier'
    BY Zenon, <1>3, <1>4, <1>6, <2>1, <2>4 DEF Frontier
  <2>6. Walking'
    <3>1. \A j \in Key : Less(k, j) => AtMost(k, j) /\ ~AtMost(j, k)
      BY Zenon, <1>6, OrderFacts DEF AtMost
    <3> QED BY Zenon, <1>4, <2>1, <2>2, <3>1 DEF Walking
  <2> QED BY Zenon, <1>8, <2>2, <2>3, <2>5, <2>6 DEF FlatInv, Pass
<1>10. CASE ~Full(put)
  <2>1. batch' = put /\ UNCHANGED <<flat, last_written, last_computed>>
    BY Zenon, <1>4, <1>10
  <2>2. IsFiniteSet(batch') /\ Cardinality(batch') <= BatchSize
    BY Zenon, <1>2, <1>10, <2>1, BatchGrows
  <2>3. TypeOK'
    BY Zenon, <1>3, <1>4, <1>7, <2>1, <2>2, WalkTypes DEF FlatInv, TypeOK, Frontier
  <2>4. Frontier'
    BY Zenon, <1>4, <1>5, <2>1 DEF FlatInv, Frontier
  <2>5. Walking'
    <3>1. ASSUME NEW j \in Key, Less(k, j) PROVE AtMost(last_written, j)
      <4>1. j \in Position
        BY Zenon, KeyFacts
      <4>2. Less(last_written, j)
        BY Zenon, <1>3, <1>6, <3>1, <4>1, OrderFacts
      <4> QED BY Zenon, <1>6, <4>1, <4>2, OrderFacts
    <3> QED BY Zenon, <1>3, <1>4, <2>1, <3>1 DEF Walking
  <2> QED BY Zenon, <1>8, <2>2, <2>3, <2>4, <2>5 DEF FlatInv, Pass
<1> QED BY Zenon, <1>9, <1>10

\* Visiting a leaf puts it in the batch and writes a batch that is full.
LEMMA VisitKeeps == ASSUME FlatInv, Visit PROVE FlatInv'
<1>1. CASE Walking
  BY Zenon, <1>1, VisitWalks
<1>2. CASE Fresh /\ last_written[2] # 0
  BY Zenon, <1>2, VisitSkips
<1>3. CASE Fresh /\ last_written[2] = 0
  BY Zenon, <1>3, FreshIsWalking, VisitWalks DEF FlatInv
<1> QED BY Zenon, <1>1, <1>2, <1>3 DEF FlatInv, Pass, Visit

\* The walk is over: every leaf is in the tables or in the last batch.
LEMMA FinishKeeps == ASSUME FlatInv, Finish PROVE FlatInv'
<1>1. gen.pc = "iterate" /\ Ahead(trie, gen.at) = {} /\ last_written # Complete
  BY Zenon DEF Finish, FlatInv, Frontier
<1>2. Walking
  <2>1. CASE Fresh
    <3>1. last_written \notin Key
      BY Zenon, <1>1, <2>1, FreshFirst DEF FlatInv
    <3>2. last_written[2] = 0
      BY <1>1, <3>1 DEF FlatInv, TypeOK, Unset
    <3> QED BY Zenon, <2>1, <3>2, FreshIsWalking DEF FlatInv
  <2> QED BY Zenon, <1>1, <2>1 DEF FlatInv, Pass
<1>3. /\ last_written \in Position /\ gen.at \in Position /\ Complete \in Position
      /\ AtMost(last_written, Complete)
      /\ \A j \in Key : j \in Position /\ AtMost(j, Complete)
  <2>1. /\ last_written \in Position /\ gen.at \in Position /\ Complete \in Position
        /\ \A j \in Key : j \in Position /\ Less(j, Complete)
    BY Zenon, Positions, KeyFacts DEF FlatInv
  <2>2. Less(Unset, Complete)
    BY FkvAssumption DEF Less, Unset, Complete
  <2>3. last_written \in Key \cup {Unset}
    BY Zenon, <1>1 DEF FlatInv, TypeOK
  <2>4. Less(last_written, Complete)
    BY Zenon, <2>1, <2>2, <2>3
  <2> QED BY Zenon, <2>1, <2>4, OrderFacts
<1>4. ASSUME NEW j \in Key, Less(last_written, j), trie[j] # 0
      PROVE  <<j, trie[j]>> \in batch
  <2>1. Leaf(trie, j) # 0
    BY Zenon, <1>4, LeafIsThere DEF FlatInv, TypeOK
  <2>2. AtMost(j, gen.at)
    BY Zenon, <1>1, <2>1 DEF Ahead, AtMost
  <2> QED BY Zenon, <1>2, <1>4, <2>2 DEF Walking
<1>5. /\ batch \in SUBSET (Key \X (1 .. MaxValue))
      /\ \A leaf \in batch : leaf[2] = trie[leaf[1]] /\ AtMost(leaf[1], Complete)
  BY Zenon, <1>2, <1>3 DEF FlatInv, TypeOK, Walking
<1>6. /\ Written(batch, Complete) /\ batch' = {}
      /\ gen' = [gen EXCEPT !.pc = "done"]
      /\ UNCHANGED <<trie, worker, starter, commits, faults>>
  BY Zenon DEF Finish
<1>7. /\ flat' \in Tries /\ last_written' = Complete /\ last_computed' = Complete
      /\ \A k \in Key : flat'[k] = IF AtMost(k, Complete) THEN trie[k] ELSE 0
  <2>1. PICK leaves \in SUBSET (Key \X (1 .. MaxValue)) : leaves = batch
    BY Zenon, <1>5
  <2> QED BY Zenon, <1>3, <1>4, <1>5, <1>6, <2>1, FrontierMoves
<1>8. /\ gen'.pc = "done" /\ gen'.skip = 0 /\ gen'.at = gen.at
      /\ gen' = [pc |-> gen'.pc, at |-> gen'.at, skip |-> gen'.skip]
      /\ gen'.at \in (-1 .. MaxAccount) \X (0 .. MaxSlot)
  BY Zenon, <1>2, <1>6 DEF FlatInv, TypeOK, Walking
<1>9. IsFiniteSet(batch') /\ Cardinality(batch') <= BatchSize
  <2>1. IsFiniteSet({}) /\ Cardinality({}) = 0
    BY Zenon, FS_EmptySet
  <2> QED BY <1>6, <2>1, FkvAssumption
<1>10. TypeOK'
  BY Zenon, <1>6, <1>7, <1>8, <1>9, WalkTypes
<1>11. Rooted' /\ Handshake'
  BY Zenon, <1>1, <1>6, <1>8 DEF FlatInv, Rooted, Handshake
<1>12. Frontier'
  BY Zenon, <1>6, <1>7, <1>8, KeyFacts DEF Frontier
<1>13. Pass'
  BY Zenon, <1>8 DEF Pass
<1> QED BY Zenon, <1>9, <1>10, <1>11, <1>12, <1>13 DEF FlatInv

\* A generator that takes the Stop forgets its batch; the pass that follows
\* starts again from the frontier.
LEMMA CheckKeeps == ASSUME FlatInv, Check PROVE FlatInv'
<1>1. CASE worker = "stop"
  <2>1. /\ gen' = [gen EXCEPT !.pc = "stopped"] /\ batch' = {} /\ worker' = "write"
        /\ gen.pc = "check"
        /\ UNCHANGED <<trie, flat, last_written, last_computed, starter, commits, faults>>
    BY Zenon, <1>1 DEF Check, disk_vars
  <2>2. IsFiniteSet(batch') /\ Cardinality(batch') <= BatchSize
    <3>1. IsFiniteSet({}) /\ Cardinality({}) = 0
      BY Zenon, FS_EmptySet
    <3> QED BY <2>1, <3>1, FkvAssumption
  <2>3. gen' \in [pc : {"wait", "iterate", "check", "stopped", "done", "dead"},
                  at : (-1 .. MaxAccount) \X (0 .. MaxSlot), skip : 0 .. MaxSlot]
        /\ gen'.pc = "stopped"
    BY Zenon, <2>1 DEF FlatInv, TypeOK
  <2>4. TypeOK'
    BY Zenon, <2>1, <2>2, <2>3 DEF FlatInv, TypeOK
  <2>5. Rooted' /\ Handshake'
    BY Zenon, <1>1, <2>1, <2>3 DEF FlatInv, Rooted, Handshake
  <2>6. Frontier' /\ Pass'
    BY Zenon, <2>1, <2>3 DEF FlatInv, Frontier, Pass
  <2> QED BY Zenon, <2>2, <2>4, <2>5, <2>6 DEF FlatInv
<1>2. CASE worker # "stop"
  <2>1. /\ gen.pc = "check"
        /\ gen' = [gen EXCEPT !.pc = IF worker = "continue" THEN "dead" ELSE "iterate"]
        /\ worker' = IF worker = "continue" THEN "idle" ELSE worker
        /\ UNCHANGED <<trie, flat, last_written, last_computed, batch, starter,
                       commits, faults>>
    BY Zenon, <1>2 DEF Check, disk_vars
  <2>2. gen'.pc = IF worker = "continue" THEN "dead" ELSE "iterate"
    BY Zenon, <2>1 DEF FlatInv, TypeOK
  <2>3. worker \in {"idle", "continue"}
    BY Zenon, <1>2, <2>1 DEF FlatInv, TypeOK, Handshake
  <2>4. /\ commits' \in 0 .. MaxCommits /\ faults' \in 0 .. MaxFaults
        /\ worker' = "idle"
    BY Zenon, <2>1, <2>3 DEF FlatInv, TypeOK
  <2> QED BY Zenon, <2>1, <2>2, <2>4, QuietKeeps
<1> QED BY Zenon, <1>1, <1>2

\* Continue opens a new pass at the frontier, on the trie as it is now.
LEMMA ResumeKeeps == ASSUME FlatInv, Resume PROVE FlatInv'
<1>1. gen.pc = "stopped" /\ batch = {} /\ last_written # Complete
  BY Zenon DEF Resume, FlatInv, Frontier
<1>2. UNCHANGED <<trie, flat, last_written, last_computed, batch, starter, commits, faults>>
  BY Zenon DEF Resume, disk_vars
<1>3. CASE worker = "continue"
  <2>1. gen' = Opened /\ batch' = {} /\ worker' = "idle"
    BY Zenon, <1>1, <1>2, <1>3 DEF Resume
  <2>2. /\ gen' \in [pc : {"wait", "iterate", "check", "stopped", "done", "dead"},
                     at : (-1 .. MaxAccount) \X (0 .. MaxSlot), skip : 0 .. MaxSlot]
        /\ Fresh' /\ gen'.pc = "iterate"
    BY Zenon, <1>1, <1>2, <2>1, OpenPass DEF Opened
  <2>3. TypeOK'
    BY Zenon, <1>2, <2>1, <2>2 DEF FlatInv, TypeOK
  <2>4. Rooted' /\ Handshake'
    BY Zenon, <1>2, <2>1 DEF FlatInv, Rooted, Handshake
  <2>5. Frontier'
    BY Zenon, <1>1, <1>2, <2>2 DEF FlatInv, Frontier
  <2> QED BY Zenon, <1>2, <2>2, <2>3, <2>4, <2>5 DEF FlatInv, Pass
<1>4. CASE worker = "stop"
  <2>1. gen' = [gen EXCEPT !.pc = "dead"] /\ worker' = "write"
    BY Zenon, <1>4 DEF Resume
  <2>2. gen'.pc = "dead" /\ starter = "sent"
    BY Zenon, <1>4, <2>1 DEF FlatInv, TypeOK, Handshake
  <2>3. commits' \in 0 .. MaxCommits /\ faults' \in 0 .. MaxFaults
    BY Zenon, <1>2 DEF FlatInv, TypeOK
  <2> QED BY Zenon, <1>2, <2>1, <2>2, <2>3, QuietKeeps
<1> QED BY Zenon, <1>3, <1>4 DEF Resume

\* The steps that only move the handshake along.
LEMMA HandshakeKeeps ==
    ASSUME FlatInv, IgnoreStop \/ Closed \/ BeginCommit \/ WriteFails PROVE FlatInv'
<1>1. /\ UNCHANGED <<trie, flat, last_written, last_computed, batch, starter>>
      /\ gen' = gen
  BY Zenon DEF IgnoreStop, Closed, BeginCommit, WriteFails, disk_vars
<1>2. commits' \in 0 .. MaxCommits /\ faults' \in 0 .. MaxFaults
  BY FkvAssumption
  DEF FlatInv, TypeOK, IgnoreStop, Closed, BeginCommit, WriteFails
<1>3. /\ worker' \in {"idle", "stop", "write", "continue"}
      /\ worker' = "write" => gen'.pc \notin {"iterate", "check"}
      /\ worker' # "idle" => starter = "sent"
  BY Zenon DEF FlatInv, TypeOK, Handshake, IgnoreStop, Closed, BeginCommit, WriteFails
<1> QED BY Zenon, <1>1, <1>2, <1>3, QuietKeeps

\* A commit changes one leaf of the trie, and the flat tables with it at or
\* below the frontier, while the generator is not walking.
LEMMA WriteKeeps ==
    ASSUME FlatInv, Removable = {}, NEW k \in Key, NEW v \in 0 .. MaxValue, Write(k, v)
    PROVE  FlatInv'
<1>1. /\ worker = "write" /\ Allowed(k, v) /\ worker' = "continue"
      /\ trie' = Updates(k, v)
      /\ flat' = IF AtMost(k, last_written) THEN [flat EXCEPT ![k] = v] ELSE flat
      /\ UNCHANGED <<last_written, last_computed, gen, batch, starter, commits, faults>>
  BY Zenon DEF Write
<1>2. /\ trie \in Tries /\ flat \in Tries /\ gen.pc \notin {"iterate", "check"}
      /\ starter = "sent"
  BY Zenon, <1>1 DEF FlatInv, TypeOK, Handshake
<1>3. /\ k[2] = 0 => v # 0
      /\ k[2] # 0 => trie[<<k[1], 0>>] # 0
  BY Zenon, <1>1 DEF Allowed
<1>4. trie' = [j \in Key |-> IF j = k THEN v ELSE trie[j]]
  BY Zenon, <1>1, <1>3 DEF Updates
<1>5. trie' \in Tries /\ flat' \in Tries
  BY Zenon, <1>1, <1>2, <1>4 DEF Tries
<1>6. TypeOK'
  BY Zenon, <1>1, <1>5 DEF FlatInv, TypeOK
<1>7. ASSUME NEW j \in Key, trie[<<j[1], 0>>] # 0 \/ <<j[1], 0>> = k
      PROVE  trie'[<<j[1], 0>>] # 0
  <2>1. <<j[1], 0>> \in Key
    BY Zenon, KeyFacts
  <2> QED BY <1>3, <1>4, <1>7, <2>1
<1>8. Rooted'
  <2>1. ASSUME NEW j \in Key, trie'[j] # 0 PROVE trie'[<<j[1], 0>>] # 0
    <3>1. CASE j # k
      BY Zenon, <1>4, <1>7, <2>1, <3>1 DEF FlatInv, Rooted
    <3>2. CASE j = k /\ k[2] # 0
      BY Zenon, <1>3, <1>7, <3>2
    <3>3. CASE j = k /\ k[2] = 0
      <4>1. <<k[1], 0>> = k
        BY <3>3 DEF Key
      <4> QED BY Zenon, <1>7, <3>3, <4>1
    <3> QED BY Zenon, <3>1, <3>2, <3>3
  <2> QED BY Zenon, <2>1 DEF Rooted
<1>9. Handshake'
  BY Zenon, <1>1, <1>2 DEF Handshake
<1>10. Frontier'
  <2>1. ASSUME NEW j \in Key
        PROVE  flat'[j] = IF AtMost(j, last_written) THEN trie'[j] ELSE 0
    BY Zenon, <1>1, <1>2, <1>4 DEF FlatInv, Frontier, Tries
  <2>2. last_written \in Key => trie'[<<last_written[1], 0>>] # 0
    BY Zenon, <1>7 DEF FlatInv, Frontier
  <2> QED BY Zenon, <1>1, <2>1, <2>2 DEF FlatInv, Frontier
<1> QED BY Zenon, <1>1, <1>2, <1>6, <1>8, <1>9, <1>10 DEF FlatInv, Pass

\* A restart keeps what is on disk.
LEMMA RestartKeeps == ASSUME FlatInv, Restart PROVE FlatInv'
<1>1. /\ UNCHANGED <<trie, flat, last_written, commits>> /\ faults' = faults + 1
      /\ faults < MaxFaults /\ last_computed' = last_written
      /\ gen' = [pc |-> "wait", at |-> Unset, skip |-> 0] /\ batch' = {}
      /\ worker' = "idle" /\ starter' \in {"send", "sent"}
  BY Zenon DEF Restart, disk_vars
<1>2. IsFiniteSet(batch') /\ Cardinality(batch') <= BatchSize
  <2>1. IsFiniteSet({}) /\ Cardinality({}) = 0
    BY Zenon, FS_EmptySet
  <2> QED BY <1>1, <2>1, FkvAssumption
<1>3. gen' \in [pc : {"wait", "iterate", "check", "stopped", "done", "dead"},
                at : (-1 .. MaxAccount) \X (0 .. MaxSlot), skip : 0 .. MaxSlot]
  BY <1>1, FkvAssumption DEF Unset
<1>4. faults' \in 0 .. MaxFaults
  BY <1>1, FkvAssumption DEF FlatInv, TypeOK
<1>5. TypeOK'
  BY Zenon, <1>1, <1>2, <1>3, <1>4 DEF FlatInv, TypeOK
<1>6. Rooted' /\ Handshake' /\ Pass'
  BY Zenon, <1>1 DEF FlatInv, Rooted, Handshake, Pass
<1>7. Frontier'
  BY Zenon, <1>1 DEF FlatInv, Frontier
<1> QED BY Zenon, <1>2, <1>5, <1>6, <1>7 DEF FlatInv

-----------------------------------------------------------------------------
(* The theorems.                                                           *)

\* Every step of the generator, the worker and the readers keeps the invariant.
LEMMA FlatNext == ASSUME FlatInv, Removable = {}, [Next]_vars PROVE FlatInv'
<1>1. CASE UNCHANGED vars
  <2>1. UNCHANGED <<trie, flat, last_written, last_computed, gen, batch, worker, starter,
                    commits, faults>>
    BY Zenon, <1>1 DEF vars
  <2> QED BY <2>1 DEF FlatInv, TypeOK, Rooted, Handshake, Frontier, Pass, Fresh, Walking
<1>2. CASE Begin
  BY Zenon, <1>2, BeginKeeps
<1>3. CASE Visit
  BY Zenon, <1>3, VisitKeeps
<1>4. CASE Check
  BY Zenon, <1>4, CheckKeeps
<1>5. CASE Resume
  BY Zenon, <1>5, ResumeKeeps
<1>6. CASE Finish
  BY Zenon, <1>6, FinishKeeps
<1>7. CASE IgnoreStop \/ Closed \/ BeginCommit \/ WriteFails
  BY Zenon, <1>7, HandshakeKeeps
<1>8. CASE \E k \in Key, v \in 0 .. MaxValue : Write(k, v)
  BY Zenon, <1>8, WriteKeeps
<1>9. CASE Restart
  BY Zenon, <1>9, RestartKeeps
<1> QED BY Zenon, <1>1, <1>2, <1>3, <1>4, <1>5, <1>6, <1>7, <1>8, <1>9
        DEF Next, Generator, Worker

\* The invariant holds as long as no block removes an account.
LEMMA FlatHolds == ASSUME Removable = {} PROVE Spec => []FlatInv
<1>1. Init => FlatInv
  BY Zenon, FlatInit
<1>2. FlatInv /\ [Next]_vars => FlatInv'
  BY Zenon, FlatNext
<1> QED BY <1>1, <1>2, PTL DEF Spec

\* At or below the generator's frontier the flat tables are the leaves of the
\* trie: through stops in the middle of a batch, resumed passes that start in
\* the middle of an account, writes by commit_to_disk on either side of the
\* frontier, failed commits and restarts.
THEOREM FlatCorrectAlways == ASSUME Removable = {} PROVE Spec => []FlatCorrect
<1>1. FlatInv => FlatCorrect
  BY Zenon, LeafIsThere DEF FlatInv, TypeOK, Frontier, FlatCorrect
<1> QED BY <1>1, FlatHolds, PTL

\* What get_storage_at_root and Trie::get answer, with the flat tables at or
\* left of the in-memory frontier and the trie past it, is the leaf of the trie,
\* for accounts and slots alike.
THEOREM ReadsAgreeAlways == ASSUME Removable = {} PROVE Spec => []ReadsAgree
<1>1. ASSUME FlatInv, NEW k \in Key PROVE Read(k) = Leaf(trie, k)
  <2>1. /\ Leaf(trie, k) = trie[k] /\ <<k[1], 0>> \in Key
        /\ last_computed = last_written
    BY Zenon, <1>1, LeafIsThere, KeyFacts DEF FlatInv, TypeOK, Frontier
  <2>2. \A j \in Key : TrieGet(j, TRUE) = trie[j]
    BY Zenon, <1>1 DEF FlatInv, Frontier, TrieGet
  <2>3. CASE k[2] # 0 /\ flatkeyvalue_computed(k[1])
    <3>1. last_written \in Position /\ k \in Position
      BY Zenon, <1>1, KeyFacts, Positions DEF FlatInv
    <3>2. k[1] < last_written[1]
      BY Zenon, <2>1, <2>3, <3>1 DEF flatkeyvalue_computed, Position
    <3>3. AtMost(k, last_written)
      BY <3>1, <3>2 DEF AtMost, Less, Position
    <3>4. TrieGet(k, FALSE) = trie[k]
      BY Zenon, <1>1, <2>1, <3>3 DEF FlatInv, Frontier, TrieGet
    <3> QED BY Zenon, <2>1, <2>3, <3>4 DEF Read
  <2>4. CASE k[2] # 0 /\ ~flatkeyvalue_computed(k[1])
    <3>1. TrieGet(<<k[1], 0>>, TRUE) = 0 => trie[k] = 0
      BY Zenon, <1>1, <2>1, <2>2 DEF FlatInv, Rooted
    <3> QED BY Zenon, <2>1, <2>2, <2>4, <3>1 DEF Read
  <2>5. CASE k[2] = 0
    BY Zenon, <2>1, <2>2, <2>5 DEF Read
  <2> QED BY Zenon, <2>3, <2>4, <2>5
<1>2. FlatInv => ReadsAgree
  BY Zenon, <1>1 DEF ReadsAgree
<1> QED BY <1>2, FlatHolds, PTL

=============================================================================
