-------------------------- MODULE BlockTreeProofs ---------------------------
(***************************************************************************)
(* The last three assumptions of BlockTree follow from the first three,    *)
(* which say what parents, numbers and ancestor sets are and are the only  *)
(* ones cited here.                                                        *)
(***************************************************************************)
EXTENDS BlockTree, WellFoundedInduction, TLAPS

\* Every block is its own ancestor and has a natural number as height.
LEMMA OwnAncestor ==
    ASSUME NEW b \in Block PROVE b \in Anc[b] /\ Anc[b] \in SUBSET Block /\ Number[b] \in Nat
BY Zenon, GenesisAssumption, AncestorAssumption

\* A set of naturals has a least element.
LEMMA LeastElement ==
    ASSUME NEW S \in SUBSET Nat, S # {} PROVE \E n \in S : \A m \in S : ~(m < n)
<1>1. IsWellFoundedOn(OpToRel(<, Nat), Nat)
  BY Zenon, NatLessThanWellFounded
<1>2. PICK n \in S : \A m \in S : ~(<<m, n>> \in OpToRel(<, Nat))
  BY Zenon, <1>1, WFMin
<1> QED BY Zenon, <1>2 DEF OpToRel

\* If some block fails at something, one fails whose parent, if it has one,
\* does not.
LEMMA LowestBlock ==
    ASSUME NEW Bad \in SUBSET Block, Bad # {}
    PROVE  \E b \in Bad : b # Genesis => Parent[b] \notin Bad
<1> DEFINE K == {Number[b] : b \in Bad}
<1>1. K \in SUBSET Nat /\ K # {}
  BY GenesisAssumption
<1>2. PICK n \in K : \A k \in K : ~(k < n)
  <2> HIDE DEF K
  <2> QED BY Zenon, <1>1, LeastElement
<1>3. PICK b \in Bad : Number[b] = n
  BY Zenon
<1>4. ASSUME b # Genesis, Parent[b] \in Bad PROVE FALSE
  <2>1. /\ Number[b] = Number[Parent[b]] + 1
        /\ Number[Parent[b]] \in Nat
    BY Zenon, <1>4, GenesisAssumption, ParentAssumption
  <2>2. Number[Parent[b]] \in K /\ Number[Parent[b]] < n
    BY <1>3, <1>4, <2>1
  <2> QED BY Zenon, <1>2, <2>2
<1> QED BY Zenon, <1>4

\* The ancestors of b are a chain down to genesis, with one block of each
\* height.
Descends(b) ==
    /\ Genesis \in Anc[b]
    /\ \A a \in Anc[b] :
          /\ Anc[a] \subseteq Anc[b]
          /\ Number[a] <= Number[b]
          /\ \A c \in Anc[b] : /\ Number[a] = Number[c] => a = c
                               /\ Number[a] <= Number[c] => a \in Anc[c]
    /\ \A n \in 0..Number[b] : \E a \in Anc[b] : Number[a] = n

\* One more block on top of such a chain.
LEMMA DescendsOn ==
    ASSUME NEW b \in Block, b # Genesis, Descends(Parent[b]) PROVE Descends(b)
<1>1. PICK p : p = Parent[b]
  BY Zenon
<1>2. /\ p \in Block /\ Number[b] = Number[p] + 1 /\ Anc[b] = {b} \cup Anc[p]
      /\ Descends(p)
  BY Zenon, <1>1, ParentAssumption, AncestorAssumption
<1>3. Number[b] \in Nat /\ Number[p] \in Nat /\ \A a \in Anc[p] : Number[a] \in Nat
  BY Zenon, <1>2, OwnAncestor
<1>4. Genesis \in Anc[b]
  BY Zenon, <1>2 DEF Descends
<1>5. \A a \in Anc[p] : /\ Anc[a] \subseteq Anc[p]
                        /\ Number[a] <= Number[p] /\ Number[a] < Number[b]
  BY <1>2, <1>3 DEF Descends
<1>6. ASSUME NEW a \in Anc[b]
      PROVE  /\ Anc[a] \subseteq Anc[b]
             /\ Number[a] <= Number[b]
             /\ \A c \in Anc[b] : /\ Number[a] = Number[c] => a = c
                                  /\ Number[a] <= Number[c] => a \in Anc[c]
  <2>1. CASE a = b
    BY <1>2, <1>3, <1>5, <2>1, OwnAncestor
  <2>2. CASE a \in Anc[p]
    <3>1. Anc[a] \subseteq Anc[b] /\ Number[a] <= Number[b]
      BY <1>2, <1>3, <1>5, <2>2
    <3>2. ASSUME NEW c \in Anc[p]
          PROVE  /\ Number[a] = Number[c] => a = c
                 /\ Number[a] <= Number[c] => a \in Anc[c]
      BY Zenon, <1>2, <2>2 DEF Descends
    <3>3. /\ Number[a] # Number[b]
          /\ a \in Anc[b]
      BY <1>3, <1>5, <2>2
    <3> QED BY Zenon, <1>2, <3>1, <3>2, <3>3
  <2> QED BY Zenon, <1>2, <2>1, <2>2
<1>7. ASSUME NEW n \in 0..Number[b] PROVE \E a \in Anc[b] : Number[a] = n
  <2>1. CASE n = Number[b]
    BY Zenon, <1>2, <2>1
  <2>2. CASE n # Number[b]
    <3>1. n \in 0..Number[p]
      BY <1>2, <1>3, <2>2
    <3> QED BY Zenon, <1>2, <3>1 DEF Descends
  <2> QED BY Zenon, <2>1, <2>2
<1> QED BY Zenon, <1>4, <1>6, <1>7 DEF Descends

\* What AncestryAssumption says follows from what Parent, Number and Anc are.
THEOREM AncestryFollows == \A b \in Block : Descends(b)
<1> DEFINE Bad == {b \in Block : ~Descends(b)}
<1>1. SUFFICES ASSUME Bad # {} PROVE FALSE
  BY Zenon
<1>2. PICK b \in Bad : b # Genesis => Parent[b] \notin Bad
  <2>1. Bad \in SUBSET Block
    BY Zenon
  <2> HIDE DEF Bad
  <2> QED BY Zenon, <1>1, <2>1, LowestBlock
<1>3. CASE b = Genesis
  <2>1. Anc[b] = {b} /\ Number[b] = 0 /\ 0 .. 0 = {0}
    BY <1>3, GenesisAssumption, AncestorAssumption
  <2>2. Descends(b)
    BY <1>3, <2>1 DEF Descends
  <2> QED BY Zenon, <2>2
<1>4. CASE b # Genesis
  <2>1. Parent[b] \in Block
    BY Zenon, <1>4, ParentAssumption
  <2> QED BY Zenon, <1>2, <1>4, <2>1, DescendsOn
<1> QED BY Zenon, <1>3, <1>4

\* What MeetAssumption says follows: going down from b, the first ancestor of c
\* is the last common one.
THEOREM MeetFollows == \A b, c \in Block : \E m \in Block : Anc[b] \cap Anc[c] = Anc[m]
<1> SUFFICES ASSUME NEW c \in Block
             PROVE  \A b \in Block : \E m \in Block : Anc[b] \cap Anc[c] = Anc[m]
  BY Zenon
<1> DEFINE Bad == {b \in Block : ~\E m \in Block : Anc[b] \cap Anc[c] = Anc[m]}
<1>1. SUFFICES ASSUME Bad # {} PROVE FALSE
  BY Zenon
<1>2. PICK b \in Bad : b # Genesis => Parent[b] \notin Bad
  <2>1. Bad \in SUBSET Block
    BY Zenon
  <2> HIDE DEF Bad
  <2> QED BY Zenon, <1>1, <2>1, LowestBlock
<1>3. Descends(c)
  BY Zenon, AncestryFollows
<1>4. CASE b \in Anc[c]
  <2>1. Anc[b] \cap Anc[c] = Anc[b]
    BY Zenon, <1>3, <1>4 DEF Descends
  <2> QED BY Zenon, <1>2, <2>1
<1>5. CASE b \notin Anc[c]
  <2>1. b # Genesis
    BY Zenon, <1>3, <1>5 DEF Descends
  <2>2. Parent[b] \in Block /\ Anc[b] = {b} \cup Anc[Parent[b]]
    BY Zenon, <2>1, ParentAssumption, AncestorAssumption
  <2>3. PICK m \in Block : Anc[Parent[b]] \cap Anc[c] = Anc[m]
    BY Zenon, <1>2, <2>1, <2>2
  <2>4. Anc[b] \cap Anc[c] = Anc[m]
    BY Zenon, <1>5, <2>2, <2>3
  <2> QED BY Zenon, <1>2, <2>4
<1> QED BY Zenon, <1>4, <1>5

\* What LowestAssumption says follows: heights are natural numbers.
THEOREM LowestFollows == \A S \in SUBSET Height : S # {} => \E n \in S : \A m \in S : n <= m
<1> SUFFICES ASSUME NEW S \in SUBSET Height, S # {}
             PROVE  \E n \in S : \A m \in S : n <= m
  BY Zenon
<1>1. S \in SUBSET Nat
  BY GenesisAssumption DEF Height
<1>2. PICK n \in S : \A m \in S : ~(m < n)
  BY Zenon, <1>1, LeastElement
<1> QED BY <1>1, <1>2

=============================================================================
