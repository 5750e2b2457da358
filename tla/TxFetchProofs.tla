--------------------------- MODULE TxFetchProofs ----------------------------
(***************************************************************************)
(* Proofs about TxFetch, for every set of peers and of hashes and every    *)
(* bound on alternates, announcements and faults: whoever takes a hash     *)
(* over, drops it or gives it back, the shared reservation has one holder. *)
(***************************************************************************)
EXTENDS TxFetch, FiniteSetTheorems, TLAPS

\* An outstanding request.
Request == [peer : Peers, hashes : SUBSET Hashes, age : {"recent", "old", "swept"}]

\* What a handler may still have to do.
TaskSet ==
    [do : {"retry", "add"}, hashes : SUBSET Hashes]
      \cup [do : {"sweep"}, ids : SUBSET Nat]
      \cup [do : {"stop", "release"}]

\* The types of everything that decides who holds a hash.
HoldersTyped ==
    /\ up \subseteq Peers
    /\ buffered \in [Peers -> SUBSET Hashes]
    /\ requests \in [DOMAIN requests -> Request]
    /\ DOMAIN requests \subseteq Nat
    /\ tasks \in [Peers -> Seq(TaskSet)]
    /\ mailbox \in [Peers -> SUBSET SUBSET Hashes]
    /\ inFlight \subseteq Hashes

\* The connections that buffer a hash.
Buffering(h) == {p \in Peers : h \in buffered[p]}

\* The requests that wait for the hash.
Awaiting(h) ==
    {id \in DOMAIN requests : h \in requests[id].hashes /\ requests[id].age # "swept"}

\* A hash in flight has one holder, any other hash none.
OneHolder ==
    \A h \in Hashes :
        \/ h \notin inFlight /\ Buffering(h) = {} /\ Awaiting(h) = {}
        \/ /\ h \in inFlight
           /\ \/ Awaiting(h) = {} /\ \E p \in Peers : Buffering(h) = {p}
              \/ Buffering(h) = {} /\ \E id \in Nat : Awaiting(h) = {id}

\* The requests a sweep has collected are its connection's own and stay
\* outstanding until the sweep comes to them.
SweepsOwn ==
    \A p \in Peers : \A i \in 1 .. Len(tasks[p]) :
        tasks[p][i].do = "sweep" => tasks[p][i].ids \subseteq Outstanding(p)

\* The inductive invariant behind InFlightIsHeld.
HeldInv == HoldersTyped /\ OneHolder /\ SweepsOwn

-----------------------------------------------------------------------------
(* Holders of one hash, and what release and reserve do to them.           *)

\* The cardinality of no element and of one.
LEMMA CountFew ==
    ASSUME NEW x PROVE Cardinality({}) = 0 /\ Cardinality({x}) = 1
BY Zenon, FS_EmptySet, FS_Singleton

\* OneHolder is the counted form of the property.
LEMMA OneHolderCounts == OneHolder => InFlightIsHeld
<1> SUFFICES ASSUME OneHolder, NEW h \in Hashes
             PROVE  Cardinality(Buffering(h)) + Cardinality(Awaiting(h))
                      = IF h \in inFlight THEN 1 ELSE 0
  BY Zenon DEF InFlightIsHeld, Buffering, Awaiting
<1>1. Cardinality({}) = 0 /\ \A x : Cardinality({x}) = 1
  BY Zenon, CountFew
<1>2. CASE h \notin inFlight
  BY <1>1, <1>2 DEF OneHolder
<1>3. CASE h \in inFlight /\ Awaiting(h) = {} /\ \E p \in Peers : Buffering(h) = {p}
  <2>1. Cardinality(Awaiting(h)) = 0 /\ Cardinality(Buffering(h)) = 1
    BY Zenon, <1>1, <1>3
  <2> QED BY <1>3, <2>1
<1>4. CASE h \in inFlight /\ Buffering(h) = {} /\ \E id \in Nat : Awaiting(h) = {id}
  <2>1. Cardinality(Buffering(h)) = 0 /\ Cardinality(Awaiting(h)) = 1
    BY Zenon, <1>1, <1>4
  <2> QED BY <1>4, <2>1
<1> QED BY Zenon, <1>2, <1>3, <1>4 DEF OneHolder

\* A step that changes no holder and no reservation.
LEMMA SameHolders ==
    ASSUME OneHolder, UNCHANGED <<inFlight, buffered, requests>>
    PROVE  OneHolder'
BY Zenon DEF OneHolder, Buffering, Awaiting

\* The tasks left after the first one are among the old ones.
LEMMA TailTasks ==
    ASSUME HoldersTyped, NEW p \in Peers, tasks[p] # <<>>
    PROVE  /\ Head(tasks[p]) \in TaskSet
           /\ Tail(tasks[p]) \in Seq(TaskSet)
           /\ Len(tasks[p]) \in Nat \ {0} /\ Head(tasks[p]) = tasks[p][1]
           /\ \A i \in 1 .. Len(Tail(tasks[p])) :
                i + 1 \in 1 .. Len(tasks[p]) /\ Tail(tasks[p])[i] = tasks[p][i + 1]
<1>1. tasks[p] \in Seq(TaskSet)
  BY Zenon DEF HoldersTyped
<1> QED BY <1>1

\* The lists of tasks that handlers leave themselves.
LEMMA TaskLists ==
    ASSUME NEW hs \in SUBSET Hashes, NEW got \in SUBSET Hashes, NEW ids \in SUBSET Nat
    PROVE  /\ <<[do |-> "retry", hashes |-> hs]>> \in Seq(TaskSet)
           /\ <<[do |-> "add", hashes |-> hs]>> \in Seq(TaskSet)
           /\ <<[do |-> "sweep", ids |-> ids]>> \in Seq(TaskSet)
           /\ <<[do |-> "release"]>> \in Seq(TaskSet)
           /\ <<[do |-> "retry", hashes |-> hs], [do |-> "stop"]>> \in Seq(TaskSet)
           /\ <<[do |-> "retry", hashes |-> hs], [do |-> "release"]>> \in Seq(TaskSet)
           /\ <<[do |-> "retry", hashes |-> hs], [do |-> "sweep", ids |-> ids]>> \in Seq(TaskSet)
           /\ <<[do |-> "add", hashes |-> got], [do |-> "retry", hashes |-> hs],
                [do |-> "stop"]>> \in Seq(TaskSet)
<1>1. [do |-> "retry", hashes |-> hs] \in TaskSet /\ [do |-> "add", hashes |-> hs] \in TaskSet
  BY Zenon DEF TaskSet
<1>2. [do |-> "sweep", ids |-> ids] \in TaskSet /\ [do |-> "add", hashes |-> got] \in TaskSet
  BY Zenon DEF TaskSet
<1>3. [do |-> "release"] \in TaskSet /\ [do |-> "stop"] \in TaskSet
  BY Zenon DEF TaskSet
<1>4. \A x, y, z \in TaskSet : /\ <<x>> \in Seq(TaskSet) /\ <<x, y>> \in Seq(TaskSet)
                               /\ <<x, y, z>> \in Seq(TaskSet)
  OBVIOUS
<1> HIDE DEF TaskSet
<1> QED BY <1>1, <1>2, <1>3, <1>4

\* None of the lists that hand hashes on sweeps.
LEMMA NoSweepIn ==
    ASSUME NEW hs, NEW got
    PROVE  /\ \A i \in 1 .. Len(<<[do |-> "add", hashes |-> got]>>) :
                 <<[do |-> "add", hashes |-> got]>>[i].do # "sweep"
           /\ \A i \in 1 .. Len(<<[do |-> "add", hashes |-> got],
                                [do |-> "retry", hashes |-> hs], [do |-> "stop"]>>) :
                 <<[do |-> "add", hashes |-> got], [do |-> "retry", hashes |-> hs],
                   [do |-> "stop"]>>[i].do # "sweep"
OBVIOUS

\* A step of p's handler replaces p's tasks only; the requests of the other
\* connections stay as they are.
LEMMA OwnTasks ==
    ASSUME HoldersTyped, SweepsOwn, NEW p \in Peers, NEW list, tasks' = [tasks EXCEPT ![p] = list],
           list \in Seq(TaskSet),
           \A q \in Peers \ {p} : Outstanding(q)' = Outstanding(q),
           \A i \in 1 .. Len(list) :
             list[i].do = "sweep" => list[i].ids \subseteq Outstanding(p)'
    PROVE  SweepsOwn' /\ tasks' \in [Peers -> Seq(TaskSet)]
<1>1. tasks \in [Peers -> Seq(TaskSet)]
  BY Zenon DEF HoldersTyped
<1>2. \A q \in Peers : tasks'[q] = IF q = p THEN list ELSE tasks[q]
  BY Zenon, <1>1
<1>3. ASSUME NEW q \in Peers, NEW i \in 1 .. Len(tasks'[q]), tasks'[q][i].do = "sweep"
      PROVE  tasks'[q][i].ids \subseteq Outstanding(q)'
  <2>1. CASE q = p
    BY Zenon, <1>2, <1>3, <2>1
  <2>2. CASE q # p
    BY Zenon, <1>2, <1>3, <2>2 DEF SweepsOwn
  <2> QED BY Zenon, <2>1, <2>2
<1>4. SweepsOwn'
  BY Zenon, <1>3 DEF SweepsOwn
<1> QED BY Zenon, <1>1, <1>4

\* A step of other parties leaves the tasks alone and drops no request that a
\* sweep could have collected.
LEMMA SameTasks ==
    ASSUME SweepsOwn, UNCHANGED tasks,
           \A p \in Peers : tasks[p] # <<>> => Outstanding(p) \subseteq Outstanding(p)'
    PROVE  SweepsOwn'
<1> SUFFICES ASSUME NEW p \in Peers, NEW i \in 1 .. Len(tasks[p]), tasks[p][i].do = "sweep"
             PROVE  tasks[p][i].ids \subseteq Outstanding(p)'
  BY Zenon DEF SweepsOwn
<1>1. tasks[p] # <<>>
  OBVIOUS
<1>2. tasks[p][i].ids \subseteq Outstanding(p)
  BY Zenon DEF SweepsOwn
<1> QED BY Zenon, <1>1, <1>2

\* Reserving gives every unknown hash its first holder.
LEMMA ReserveHolds ==
    ASSUME HoldersTyped, OneHolder, NEW p \in Peers, NEW hs \in SUBSET Hashes,
           Reserve(p, hs), requests' = requests
    PROVE  /\ OneHolder'
           /\ buffered' \in [Peers -> SUBSET Hashes]
           /\ inFlight' \subseteq Hashes
<1> DEFINE unknown == hs \ (inFlight \cup pool)
<1>1. /\ inFlight' = inFlight \cup unknown
      /\ buffered' = [buffered EXCEPT ![p] = @ \cup unknown]
      /\ unknown \in SUBSET Hashes /\ unknown \cap inFlight = {}
  BY Zenon DEF Reserve
<1> HIDE DEF unknown
<1>2. buffered \in [Peers -> SUBSET Hashes] /\ inFlight \subseteq Hashes
  BY Zenon DEF HoldersTyped
<1>3. \A q \in Peers : buffered'[q] = IF q = p THEN buffered[q] \cup unknown ELSE buffered[q]
  BY Zenon, <1>1, <1>2
<1>4. \A h \in Hashes : Awaiting(h)' = Awaiting(h)
  BY Zenon DEF Awaiting
<1>5. ASSUME NEW h \in Hashes, h \in unknown
      PROVE  h \in inFlight' /\ Buffering(h)' = {p} /\ Awaiting(h)' = {}
  <2>1. h \notin inFlight /\ Buffering(h) = {} /\ Awaiting(h) = {}
    BY Zenon, <1>1, <1>5 DEF OneHolder
  <2>2. Buffering(h)' = {p}
    BY Zenon, <1>3, <1>5, <2>1 DEF Buffering
  <2> QED BY SMTT(60), <1>1, <1>4, <1>5, <2>1, <2>2
<1>6. ASSUME NEW h \in Hashes, h \notin unknown
      PROVE  Buffering(h)' = Buffering(h) /\ (h \in inFlight' <=> h \in inFlight)
  BY SMTT(60), <1>1, <1>3, <1>6 DEF Buffering
<1>7. OneHolder'
  BY Zenon, <1>4, <1>5, <1>6 DEF OneHolder
<1> QED BY Zenon, <1>1, <1>2, <1>7

\* Giving up what a connection buffers frees exactly the hashes it held.
LEMMA ReleaseBuffered ==
    ASSUME HoldersTyped, OneHolder, NEW p \in Peers,
           inFlight' = inFlight \ buffered[p],
           buffered' = [buffered EXCEPT ![p] = {}],
           \A h \in Hashes : Awaiting(h)' = Awaiting(h)
    PROVE  /\ OneHolder'
           /\ buffered' \in [Peers -> SUBSET Hashes]
<1>1. buffered \in [Peers -> SUBSET Hashes]
  BY Zenon DEF HoldersTyped
<1>2. \A q \in Peers : buffered'[q] = IF q = p THEN {} ELSE buffered[q]
  BY Zenon, <1>1
<1>3. ASSUME NEW h \in Hashes, h \in buffered[p]
      PROVE  h \notin inFlight' /\ Buffering(h)' = {} /\ Awaiting(h)' = {}
  <2>1. p \in Buffering(h)
    BY Zenon, <1>3 DEF Buffering
  <2>2. Buffering(h) = {p} /\ Awaiting(h) = {}
    BY Zenon, <2>1 DEF OneHolder
  <2>3. Buffering(h)' = {}
    BY Zenon, <1>2, <2>2 DEF Buffering
  <2> QED BY Zenon, <1>3, <2>2, <2>3
<1>4. ASSUME NEW h \in Hashes, h \notin buffered[p]
      PROVE  Buffering(h)' = Buffering(h) /\ (h \in inFlight' <=> h \in inFlight)
  BY SMTT(60), <1>2, <1>4 DEF Buffering
<1>5. OneHolder'
  BY Zenon, <1>3, <1>4 DEF OneHolder
<1> QED BY Zenon, <1>1, <1>5

\* Giving up an outstanding request frees exactly the hashes it held.
LEMMA ReleaseRequested ==
    ASSUME HoldersTyped, OneHolder, NEW id \in DOMAIN requests,
           requests[id].age # "swept",
           inFlight' = inFlight \ requests[id].hashes,
           buffered' = buffered,
           \A h \in Hashes : Awaiting(h)' = Awaiting(h) \ {id}
    PROVE  OneHolder'
<1>1. \A h \in Hashes : Buffering(h)' = Buffering(h)
  BY Zenon DEF Buffering
<1>2. ASSUME NEW h \in Hashes, h \in requests[id].hashes
      PROVE  h \notin inFlight' /\ Buffering(h)' = {} /\ Awaiting(h)' = {}
  <2>1. id \in Awaiting(h)
    BY Zenon, <1>2 DEF Awaiting
  <2>2. Awaiting(h) = {id} /\ Buffering(h) = {}
    BY Zenon, <2>1 DEF OneHolder
  <2> QED BY Zenon, <1>1, <1>2, <2>2
<1>3. ASSUME NEW h \in Hashes, h \notin requests[id].hashes
      PROVE  Awaiting(h)' = Awaiting(h) /\ (h \in inFlight' <=> h \in inFlight)
  <2>1. id \notin Awaiting(h)
    BY Zenon, <1>3 DEF Awaiting
  <2> QED BY Zenon, <1>3, <2>1
<1> QED BY Zenon, <1>1, <1>2, <1>3 DEF OneHolder

\* Sending a request moves the hashes from the buffer to one new holder.
LEMMA FlushMoves ==
    ASSUME HoldersTyped, OneHolder, NEW p \in Peers, Flush(p)
    PROVE  /\ OneHolder'
           /\ buffered' \in [Peers -> SUBSET Hashes]
           /\ requests' \in [DOMAIN requests' -> Request]
           /\ DOMAIN requests' \subseteq Nat
           /\ \A id \in DOMAIN requests : id \in DOMAIN requests' /\ requests'[id] = requests[id]
<1> DEFINE new == CHOOSE id \in FreeIds : TRUE
           r == [peer |-> p, hashes |-> buffered[p], age |-> "recent"]
<1>1. FreeIds \in SUBSET Nat /\ FreeIds # {}
  BY DEF Flush, FreeIds, Ids
<1>2. new \in Nat /\ new \notin DOMAIN requests
  BY Zenon, <1>1 DEF FreeIds
<1>3. /\ requests' = [id \in DOMAIN requests \cup {new} |->
                        IF id = new THEN r ELSE requests[id]]
      /\ buffered' = [buffered EXCEPT ![p] = {}]
      /\ inFlight' = inFlight
  BY Zenon DEF Flush, shared
<1>4. /\ buffered \in [Peers -> SUBSET Hashes]
      /\ requests \in [DOMAIN requests -> Request] /\ DOMAIN requests \subseteq Nat
  BY Zenon DEF HoldersTyped
<1>5. r \in Request /\ r.hashes = buffered[p] /\ r.age # "swept"
  BY Zenon, <1>4 DEF Request
<1> HIDE DEF new, r
<1>6. /\ DOMAIN requests' = DOMAIN requests \cup {new} /\ requests'[new] = r
      /\ \A id \in DOMAIN requests : requests'[id] = requests[id]
  BY Zenon, <1>2, <1>3
<1>7. \A q \in Peers : buffered'[q] = IF q = p THEN {} ELSE buffered[q]
  BY Zenon, <1>3, <1>4
<1>8. ASSUME NEW h \in Hashes, h \in buffered[p]
      PROVE  h \in inFlight' /\ Buffering(h)' = {} /\ Awaiting(h)' = {new}
  <2>1. p \in Buffering(h)
    BY Zenon, <1>8 DEF Buffering
  <2>2. h \in inFlight /\ Buffering(h) = {p} /\ Awaiting(h) = {}
    BY Zenon, <2>1 DEF OneHolder
  <2>3. Buffering(h)' = {}
    BY Zenon, <1>7, <2>2 DEF Buffering
  <2>4. Awaiting(h)' = {new}
    BY <1>5, <1>6, <1>8, <2>2 DEF Awaiting
  <2> QED BY Zenon, <1>3, <2>2, <2>3, <2>4
<1>9. ASSUME NEW h \in Hashes, h \notin buffered[p]
      PROVE  /\ h \in inFlight' <=> h \in inFlight
             /\ Buffering(h)' = Buffering(h) /\ Awaiting(h)' = Awaiting(h)
  <2>1. Buffering(h)' = Buffering(h)
    BY Zenon, <1>7, <1>9 DEF Buffering
  <2>2. Awaiting(h)' = Awaiting(h)
    BY SMTT(60), <1>2, <1>5, <1>6, <1>9 DEF Awaiting
  <2> QED BY SMTT(60), <1>3, <2>1, <2>2
<1>10. OneHolder'
  BY Zenon, <1>2, <1>8, <1>9 DEF OneHolder
<1>11. requests' \in [DOMAIN requests' -> Request]
  BY Zenon, <1>3, <1>4, <1>5, <1>6
<1> QED BY SMTT(60), <1>2, <1>3, <1>4, <1>6, <1>10, <1>11

\* A request that leaves the table is one holder and one outstanding request
\* less, and nothing else.
LEMMA DropRequest ==
    ASSUME HoldersTyped, NEW id \in DOMAIN requests, requests' = Without(requests, {id})
    PROVE  /\ requests' \in [DOMAIN requests' -> Request] /\ DOMAIN requests' \subseteq Nat
           /\ \A h \in Hashes : Awaiting(h)' = Awaiting(h) \ {id}
           /\ \A q \in Peers : Outstanding(q)' = Outstanding(q) \ {id}
<1>1. requests \in [DOMAIN requests -> Request] /\ DOMAIN requests \subseteq Nat
  BY Zenon DEF HoldersTyped
<1>2. requests' = [x \in DOMAIN requests \ {id} |-> requests[x]]
  BY Zenon DEF Without, Restrict
<1>3. /\ DOMAIN requests' = DOMAIN requests \ {id}
      /\ \A x \in DOMAIN requests' : requests'[x] = requests[x]
  BY Zenon, <1>2
<1>4. requests' \in [DOMAIN requests' -> Request]
  BY Zenon, <1>1, <1>2, <1>3
<1>5. \A h \in Hashes : Awaiting(h)' = Awaiting(h) \ {id}
  BY Zenon, <1>3 DEF Awaiting
<1>6. \A q \in Peers : Outstanding(q)' = Outstanding(q) \ {id}
  BY Zenon, <1>3 DEF Outstanding
<1> QED BY Zenon, <1>1, <1>3, <1>4, <1>5, <1>6

\* A request that ages is a holder like before, unless it was swept.
LEMMA AgeRequest ==
    ASSUME HoldersTyped, NEW id \in DOMAIN requests, NEW a \in {"old", "swept"},
           requests' = [requests EXCEPT ![id].age = a], requests[id].age # "swept"
    PROVE  /\ requests' \in [DOMAIN requests' -> Request] /\ DOMAIN requests' \subseteq Nat
           /\ \A h \in Hashes :
                Awaiting(h)' = IF a = "swept" THEN Awaiting(h) \ {id} ELSE Awaiting(h)
           /\ \A q \in Peers :
                Outstanding(q)' = IF a = "swept" THEN Outstanding(q) \ {id} ELSE Outstanding(q)
<1>1. requests \in [DOMAIN requests -> Request] /\ DOMAIN requests \subseteq Nat
  BY Zenon DEF HoldersTyped
<1>2. requests[id] \in Request
  BY Zenon, <1>1
<1>3. /\ DOMAIN requests' = DOMAIN requests
      /\ \A x \in DOMAIN requests : x # id => requests'[x] = requests[x]
      /\ requests'[id] = [requests[id] EXCEPT !.age = a]
  BY Zenon, <1>1
<1>4. /\ requests'[id] \in Request /\ requests'[id].peer = requests[id].peer
      /\ requests'[id].hashes = requests[id].hashes /\ requests'[id].age = a
  BY Zenon, <1>2, <1>3 DEF Request
<1>5. requests' \in [DOMAIN requests' -> Request]
  BY Zenon, <1>1, <1>4
<1>6. ASSUME NEW h \in Hashes
      PROVE  Awaiting(h)' = IF a = "swept" THEN Awaiting(h) \ {id} ELSE Awaiting(h)
  BY Zenon, <1>3, <1>4 DEF Awaiting
<1>7. ASSUME NEW q \in Peers
      PROVE  Outstanding(q)' = IF a = "swept" THEN Outstanding(q) \ {id} ELSE Outstanding(q)
  BY <1>3, <1>4 DEF Outstanding
<1> QED BY Zenon, <1>1, <1>3, <1>5, <1>6, <1>7

\* An answer takes its request out of the table; a late answer, whose request
\* was swept, holds nothing and releases nothing.
LEMMA AnswerReleases ==
    ASSUME HoldersTyped, OneHolder, NEW id \in DOMAIN requests,
           inFlight' = inFlight \ Held(id), buffered' = buffered,
           requests' = Without(requests, {id})
    PROVE  OneHolder'
<1>1. \A h \in Hashes : Awaiting(h)' = Awaiting(h) \ {id}
  BY Zenon, DropRequest
<1>2. CASE requests[id].age # "swept"
  BY Zenon, <1>1, <1>2, ReleaseRequested DEF Held
<1>3. CASE requests[id].age = "swept"
  <2>1. inFlight' = inFlight
    BY Zenon, <1>3 DEF Held
  <2>2. \A h \in Hashes : Awaiting(h)' = Awaiting(h)
    BY Zenon, <1>1, <1>3 DEF Awaiting
  <2>3. \A h \in Hashes : Buffering(h)' = Buffering(h)
    BY Zenon DEF Buffering
  <2> QED BY Zenon, <2>1, <2>2, <2>3 DEF OneHolder
<1> QED BY Zenon, <1>2, <1>3

-----------------------------------------------------------------------------
(* The invariant.                                                          *)

\* At first nothing is in flight.
LEMMA HeldInit == Init => HeldInv
<1> SUFFICES ASSUME Init PROVE HeldInv
  BY Zenon
<1>1. DOMAIN requests = {}
  BY DEF Init
<1>2. HoldersTyped
  BY SMTT(60), <1>1 DEF Init, HoldersTyped
<1>3. OneHolder
  BY Zenon, <1>1 DEF Init, OneHolder, Buffering, Awaiting
<1>4. SweepsOwn
  BY DEF Init, SweepsOwn
<1> QED BY Zenon, <1>2, <1>3, <1>4 DEF HeldInv

\* Announcements and retried hashes: whoever reserves a hash buffers it.
LEMMA HeldReserve ==
    ASSUME HeldInv, NEW p \in Peers, NEW hs \in SUBSET Hashes, Reserve(p, hs),
           UNCHANGED <<up, requests, tasks>>, mailbox' \in [Peers -> SUBSET SUBSET Hashes]
    PROVE  HeldInv'
<1>1. OneHolder' /\ buffered' \in [Peers -> SUBSET Hashes] /\ inFlight' \subseteq Hashes
  BY Zenon, ReserveHolds DEF HeldInv
<1>2. HoldersTyped'
  BY Zenon, <1>1 DEF HeldInv, HoldersTyped
<1>3. SweepsOwn'
  BY Zenon, SameTasks DEF HeldInv, Outstanding
<1> QED BY Zenon, <1>1, <1>2, <1>3 DEF HeldInv

\* A handler's step that changes no holder: it only works off its tasks.
LEMMA HeldTask ==
    ASSUME HeldInv, NEW p \in Peers, NEW list \in Seq(TaskSet), tasks' = [tasks EXCEPT ![p] = list],
           UNCHANGED <<inFlight, buffered, requests>>,
           \A i \in 1 .. Len(list) : list[i].do = "sweep" => list[i].ids \subseteq Outstanding(p),
           up' \subseteq Peers, mailbox' \in [Peers -> SUBSET SUBSET Hashes]
    PROVE  HeldInv'
<1>1. OneHolder'
  BY Zenon, SameHolders DEF HeldInv
<1>2. \A q \in Peers : Outstanding(q)' = Outstanding(q)
  BY Zenon DEF Outstanding
<1>3. SweepsOwn' /\ tasks' \in [Peers -> Seq(TaskSet)]
  BY Zenon, <1>2, OwnTasks DEF HeldInv
<1>4. HoldersTyped'
  BY Zenon, <1>3 DEF HeldInv, HoldersTyped
<1> QED BY Zenon, <1>1, <1>3, <1>4 DEF HeldInv

\* A handler's next task is the rest of what it had to do.
LEMMA HeldTail ==
    ASSUME HeldInv, NEW p \in Peers, tasks[p] # <<>>,
           tasks' = [tasks EXCEPT ![p] = Tail(tasks[p])],
           UNCHANGED <<inFlight, buffered, requests, up>>,
           mailbox' \in [Peers -> SUBSET SUBSET Hashes]
    PROVE  HeldInv'
<1>1. PICK list \in Seq(TaskSet) : list = Tail(tasks[p])
  BY Zenon, TailTasks DEF HeldInv
<1>2. ASSUME NEW i \in 1 .. Len(list), list[i].do = "sweep"
      PROVE  list[i].ids \subseteq Outstanding(p)
  BY <1>1, <1>2, TailTasks DEF HeldInv, SweepsOwn
<1>3. up' \subseteq Peers
  BY Zenon DEF HeldInv, HoldersTyped
<1> QED BY Zenon, <1>1, <1>2, <1>3, HeldTask

\* A handler of an idle connection, or of one that is being torn down, takes a
\* request out of the table: no other connection's sweep has collected it.
LEMMA HeldDrop ==
    ASSUME HeldInv, NEW id \in DOMAIN requests, NEW list \in Seq(TaskSet),
           tasks' = [tasks EXCEPT ![requests[id].peer] = list],
           \A i \in 1 .. Len(list) : list[i].do # "sweep",
           inFlight' = inFlight \ Held(id), requests' = Without(requests, {id}),
           UNCHANGED <<buffered, up, mailbox>>
    PROVE  HeldInv'
<1>1. PICK p \in Peers : p = requests[id].peer
  BY Zenon DEF HeldInv, HoldersTyped, Request
<1>2. OneHolder'
  BY Zenon, AnswerReleases DEF HeldInv
<1>3. /\ requests' \in [DOMAIN requests' -> Request] /\ DOMAIN requests' \subseteq Nat
      /\ \A q \in Peers : Outstanding(q)' = Outstanding(q) \ {id}
  BY Zenon, DropRequest DEF HeldInv
<1>5. ASSUME NEW q \in Peers \ {p} PROVE Outstanding(q)' = Outstanding(q)
  <2>1. id \notin Outstanding(q)
    BY Zenon, <1>1 DEF Outstanding
  <2>2. Outstanding(q)' = Outstanding(q) \ {id}
    BY Zenon, <1>3
  <2> QED BY Zenon, <2>1, <2>2
<1>6. SweepsOwn' /\ tasks' \in [Peers -> Seq(TaskSet)]
  BY Zenon, <1>1, <1>5, OwnTasks DEF HeldInv
<1>7. HoldersTyped'
  BY ZenonT(60), <1>3, <1>6 DEF HeldInv, HoldersTyped
<1> QED BY Zenon, <1>2, <1>6, <1>7 DEF HeldInv

\* Every step keeps the invariant.
LEMMA HeldNext == HeldInv /\ [Next]_(vars) => HeldInv'
<1> SUFFICES ASSUME HeldInv, [Next]_(vars) PROVE HeldInv'
  BY Zenon
<1>t. HoldersTyped /\ OneHolder /\ SweepsOwn
  BY Zenon DEF HeldInv
<1>y. /\ buffered \in [Peers -> SUBSET Hashes] /\ mailbox \in [Peers -> SUBSET SUBSET Hashes]
      /\ tasks \in [Peers -> Seq(TaskSet)] /\ up \subseteq Peers /\ inFlight \subseteq Hashes
      /\ requests \in [DOMAIN requests -> Request]
  BY Zenon, <1>t DEF HoldersTyped
<1>1. ASSUME NEW p \in Peers, NEW hs \in SUBSET Hashes, Announce(p, hs) PROVE HeldInv'
  BY Zenon, <1>1, <1>y, HeldReserve DEF Announce
<1>2. ASSUME NEW p \in Peers, NEW hs \in mailbox[p], Enqueue(p, hs) PROVE HeldInv'
  <2>1. hs \in SUBSET Hashes /\ mailbox' \in [Peers -> SUBSET SUBSET Hashes]
    BY Zenon, <1>2, <1>y DEF Enqueue
  <2> QED BY Zenon, <1>2, <2>1, HeldReserve DEF Enqueue
<1>3. ASSUME NEW p \in Peers, Flush(p) PROVE HeldInv'
  <2>1. /\ OneHolder' /\ buffered' \in [Peers -> SUBSET Hashes]
        /\ requests' \in [DOMAIN requests' -> Request] /\ DOMAIN requests' \subseteq Nat
        /\ \A id \in DOMAIN requests : id \in DOMAIN requests' /\ requests'[id] = requests[id]
    BY Zenon, <1>3, <1>t, FlushMoves
  <2>2. UNCHANGED <<inFlight, up, tasks, mailbox>>
    BY Zenon, <1>3 DEF Flush, shared
  <2>3. \A q \in Peers : Outstanding(q) \subseteq Outstanding(q)'
    BY Zenon, <2>1 DEF Outstanding
  <2>4. SweepsOwn'
    BY Zenon, <1>t, <2>2, <2>3, SameTasks
  <2> QED BY Zenon, <1>t, <2>1, <2>2, <2>4 DEF HeldInv, HoldersTyped
<1>4. ASSUME NEW p \in Peers, FlushFails(p) PROVE HeldInv'
  <2>0. PICK hs \in SUBSET Hashes : hs = buffered[p]
    BY Zenon, <1>y
  <2>1. PICK list \in Seq(TaskSet) :
           list = <<[do |-> "retry", hashes |-> hs], [do |-> "stop"]>>
    BY Zenon, TaskLists
  <2>2. \A i \in 1 .. Len(list) : list[i].do # "sweep"
    BY SMTT(60), <2>1
  <2>3. /\ tasks' = [tasks EXCEPT ![p] = list] /\ inFlight' = inFlight \ buffered[p]
        /\ buffered' = [buffered EXCEPT ![p] = {}] /\ UNCHANGED <<up, requests, mailbox>>
    BY Zenon, <1>4, <2>0, <2>1 DEF FlushFails, Then
  <2>4. (\A h \in Hashes : Awaiting(h)' = Awaiting(h))
          /\ \A q \in Peers : Outstanding(q)' = Outstanding(q)
    BY Zenon, <2>3 DEF Awaiting, Outstanding
  <2>5. OneHolder' /\ buffered' \in [Peers -> SUBSET Hashes]
    BY Zenon, <1>t, <2>3, <2>4, ReleaseBuffered
  <2>6. SweepsOwn' /\ tasks' \in [Peers -> Seq(TaskSet)]
    BY Zenon, <1>t, <2>2, <2>3, <2>4, OwnTasks
  <2> QED BY Zenon, <1>t, <2>3, <2>5, <2>6 DEF HeldInv, HoldersTyped
<1>5. ASSUME NEW id \in DOMAIN requests, Answer(id) PROVE HeldInv'
  <2>1. PICK got \in SUBSET requests[id].hashes :
           Then(requests[id].peer, <<[do |-> "add", hashes |-> got]>>)
    BY Zenon, <1>5 DEF Answer
  <2>2. got \in SUBSET Hashes
    BY Zenon, <1>y DEF Request
  <2>3. PICK list \in Seq(TaskSet) : list = <<[do |-> "add", hashes |-> got]>>
    BY Zenon, <2>2, TaskLists
  <2>4. \A i \in 1 .. Len(list) : list[i].do # "sweep"
    BY Zenon, <2>3, NoSweepIn
  <2>5. tasks' = [tasks EXCEPT ![requests[id].peer] = list]
    BY Zenon, <2>1, <2>3 DEF Then
  <2> QED BY Zenon, <1>5, <2>4, <2>5, HeldDrop DEF Answer
<1>6. ASSUME NEW id \in DOMAIN requests, BadAnswer(id) PROVE HeldInv'
  <2>1. PICK got \in SUBSET requests[id].hashes :
           Then(requests[id].peer, <<[do |-> "add", hashes |-> got],
                  [do |-> "retry", hashes |-> Held(id)], [do |-> "stop"]>>)
    BY Zenon, <1>6 DEF BadAnswer
  <2>2. got \in SUBSET Hashes /\ Held(id) \in SUBSET Hashes
    BY Zenon, <1>y DEF Request, Held
  <2>6. PICK hs \in SUBSET Hashes : hs = Held(id)
    BY Zenon, <2>2
  <2>3. PICK list \in Seq(TaskSet) : list = <<[do |-> "add", hashes |-> got],
                  [do |-> "retry", hashes |-> hs], [do |-> "stop"]>>
    BY Zenon, <2>2, TaskLists
  <2>4. \A i \in 1 .. Len(list) : list[i].do # "sweep"
    BY Zenon, <2>3, NoSweepIn
  <2>5. tasks' = [tasks EXCEPT ![requests[id].peer] = list]
    BY Zenon, <2>1, <2>3, <2>6 DEF Then
  <2> QED BY Zenon, <1>6, <2>4, <2>5, HeldDrop DEF BadAnswer
<1>7. ASSUME NEW id \in DOMAIN requests, RequestAges(id) PROVE HeldInv'
  <2>1. /\ requests[id].age # "swept" /\ requests' = [requests EXCEPT ![id].age = "old"]
        /\ UNCHANGED <<inFlight, up, buffered, tasks, mailbox>>
    BY Zenon, <1>7 DEF RequestAges, shared
  <2>2. /\ requests' \in [DOMAIN requests' -> Request] /\ DOMAIN requests' \subseteq Nat
        /\ \A h \in Hashes : Awaiting(h)' = Awaiting(h)
        /\ \A q \in Peers : Outstanding(q)' = Outstanding(q)
    BY Zenon, <1>t, <2>1, AgeRequest
  <2>3. \A h \in Hashes : Buffering(h)' = Buffering(h)
    BY Zenon, <2>1 DEF Buffering
  <2>4. OneHolder'
    BY Zenon, <1>t, <2>1, <2>2, <2>3 DEF OneHolder
  <2>5. SweepsOwn'
    BY Zenon, <1>t, <2>1, <2>2, SameTasks
  <2> QED BY <1>t, <2>1, <2>2, <2>4, <2>5 DEF HeldInv, HoldersTyped
<1>8. ASSUME NEW p \in Peers, Sweep(p) PROVE HeldInv'
  <2>1. PICK ids \in SUBSET Nat : ids = {id \in Outstanding(p) : requests[id].age = "old"}
    BY Zenon, <1>t DEF HoldersTyped, Outstanding
  <2>2. PICK list \in Seq(TaskSet) : list = <<[do |-> "sweep", ids |-> ids]>>
    BY Zenon, TaskLists
  <2>3. \A i \in 1 .. Len(list) : list[i].ids = ids
    BY SMTT(60), <2>2
  <2>4. /\ tasks' = [tasks EXCEPT ![p] = list]
        /\ UNCHANGED <<inFlight, up, buffered, requests, mailbox>>
    BY Zenon, <1>8, <2>1, <2>2 DEF Sweep, Then, shared
  <2>5. ids \subseteq Outstanding(p)
    BY Zenon, <2>1
  <2> QED BY Zenon, <1>y, <2>3, <2>4, <2>5, HeldTask
<1>9. ASSUME NEW p \in Peers, Retry(p) PROVE HeldInv'
  <2>1. tasks[p] # <<>> /\ Head(tasks[p]) = tasks[p][1] /\ Head(tasks[p]).do = "retry"
    BY Zenon, <1>9, <1>t, TailTasks DEF Retry, Doing
  <2>2. Head(tasks[p]).hashes \in SUBSET Hashes
    BY Zenon, <1>t, <2>1, TailTasks DEF TaskSet
  <2>3. mailbox' \in [Peers -> SUBSET SUBSET Hashes]
    BY Zenon, <1>9, <1>y, <2>2 DEF Retry
  <2> QED BY Zenon, <1>9, <2>1, <2>3, HeldTail DEF Retry, Then
<1>10. ASSUME NEW p \in Peers, SweepOne(p) PROVE HeldInv'
  <2>1. tasks[p] # <<>> /\ Head(tasks[p]).do = "sweep"
    BY Zenon, <1>10 DEF SweepOne, Doing
  <2>2. Len(tasks[p]) \in Nat \ {0} /\ Head(tasks[p]) = tasks[p][1]
    BY Zenon, <1>t, <2>1, TailTasks
  <2>3. PICK ids \in SUBSET Nat : ids = Head(tasks[p]).ids /\ ids \subseteq Outstanding(p)
    <3>1. Head(tasks[p]).ids \subseteq Outstanding(p)
      BY <1>t, <2>1, <2>2 DEF SweepsOwn
    <3> QED BY Zenon, <1>t, <3>1 DEF HoldersTyped, Outstanding
  <2>4. PICK id \in ids :
           /\ inFlight' = inFlight \ requests[id].hashes
           /\ requests' = [requests EXCEPT ![id].age = "swept"]
           /\ tasks' = [tasks EXCEPT ![p] =
                          <<[do |-> "retry", hashes |-> requests[id].hashes],
                            [do |-> "sweep", ids |-> ids \ {id}]>>]
    BY Zenon, <1>10, <2>3 DEF SweepOne, Then
  <2>5. UNCHANGED <<up, buffered, mailbox>>
    BY Zenon, <1>10 DEF SweepOne
  <2>6. id \in DOMAIN requests /\ requests[id].peer = p /\ requests[id].age # "swept"
    BY Zenon, <2>3, <2>4 DEF Outstanding
  <2>7. requests[id].hashes \in SUBSET Hashes
    BY Zenon, <1>y, <2>6 DEF Request
  <2>8. /\ requests' \in [DOMAIN requests' -> Request] /\ DOMAIN requests' \subseteq Nat
        /\ \A h \in Hashes : Awaiting(h)' = Awaiting(h) \ {id}
        /\ \A q \in Peers : Outstanding(q)' = Outstanding(q) \ {id}
    BY Zenon, <1>t, <2>4, <2>6, AgeRequest
  <2>9. OneHolder'
    BY SMTT(60), <1>t, <2>4, <2>5, <2>6, <2>8, ReleaseRequested
  <2>0. PICK hs \in SUBSET Hashes : hs = requests[id].hashes
    BY Zenon, <2>7
  <2>10. PICK list \in Seq(TaskSet) :
            list = <<[do |-> "retry", hashes |-> hs], [do |-> "sweep", ids |-> ids \ {id}]>>
    <3>1. ids \ {id} \in SUBSET Nat
      BY Zenon
    <3> QED BY Zenon, <3>1, TaskLists
  <2>11. ASSUME NEW i \in 1 .. Len(list), list[i].do = "sweep"
         PROVE  list[i].ids \subseteq Outstanding(p)'
    <3>1. list[i].ids = ids \ {id}
      BY <2>10, <2>11
    <3> QED BY Zenon, <2>3, <2>8, <3>1
  <2>12. ASSUME NEW q \in Peers \ {p} PROVE Outstanding(q)' = Outstanding(q)
    <3>1. id \notin Outstanding(q)
      BY Zenon, <2>6 DEF Outstanding
    <3>2. Outstanding(q)' = Outstanding(q) \ {id}
      BY Zenon, <2>8
    <3> QED BY Zenon, <3>1, <3>2
  <2>13. tasks' = [tasks EXCEPT ![p] = list]
    BY Zenon, <2>0, <2>4, <2>10
  <2>14. SweepsOwn' /\ tasks' \in [Peers -> Seq(TaskSet)]
    BY Zenon, <1>t, <2>11, <2>12, <2>13, OwnTasks
  <2> QED BY SMTT(60), <1>y, <1>t, <2>4, <2>5, <2>8, <2>9, <2>14 DEF HeldInv, HoldersTyped
<1>11. ASSUME NEW p \in Peers, Prune(p) PROVE HeldInv'
  BY Zenon, <1>11, <1>y, HeldTail DEF Prune, Doing, Then
<1>12. ASSUME NEW p \in Peers, AddTxs(p) PROVE HeldInv'
  BY Zenon, <1>12, <1>y, HeldTail DEF AddTxs, Doing, Then
<1>13. ASSUME NEW p \in Peers, Stopped(p) PROVE HeldInv'
  <2>1. PICK list \in Seq(TaskSet) : list = <<[do |-> "release"]>>
    BY Zenon, TaskLists
  <2>2. /\ tasks' = [tasks EXCEPT ![p] = list] /\ up' \subseteq Peers
        /\ mailbox' \in [Peers -> SUBSET SUBSET Hashes]
        /\ UNCHANGED <<inFlight, buffered, requests>>
    BY Zenon, <1>13, <1>y, <2>1 DEF Stopped, Then, shared
  <2>3. \A i \in 1 .. Len(list) : list[i].do # "sweep"
    BY <2>1
  <2> QED BY Zenon, <2>2, <2>3, HeldTask
<1>14. ASSUME NEW p \in Peers, TeardownRequest(p) PROVE HeldInv'
  <2>1. PICK id \in Outstanding(p) :
           /\ inFlight' = inFlight \ requests[id].hashes
           /\ requests' = Without(requests, {id})
           /\ tasks' = [tasks EXCEPT ![p] =
                          <<[do |-> "retry", hashes |-> requests[id].hashes],
                            [do |-> "release"]>>]
    BY Zenon, <1>14 DEF TeardownRequest, Then
  <2>2. id \in DOMAIN requests /\ requests[id].peer = p /\ Held(id) = requests[id].hashes
    BY Zenon, <2>1 DEF Outstanding, Held
  <2>3. requests[id].hashes \in SUBSET Hashes
    BY Zenon, <1>y, <2>2 DEF Request
  <2>0. PICK hs \in SUBSET Hashes : hs = requests[id].hashes
    BY Zenon, <2>3
  <2>4. PICK list \in Seq(TaskSet) : list = <<[do |-> "retry", hashes |-> hs], [do |-> "release"]>>
    BY Zenon, TaskLists
  <2>5. \A i \in 1 .. Len(list) : list[i].do # "sweep"
    BY SMTT(60), <2>4
  <2>6. tasks' = [tasks EXCEPT ![requests[id].peer] = list]
    BY SMTT(60), <2>0, <2>1, <2>2, <2>4
  <2> QED BY Zenon, <1>14, <2>1, <2>2, <2>5, <2>6, HeldDrop DEF TeardownRequest
<1>15. ASSUME NEW p \in Peers, TeardownBuffer(p) PROVE HeldInv'
  <2> DEFINE own == {id \in DOMAIN requests : requests[id].peer = p}
  <2>0. PICK hs \in SUBSET Hashes : hs = buffered[p]
    BY Zenon, <1>y
  <2>1. PICK list \in Seq(TaskSet) : list = <<[do |-> "retry", hashes |-> hs]>>
    BY Zenon, TaskLists
  <2>2. \A i \in 1 .. Len(list) : list[i].do # "sweep"
    BY SMTT(60), <2>1
  <2>3. /\ tasks' = [tasks EXCEPT ![p] = list] /\ inFlight' = inFlight \ buffered[p]
        /\ buffered' = [buffered EXCEPT ![p] = {}] /\ UNCHANGED <<up, mailbox>>
        /\ requests' = [x \in DOMAIN requests \ own |-> requests[x]]
    BY Zenon, <1>15, <2>0, <2>1 DEF TeardownBuffer, Then, Without, Restrict
  <2>4. /\ DOMAIN requests' = DOMAIN requests \ own
        /\ \A x \in DOMAIN requests' : requests'[x] = requests[x]
    BY Zenon, <2>3
  <2>5. \A id \in own : requests[id].age = "swept"
    BY Zenon, <1>15 DEF TeardownBuffer, Outstanding
  <2>6. \A h \in Hashes : Awaiting(h)' = Awaiting(h)
    BY Zenon, <2>4, <2>5 DEF Awaiting
  <2>7. \A q \in Peers \ {p} : Outstanding(q)' = Outstanding(q)
    BY Zenon, <2>4 DEF Outstanding
  <2>8. OneHolder' /\ buffered' \in [Peers -> SUBSET Hashes]
    BY Zenon, <1>t, <2>3, <2>6, ReleaseBuffered
  <2>9. SweepsOwn' /\ tasks' \in [Peers -> Seq(TaskSet)]
    BY Zenon, <1>t, <2>2, <2>3, <2>7, OwnTasks
  <2>10. requests' \in [DOMAIN requests' -> Request] /\ DOMAIN requests' \subseteq Nat
    BY Zenon, <1>t, <2>3, <2>4 DEF HoldersTyped
  <2> QED BY SMTT(60), <1>t, <2>3, <2>8, <2>9, <2>10 DEF HeldInv, HoldersTyped
<1>16. ASSUME UNCHANGED <<buffered, requests, tasks, mailbox, inFlight>>, up' \subseteq Peers
       PROVE  HeldInv'
  <2>1. OneHolder'
    BY Zenon, <1>t, <1>16, SameHolders
  <2>2. SweepsOwn'
    BY Zenon, <1>t, <1>16, SameTasks DEF Outstanding
  <2> QED BY Zenon, <1>t, <1>16, <2>1, <2>2 DEF HeldInv, HoldersTyped
<1>17. ASSUME NEW p \in Peers, Connect(p) PROVE HeldInv'
  BY Zenon, <1>16, <1>17, <1>y DEF Connect, shared
<1>18. ASSUME NEW h \in DOMAIN alternates, AlternatesAge(h) PROVE HeldInv'
  BY Zenon, <1>16, <1>18, <1>y DEF AlternatesAge, actors
<1>19. CASE UNCHANGED vars
  BY Zenon, <1>16, <1>19, <1>y DEF vars, shared, actors
<1>20. ASSUME NEW p \in Peers, Task(p) PROVE HeldInv'
  BY SMTT(60), <1>9, <1>10, <1>11, <1>12, <1>13, <1>14, <1>15, <1>20 DEF Task, StopAfterError
<1> QED
  BY ZenonT(60), <1>1, <1>2, <1>3, <1>4, <1>5, <1>6, <1>7, <1>8, <1>13, <1>17, <1>18, <1>19, <1>20
     DEF Next, Disconnect

\* What is in flight: a hash is reserved exactly while one connection buffers
\* it or waits for it, whatever the peers do (InFlightIsHeld), for any number
\* of peers, transactions, announcements and failures.
THEOREM InFlightCorrect == Spec => []InFlightIsHeld
<1>1. Init => HeldInv
  BY Zenon, HeldInit
<1>2. HeldInv /\ [Next]_(vars) => HeldInv'
  BY Zenon, HeldNext
<1>3. HeldInv => InFlightIsHeld
  BY Zenon, OneHolderCounts DEF HeldInv
<1> QED BY <1>1, <1>2, <1>3, PTL DEF Spec

=============================================================================
