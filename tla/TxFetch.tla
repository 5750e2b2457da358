------------------------------ MODULE TxFetch ------------------------------
(***************************************************************************)
(* How a node fetches announced transactions.  Every peer connection is an *)
(* actor with a buffer of hashes to request and a table of outstanding     *)
(* GetPooledTransactions requests; what they share, behind the lock of the *)
(* pool, is the set of hashes in flight and, for each hash, the other      *)
(* peers that announced it and can be asked when the first one fails.      *)
(*                                                                         *)
(* A handler that awaits between two accesses to the shared state is a     *)
(* sequence of tasks, and its actor takes no other message until they are  *)
(* done.  Clocks are abstracted to what the code compares them with: a     *)
(* request or a list of alternates is recent, or past INFLIGHT_TX_TIMEOUT. *)
(***************************************************************************)
EXTENDS Integers, FiniteSets, FiniteSetsExt, Sequences, Functions

CONSTANTS Peers,
          Hashes,
          MaxAlternates,     \* MAX_ALTERNATES_PER_HASH
          MaxAnnouncements,  \* bound
          MaxFaults          \* bound: lost connections, failed sends, bad answers

ASSUME FetchAssumption ==
    /\ MaxAlternates \in Nat \ {0}
    /\ {MaxAnnouncements, MaxFaults} \subseteq Nat

VARIABLES up,          \* peers with a connection in the peer table
          buffered,    \* peer -> hashes in pending_tx_requests
          requests,    \* id -> peer, hashes, and whether it is recent, old or swept
          tasks,       \* peer -> what its handler has still to do
          mailbox,     \* peer -> EnqueueTxRequests messages, as sets of hashes
          inFlight,    \* in_flight_txs
          alternates,  \* hash -> queue of peers, and whether it is old
          pool,        \* hashes in the transaction pool
          announcements,
          faults

shared == <<inFlight, alternates, pool>>
actors == <<up, buffered, requests, tasks, mailbox>>
vars == <<shared, actors, announcements, faults>>

\* Every request follows an announcement: the retries of a hash use up the
\* alternates that announcements registered.  The code draws an id at random
\* from 64 bits; the model takes one that is free.
Ids == 1 .. MaxAnnouncements * Cardinality(Hashes)
FreeIds == Ids \ DOMAIN requests

Ready(p) == p \in up /\ tasks[p] = <<>>

Outstanding(p) ==
    {id \in DOMAIN requests : requests[id].peer = p /\ requests[id].age # "swept"}

Without(f, keys) == Restrict(f, DOMAIN f \ keys)

Then(p, list) == tasks' = [tasks EXCEPT ![p] = list]

Fault ==
    /\ faults < MaxFaults
    /\ faults' = faults + 1

----------------------------------------------------------------------------
\* The shared state.

\* A peer is queued once; the oldest makes room.
Registered(queue, p) ==
    IF p \in Range(queue) THEN queue
    ELSE Append(IF Len(queue) >= MaxAlternates THEN Tail(queue) ELSE queue, p)

\* reserve_unknown_hashes: what nobody holds is reserved for p, what is in
\* flight elsewhere gets p as an alternate.
Reserve(p, hs) ==
    LET unknown == hs \ (inFlight \cup pool)
        others == (hs \cap inFlight) \ pool
        queue(h) == IF h \in DOMAIN alternates THEN alternates[h].queue ELSE <<>>
    IN  /\ inFlight' = inFlight \cup unknown
        /\ alternates' = [h \in DOMAIN alternates \cup others |->
                            IF h \in others
                            THEN [queue |-> Registered(queue(h), p), old |-> FALSE]
                            ELSE alternates[h]]
        /\ buffered' = [buffered EXCEPT ![p] = @ \cup unknown]
        /\ UNCHANGED pool

\* pop_alternate, as retry_on_alternates calls it: up to the first peer that
\* is still connected.
Popped(h) ==
    LET queue == alternates[h].queue
        live == {i \in DOMAIN queue : queue[i] \in up}
    IN  IF live = {} THEN Len(queue) ELSE Min(live)

Chosen(h) ==
    IF h \notin DOMAIN alternates THEN {}
    ELSE {alternates[h].queue[Popped(h)]} \cap up

AfterPop(hs) ==
    LET left(h) == SubSeq(alternates[h].queue, Popped(h) + 1, Len(alternates[h].queue))
        gone == {h \in hs \cap DOMAIN alternates : left(h) = <<>>}
    IN  [h \in DOMAIN alternates \ gone |->
            IF h \in hs THEN [alternates[h] EXCEPT !.queue = left(h)] ELSE alternates[h]]

----------------------------------------------------------------------------
\* Handlers of a connection.

\* NewPooledTransactionHashes: reserve and buffer.
Announce(p, hs) ==
    /\ Ready(p)
    /\ announcements < MaxAnnouncements
    /\ announcements' = announcements + 1
    /\ Reserve(p, hs)
    /\ UNCHANGED <<up, requests, tasks, mailbox, faults>>

\* handle_enqueue_tx_requests: the retry of another connection's request.
Enqueue(p, hs) ==
    /\ Ready(p)
    /\ hs \in mailbox[p]
    /\ mailbox' = [mailbox EXCEPT ![p] = @ \ {hs}]
    /\ Reserve(p, hs)
    /\ UNCHANGED <<up, requests, tasks, announcements, faults>>

\* flush_pending_tx_requests: one request for all that is buffered.
Flush(p) ==
    /\ Ready(p)
    /\ buffered[p] # {}
    /\ FreeIds # {}
    /\ LET new == CHOOSE id \in FreeIds : TRUE
       IN  requests' = [id \in DOMAIN requests \cup {new} |->
                          IF id = new
                          THEN [peer |-> p, hashes |-> buffered[p], age |-> "recent"]
                          ELSE requests[id]]
    /\ buffered' = [buffered EXCEPT ![p] = {}]
    /\ UNCHANGED <<shared, up, tasks, mailbox, announcements, faults>>

\* The send fails: the hashes are released, retried elsewhere, and the error
\* stops the connection.
FlushFails(p) ==
    /\ Ready(p)
    /\ buffered[p] # {}
    /\ Fault
    /\ inFlight' = inFlight \ buffered[p]
    /\ buffered' = [buffered EXCEPT ![p] = {}]
    /\ Then(p, <<[do |-> "retry", hashes |-> buffered[p]], [do |-> "stop"]>>)
    /\ UNCHANGED <<alternates, pool, up, requests, mailbox, announcements>>

\* Mutant: an answer releases its hashes even when the request was swept.
HeldAlways(id) == requests[id].hashes

\* The hashes of a request that is still in the table.
Held(id) == IF requests[id].age = "swept" THEN {} ELSE requests[id].hashes

\* PooledTransactions: the request leaves the table and releases its hashes; a
\* late answer releases nothing, and its transactions are added all the same.
Answer(id) ==
    LET p == requests[id].peer
    IN  /\ Ready(p)
        /\ inFlight' = inFlight \ Held(id)
        /\ requests' = Without(requests, {id})
        /\ \E got \in SUBSET requests[id].hashes :
             Then(p, <<[do |-> "add", hashes |-> got]>>)
        /\ UNCHANGED <<alternates, pool, up, buffered, mailbox, announcements, faults>>

\* An answer that fails the blob checks, validate_requested or, after some of
\* its transactions were added, handle: what it released is retried elsewhere
\* and the peer is disconnected.
BadAnswer(id) ==
    LET p == requests[id].peer
    IN  /\ Ready(p)
        /\ Fault
        /\ inFlight' = inFlight \ Held(id)
        /\ requests' = Without(requests, {id})
        /\ \E got \in SUBSET requests[id].hashes :
             Then(p, <<[do |-> "add", hashes |-> got],
                       [do |-> "retry", hashes |-> Held(id)],
                       [do |-> "stop"]>>)
        /\ UNCHANGED <<alternates, pool, up, buffered, mailbox, announcements>>

\* INFLIGHT_TX_TIMEOUT passes for a request.
RequestAges(id) ==
    /\ requests[id].age = "recent"
    /\ requests' = [requests EXCEPT ![id].age = "old"]
    /\ UNCHANGED <<shared, up, buffered, tasks, mailbox, announcements, faults>>

\* ... and for the alternates of a hash.
AlternatesAge(h) ==
    /\ ~alternates[h].old
    /\ alternates' = [alternates EXCEPT ![h].old = TRUE]
    /\ UNCHANGED <<inFlight, pool, actors, announcements, faults>>

\* Mutant: the sweep leaves the requests alone.
SweepOnlyPrunes(p) ==
    /\ Ready(p)
    /\ \E h \in DOMAIN alternates : alternates[h].old
    /\ Then(p, <<[do |-> "sweep", ids |-> {}]>>)
    /\ UNCHANGED <<shared, up, buffered, requests, mailbox, announcements, faults>>

\* handle_sweep_inflight_txs collects the old requests, releases and retries
\* them one after the other, and prunes the old alternates.
Sweep(p) ==
    LET stale == {id \in Outstanding(p) : requests[id].age = "old"}
    IN  /\ Ready(p)
        /\ stale # {} \/ \E h \in DOMAIN alternates : alternates[h].old
        /\ Then(p, <<[do |-> "sweep", ids |-> stale]>>)
        /\ UNCHANGED <<shared, up, buffered, requests, mailbox, announcements, faults>>

----------------------------------------------------------------------------
\* What handlers do after an await.

Doing(p, what) ==
    /\ tasks[p] # <<>>
    /\ Head(tasks[p]).do = what

\* retry_on_alternates: one message per chosen peer.
Retry(p) ==
    LET hs == Head(tasks[p]).hashes
        group(q) == {h \in hs : q \in Chosen(h)}
    IN  /\ Doing(p, "retry")
        /\ alternates' = AfterPop(hs)
        /\ mailbox' = [q \in Peers |-> mailbox[q] \cup ({group(q)} \ {{}})]
        /\ Then(p, Tail(tasks[p]))
        /\ UNCHANGED <<inFlight, pool, up, buffered, requests, announcements, faults>>

SweepOne(p) ==
    /\ Doing(p, "sweep")
    /\ \E id \in Head(tasks[p]).ids :
         /\ inFlight' = inFlight \ requests[id].hashes
         /\ requests' = [requests EXCEPT ![id].age = "swept"]
         /\ Then(p, <<[do |-> "retry", hashes |-> requests[id].hashes],
                      [do |-> "sweep", ids |-> Head(tasks[p]).ids \ {id}]>>)
    /\ UNCHANGED <<alternates, pool, up, buffered, mailbox, announcements, faults>>

\* prune_alternates, once no old request is left.
Prune(p) ==
    /\ Doing(p, "sweep")
    /\ Head(tasks[p]).ids = {}
    /\ alternates' = Without(alternates, {h \in DOMAIN alternates : alternates[h].old})
    /\ Then(p, Tail(tasks[p]))
    /\ UNCHANGED <<inFlight, pool, up, buffered, requests, mailbox, announcements, faults>>

\* The transactions of an answer enter the pool, or are rejected there.
AddTxs(p) ==
    /\ Doing(p, "add")
    /\ \E accepted \in SUBSET Head(tasks[p]).hashes :
         /\ pool' = pool \cup accepted
         /\ alternates' = Without(alternates, accepted)
    /\ Then(p, Tail(tasks[p]))
    /\ UNCHANGED <<inFlight, up, buffered, requests, mailbox, announcements, faults>>

\* The actor stops: it leaves the peer table and its messages are lost.
Stopped(p) ==
    /\ up' = up \ {p}
    /\ mailbox' = [mailbox EXCEPT ![p] = {}]
    /\ Then(p, <<[do |-> "release"]>>)
    /\ UNCHANGED <<shared, buffered, requests, announcements>>

StopAfterError(p) ==
    /\ Doing(p, "stop")
    /\ Stopped(p)
    /\ UNCHANGED faults

Disconnect(p) ==
    /\ Ready(p)
    /\ Fault
    /\ Stopped(p)

\* teardown: each outstanding request is released and retried, then what is
\* buffered.  Answers to the peer's requests no longer arrive.
TeardownRequest(p) ==
    /\ Doing(p, "release")
    /\ \E id \in Outstanding(p) :
         /\ inFlight' = inFlight \ requests[id].hashes
         /\ requests' = Without(requests, {id})
         /\ Then(p, <<[do |-> "retry", hashes |-> requests[id].hashes],
                      [do |-> "release"]>>)
    /\ UNCHANGED <<alternates, pool, up, buffered, mailbox, announcements, faults>>

TeardownBuffer(p) ==
    /\ Doing(p, "release")
    /\ Outstanding(p) = {}
    /\ inFlight' = inFlight \ buffered[p]
    /\ buffered' = [buffered EXCEPT ![p] = {}]
    /\ requests' = Without(requests, {id \in DOMAIN requests : requests[id].peer = p})
    /\ Then(p, <<[do |-> "retry", hashes |-> buffered[p]]>>)
    /\ UNCHANGED <<alternates, pool, up, mailbox, announcements, faults>>

Connect(p) ==
    /\ p \notin up
    /\ tasks[p] = <<>>
    /\ up' = up \cup {p}
    /\ UNCHANGED <<shared, buffered, requests, tasks, mailbox, announcements, faults>>

----------------------------------------------------------------------------
Init ==
    /\ up = Peers
    /\ buffered = [p \in Peers |-> {}]
    /\ requests = << >>
    /\ tasks = [p \in Peers |-> <<>>]
    /\ mailbox = [p \in Peers |-> {}]
    /\ inFlight = {}
    /\ alternates = << >>
    /\ pool = {}
    /\ announcements = 0
    /\ faults = 0

Task(p) ==
    \/ Retry(p)
    \/ SweepOne(p)
    \/ Prune(p)
    \/ AddTxs(p)
    \/ StopAfterError(p)
    \/ TeardownRequest(p)
    \/ TeardownBuffer(p)

Next ==
    \/ \E p \in Peers :
         \/ \E hs \in SUBSET Hashes \ {{}} : Announce(p, hs)
         \/ \E hs \in mailbox[p] : Enqueue(p, hs)
         \/ Flush(p)
         \/ FlushFails(p)
         \/ Sweep(p)
         \/ Task(p)
         \/ Disconnect(p)
         \/ Connect(p)
    \/ \E id \in DOMAIN requests :
         \/ Answer(id)
         \/ BadAnswer(id)
         \/ RequestAges(id)
    \/ \E h \in DOMAIN alternates : AlternatesAge(h)

Spec == Init /\ [][Next]_vars

\* The flush and sweep timers of a connection keep firing, its handlers run to
\* their end and time passes.  Nothing makes a peer answer.
FairSpec ==
    /\ Spec
    /\ \A p \in Peers : WF_vars(Flush(p)) /\ WF_vars(Sweep(p)) /\ WF_vars(Task(p))
    /\ \A id \in Ids :
         WF_vars(id \in DOMAIN requests /\ RequestAges(id))

----------------------------------------------------------------------------
\* Every variable keeps its type.
TypeOK ==
    /\ up \subseteq Peers
    /\ buffered \in [Peers -> SUBSET Hashes]
    /\ \A id \in DOMAIN requests :
         requests[id] \in [peer : Peers, hashes : SUBSET Hashes,
                           age : {"recent", "old", "swept"}]
    /\ mailbox \in [Peers -> SUBSET SUBSET Hashes]
    /\ inFlight \subseteq Hashes
    /\ pool \subseteq Hashes
    /\ \A h \in DOMAIN alternates :
         /\ alternates[h].queue # <<>>
         /\ Len(alternates[h].queue) <= MaxAlternates
         /\ IsInjective(alternates[h].queue)

\* A hash is in flight exactly while one connection holds it, buffered or in
\* an outstanding request: two connections never ask for the same transaction
\* at once, and no hash stays reserved by a connection that gave it up.
InFlightIsHeld ==
    \A h \in Hashes :
        Cardinality({p \in Peers : h \in buffered[p]})
          + Cardinality({id \in DOMAIN requests :
                           h \in requests[id].hashes /\ requests[id].age # "swept"})
        = IF h \in inFlight THEN 1 ELSE 0

\* Whatever peers do (silence, bad answers, lost connections, late answers), a
\* reserved hash is free again after a while, so another announcement of it is
\* not ignored for ever.
Released == \A h \in Hashes : (h \in inFlight) ~> (h \notin inFlight)

============================================================================
