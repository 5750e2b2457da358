--------------------------- MODULE FkvGenerator ---------------------------
(***************************************************************************)
(* The flat key-value generator (flatkeyvalue_generator, store.rs) and its *)
(* handshake with the persist worker (commit_to_disk).                     *)
(*                                                                         *)
(* The generator walks the on-disk state trie, account by account, and     *)
(* copies every leaf into the flat tables, in batches; last_written is how *)
(* far it got.  The trie must not change under it: the persist worker      *)
(* sends Stop over a rendezvous channel before it writes and Continue      *)
(* afterwards, and updates the flat tables itself at or below              *)
(* last_written.  A stopped generator drops its unwritten batch and starts *)
(* again from last_written on the new trie.                                *)
(***************************************************************************)
EXTENDS Integers, FiniteSets

CONSTANTS
    MaxAccount,     \* accounts are 1 .. MaxAccount, in trie order
    MaxSlot,        \* storage slots of an account, in trie order
    MaxValue,       \* leaf values are 1 .. MaxValue; 0 is "absent"
    BatchSize,      \* leaves written before a batch is committed (10_000)
    StoredTries,    \* the tries the node may find on disk when it first starts
    Removable,      \* accounts a block may remove (SELFDESTRUCT before Cancun)
    MaxCommits, MaxFaults

ASSUME FkvAssumption ==
    /\ MaxAccount \in Nat \ {0}
    /\ MaxSlot \in Nat \ {0}
    /\ MaxValue \in Nat \ {0}
    /\ BatchSize \in Nat \ {0}
    /\ Removable \subseteq 1 .. MaxAccount
    /\ MaxCommits \in Nat
    /\ MaxFaults \in Nat

VARIABLES
    trie,           \* the leaves of the on-disk trie
    flat,           \* ACCOUNT_FLATKEYVALUE and STORAGE_FLATKEYVALUE
    last_written,   \* the frontier on disk
    last_computed,  \* last_computed_flatkeyvalue, the readers' copy
    gen,            \* the generator thread
    batch,          \* leaves, with their values, in its open write batch
    worker,         \* the persist worker
    starter,        \* generate_flatkeyvalue's Continue: "send", or "sent" or never due
    commits, faults

disk_vars == <<trie, flat, last_written>>
vars == <<trie, flat, last_written, last_computed, gen, batch, worker, starter,
          commits, faults>>

-----------------------------------------------------------------------------

\* A flat key: an account and one of its slots; slot 0 is the account leaf.
Key == (1 .. MaxAccount) \X (0 .. MaxSlot)

\* The order of the nibble paths, and the markers before and after them all.
Unset == <<0, 0>>
Complete == <<MaxAccount + 1, 0>>
Less(j, k) == j[1] < k[1] \/ (j[1] = k[1] /\ j[2] < k[2])
AtMost(j, k) == ~Less(k, j)

\* The leaf a walk of the state trie and then of the storage tries would find.
Leaf(t, k) == IF t[<<k[1], 0>>] = 0 THEN 0 ELSE t[k]

Tries == [Key -> 0 .. MaxValue]

\* No slot without its account.
ASSUME StoredTriesAssumption ==
    StoredTries \subseteq {t \in Tries : \A k \in Key : t[k] = Leaf(t, k)}

\* What a walk that is at position p still has to visit.
Ahead(t, p) == {k \in Key : Leaf(t, k) # 0 /\ Less(p, k)}
First(S) == CHOOSE k \in S : \A j \in S : AtMost(k, j)

Init ==
    /\ trie \in StoredTries
    /\ flat = [k \in Key |-> 0]
    /\ last_written = Unset
    /\ last_computed = Unset
    /\ gen = [pc |-> "wait", at |-> Unset, skip |-> 0]
    /\ batch = {}
    /\ worker = "idle"
    /\ starter \in {"send", "sent"}
    /\ commits = 0
    /\ faults = 0

-----------------------------------------------------------------------------
(* The generator.                                                          *)

\* A new pass: the walk starts at the account of last_written, that account
\* included, and skips the slots below last_written's in the first account it
\* meets.
Opened == [pc |-> "iterate", at |-> <<last_written[1] - 1, MaxSlot>>,
           skip |-> last_written[2]]

\* The first Continue, from the startup code or from a commit: nothing to do
\* when the marker says complete, and leftovers go when there is no marker.
Begin ==
    /\ gen.pc = "wait"
    /\ \/ /\ starter = "send"
          /\ starter' = "sent"
          /\ UNCHANGED worker
       \/ /\ worker = "continue"
          /\ worker' = "idle"
          /\ UNCHANGED starter
    /\ gen' = IF last_written = Complete THEN [gen EXCEPT !.pc = "done"] ELSE Opened
    /\ flat' = IF last_written = Unset THEN [k \in Key |-> 0] ELSE flat
    /\ batch' = {}
    /\ UNCHANGED <<trie, last_written, last_computed, commits, faults>>

\* A Stop before the first Continue is ignored.
IgnoreStop ==
    /\ gen.pc = "wait"
    /\ worker = "stop"
    /\ worker' = "write"
    /\ UNCHANGED <<disk_vars, last_computed, gen, batch, starter, commits, faults>>

\* The write batch lands: its leaves and the frontier together, then the
\* readers' copy.
Written(leaves, front) ==
    /\ flat' = [k \in Key |->
                  IF \E leaf \in leaves : leaf[1] = k
                  THEN (CHOOSE leaf \in leaves : leaf[1] = k)[2] ELSE flat[k]]
    /\ last_written' = front
    /\ last_computed' = front

Full(leaves) == Cardinality(leaves) > BatchSize

\* One leaf: put it and, when the batch is full, commit.  The walk goes on to
\* the account's storage without looking at the channel.
Visit ==
    /\ gen.pc = "iterate"
    /\ Ahead(trie, gen.at) # {}
    /\ LET k == First(Ahead(trie, gen.at))
           at == IF k[2] = 0 /\ gen.skip > 0 THEN <<k[1], gen.skip - 1>> ELSE k
           inside == \E j \in Ahead(trie, at) : j[1] = k[1]
           put == batch \cup {<<k, trie[k]>>}
       IN /\ gen' = [pc |-> IF k[2] = 0 /\ inside THEN "iterate" ELSE "check",
                     at |-> at, skip |-> 0]
          /\ IF Full(put)
             THEN Written(put, k) /\ batch' = {}
             ELSE batch' = put /\ UNCHANGED <<flat, last_written, last_computed>>
    /\ UNCHANGED <<trie, worker, starter, commits, faults>>

\* fkv_check_for_stop_msg: a waiting Stop is taken and the open batch dropped;
\* a Continue is unexpected and ends the thread.
Check ==
    /\ gen.pc = "check"
    /\ IF worker = "stop"
       THEN /\ worker' = "write"
            /\ gen' = [gen EXCEPT !.pc = "stopped"]
            /\ batch' = {}
       ELSE /\ gen' = [gen EXCEPT !.pc = IF worker = "continue" THEN "dead"
                                         ELSE "iterate"]
            /\ worker' = IF worker = "continue" THEN "idle" ELSE worker
            /\ UNCHANGED batch
    /\ UNCHANGED <<disk_vars, last_computed, starter, commits, faults>>

\* A stopped generator waits: Continue opens a new pass, a second Stop is
\* unexpected and ends the thread.
Resume ==
    /\ gen.pc = "stopped"
    /\ worker \in {"stop", "continue"}
    /\ gen' = IF worker = "continue" THEN Opened ELSE [gen EXCEPT !.pc = "dead"]
    /\ worker' = IF worker = "continue" THEN "idle" ELSE "write"
    /\ UNCHANGED <<disk_vars, last_computed, batch, starter, commits, faults>>

\* No leaf is left: the last batch and the completion marker.
Finish ==
    /\ gen.pc = "iterate"
    /\ Ahead(trie, gen.at) = {}
    /\ Written(batch, Complete)
    /\ gen' = [gen EXCEPT !.pc = "done"]
    /\ batch' = {}
    /\ UNCHANGED <<trie, worker, starter, commits, faults>>

-----------------------------------------------------------------------------
(* The persist worker: commit_to_disk.                                     *)

\* A commit with a layer to write sends Stop.  The startup code of a full-sync
\* node signals the generator before it imports a block; a snap-sync node that
\* is already synced never does, and its first commit's Continue stands in.
BeginCommit ==
    /\ worker = "idle"
    /\ starter = "sent"
    /\ commits < MaxCommits
    /\ commits' = commits + 1
    /\ worker' = "stop"
    /\ UNCHANGED <<disk_vars, last_computed, gen, batch, starter, faults>>

\* Mutant of Closed: the receiver outlives the finished thread.
ClosedWhenDead ==
    /\ gen.pc = "dead"
    /\ worker \in {"stop", "continue"}
    /\ worker' = IF worker = "stop" THEN "write" ELSE "idle"
    /\ UNCHANGED <<disk_vars, last_computed, gen, batch, starter, commits, faults>>

\* With the thread gone the channel is closed and a send returns at once.
Closed ==
    /\ gen.pc \in {"done", "dead"}
    /\ worker \in {"stop", "continue"}
    /\ worker' = IF worker = "stop" THEN "write" ELSE "idle"
    /\ UNCHANGED <<disk_vars, last_computed, gen, batch, starter, commits, faults>>

\* The leaves a block changes: one leaf of a present account, or an account.
\* Removing an account drops its storage trie, with no write per slot.
Updates(k, v) ==
    [j \in Key |-> IF j = k THEN v
                   ELSE IF k[2] = 0 /\ v = 0 /\ j[1] = k[1] THEN 0
                   ELSE trie[j]]

Allowed(k, v) ==
    IF k[2] = 0 THEN v = 0 => k[1] \in Removable /\ trie[k] # 0
    ELSE trie[<<k[1], 0>>] # 0

\* Mutants of Write: the leaf at the frontier is left to the generator; no
\* Continue follows the write.
WriteBelowFrontier(k, v) ==
    /\ worker = "write"
    /\ Allowed(k, v)
    /\ trie' = Updates(k, v)
    /\ flat' = IF Less(k, last_written) THEN [flat EXCEPT ![k] = v] ELSE flat
    /\ worker' = "continue"
    /\ UNCHANGED <<last_written, last_computed, gen, batch, starter, commits, faults>>

WriteNoContinue(k, v) ==
    /\ worker = "write"
    /\ Allowed(k, v)
    /\ trie' = Updates(k, v)
    /\ flat' = IF AtMost(k, last_written) THEN [flat EXCEPT ![k] = v] ELSE flat
    /\ worker' = "idle"
    /\ UNCHANGED <<last_written, last_computed, gen, batch, starter, commits, faults>>

\* The write batch: the trie, and the flat leaf unless it is past the frontier.
Write(k, v) ==
    /\ worker = "write"
    /\ Allowed(k, v)
    /\ trie' = Updates(k, v)
    /\ flat' = IF AtMost(k, last_written) THEN [flat EXCEPT ![k] = v] ELSE flat
    /\ worker' = "continue"
    /\ UNCHANGED <<last_written, last_computed, gen, batch, starter, commits, faults>>

\* The batch write fails: Continue is sent all the same.  An error before the
\* batch is built returns early, without it.
WriteFails ==
    /\ worker = "write"
    /\ faults < MaxFaults
    /\ faults' = faults + 1
    /\ worker' \in {"continue", "idle"}
    /\ UNCHANGED <<disk_vars, last_computed, gen, batch, starter, commits>>

\* The process stops and starts again.
Restart ==
    /\ faults < MaxFaults
    /\ faults' = faults + 1
    /\ last_computed' = last_written
    /\ gen' = [pc |-> "wait", at |-> Unset, skip |-> 0]
    /\ batch' = {}
    /\ worker' = "idle"
    /\ starter' \in {"send", "sent"}
    /\ UNCHANGED <<disk_vars, commits>>

-----------------------------------------------------------------------------
(* The readers.                                                            *)

\* Mutant of flatkeyvalue_computed: the account at the frontier counts too.
flatkeyvalue_computed_inclusive(account) == last_computed[1] >= account

\* flatkeyvalue_computed_with_last_written: accounts strictly left of the
\* frontier's, whose storage is all there.
flatkeyvalue_computed(account) == last_computed[1] > account

\* Trie::get of a leaf: the flat table at or below the frontier, else a walk.
TrieGet(k, present) ==
    IF AtMost(k, last_computed) THEN flat[k]
    ELSE IF present THEN trie[k] ELSE 0

\* get_storage_at_root: an account the flat tables cover is not looked up, and
\* its storage trie is opened with the empty root.
Read(k) ==
    IF k[2] = 0 THEN TrieGet(k, TRUE)
    ELSE IF flatkeyvalue_computed(k[1]) THEN TrieGet(k, FALSE)
    ELSE IF TrieGet(<<k[1], 0>>, TRUE) = 0 THEN 0
    ELSE TrieGet(k, TRUE)

-----------------------------------------------------------------------------

Generator == Begin \/ IgnoreStop \/ Visit \/ Check \/ Resume \/ Finish

Worker == Closed \/ (\E k \in Key, v \in 0 .. MaxValue : Write(k, v)) \/ WriteFails

Next == Generator \/ Worker \/ BeginCommit \/ Restart

Spec == Init /\ [][Next]_vars

\* Two threads the operating system keeps scheduling; commits are not owed.
FairSpec == Spec /\ WF_vars(Generator) /\ WF_vars(Worker)

-----------------------------------------------------------------------------
(* Properties.                                                             *)

\* Every variable keeps its type.
TypeOK ==
    /\ trie \in Tries
    /\ flat \in Tries
    /\ last_written \in Key \cup {Unset, Complete}
    /\ last_computed \in Key \cup {Unset, Complete}
    /\ gen \in [pc : {"wait", "iterate", "check", "stopped", "done", "dead"},
                at : (-1 .. MaxAccount) \X (0 .. MaxSlot), skip : 0 .. MaxSlot]
    /\ batch \subseteq Key \X (1 .. MaxValue)
    /\ Cardinality(batch) <= BatchSize
    /\ worker \in {"idle", "stop", "write", "continue"}
    /\ starter \in {"send", "sent"}
    /\ commits \in 0 .. MaxCommits
    /\ faults \in 0 .. MaxFaults

\* At or below the frontier on disk the flat tables hold exactly the leaves of
\* the trie, absent ones included, across stops, resumed passes, failed
\* commits and restarts.
FlatCorrect ==
    \A k \in Key : AtMost(k, last_written) => flat[k] = Leaf(trie, k)

\* "it only uses the flatkeyvalues on the left of last_written, ie those it
\* knows to be correct. Otherwise it goes through the trie": a reader, with the
\* in-memory frontier and the shortcut for accounts left of it, gets the value
\* in the trie for every account and every slot.
ReadsAgree == \A k \in Key : Read(k) = Leaf(trie, k)

\* A commit is never held up for ever by the handshake with the generator,
\* dead, finished or waiting.
CommitProceeds == worker # "idle" ~> worker = "idle"

\* Once blocks stop coming the flat tables get completed: the deep-reorg pass,
\* which answers SYNCING until then, is not shut off for good.
GenerationCompletes ==
    faults = 0 /\ (starter = "send" \/ commits > 0) ~> faults > 0 \/ gen.pc = "done"
=============================================================================
