-------------------------- MODULE ForkChoiceRules --------------------------
(***************************************************************************)
(* The decisions of crates/blockchain/fork_choice.rs as operators on the   *)
(* tables they read: the branch that links a head to the canonical chain,  *)
(* the checks of apply_fork_choice in the order of its early returns, and  *)
(* the canonical table after Store::forkchoice_update.                     *)
(*                                                                         *)
(*   known     the hashes with a stored header                             *)
(*   canon     CANONICAL_BLOCK_HASHES, height -> block                     *)
(*   stateful  the blocks whose state root the store can read              *)
(***************************************************************************)
EXTENDS BlockTree

is_canonical(canon, b) == canon[Number[b]] = b

\* The canonical ancestors of h; the walk stops at the highest one.
CanonicalAncestors(canon, h) == {a \in Anc[h] : is_canonical(canon, a)}

Pivot(canon, h) ==
    LET ancestors == CanonicalAncestors(canon, h)
    IN CHOOSE a \in ancestors : \A c \in ancestors : Number[c] <= Number[a]

\* The blocks above the canonical link, h included when it is not canonical.
Side(canon, h) ==
    LET pivot == Number[Pivot(canon, h)]
    IN {a \in Anc[h] : Number[a] > pivot}

\* find_link_with_canonical_chain returns Some(branch): every parent the walk
\* asks for is stored.
Linked(known, canon, h) ==
    /\ CanonicalAncestors(canon, h) # {}
    /\ \A b \in Side(canon, h) : Parent[b] \in known

\* The branch it returns: h itself is never part of it.
Branch(canon, h) == Side(canon, h) \ {h}

\* new_canonical_blocks.last(), or the head when the branch is empty.
LinkBlock(canon, h) ==
    LET branch == Branch(canon, h)
    IN IF branch = {} THEN h
       ELSE CHOOSE b \in branch : \A c \in branch : Number[b] <= Number[c]

\* The test apply_fork_choice makes of the safe and of the finalized block.
Connected(canon, h, x) ==
    \/ is_canonical(canon, x) /\ Number[x] <= Number[LinkBlock(canon, h)]
    \/ x = h
    \/ x \in Branch(canon, h)

ReorgDepth(canon, latest, h) ==
    IF latest > Number[Pivot(canon, h)]
    THEN latest - Number[Pivot(canon, h)]
    ELSE 0

\* check_order: b1 precedes b2, and is stored when b2 is.
check_order(known, b1, b2) ==
    IF b2 \notin known THEN "Syncing"
    ELSE IF b1 \notin known THEN "ElementNotFound"
    ELSE IF Number[b1] > Number[b2] THEN "Unordered"
    ELSE "Ok"

\* The answer of apply_fork_choice, one early return per line.  A zero hash
\* is NoBlock; an unknown safe or finalized hash that passed check_order's
\* guards is dropped (the lookup's None).  stored_finalized is -1 when the
\* database has none.
ApplyForkChoice(known, canon, latest, stored_finalized, stateful, ceiling, head, safe, finalized) ==
    LET safe_order == IF safe = NoBlock THEN "Ok"
                      ELSE check_order(known, safe, head)
        fin_order  == IF safe = NoBlock \/ finalized = NoBlock THEN "Ok"
                      ELSE check_order(known, finalized, safe)
    IN  IF head = NoBlock THEN "InvalidHeadHash"
        ELSE IF safe_order # "Ok" THEN safe_order
        ELSE IF fin_order # "Ok" THEN fin_order
        ELSE IF head \notin known THEN "Syncing"
        ELSE IF /\ stored_finalized >= 0
                /\ Number[head] < latest
                /\ Number[head] <= stored_finalized
                /\ is_canonical(canon, head)
                /\ head \in stateful
             THEN "NewHeadAlreadyCanonical"
        ELSE IF ~Linked(known, canon, head) THEN "UnlinkedHead"
        ELSE IF ReorgDepth(canon, latest, head) > ceiling THEN "TooDeepReorg"
        ELSE IF \E x \in {finalized, safe} \cap known : ~Connected(canon, head, x)
             THEN "Disconnected"
        ELSE IF LinkBlock(canon, head) \notin stateful THEN "StateNotReachable"
        ELSE "Ok"

\* Mutant of CanonicalAfter: the old chain above the new head is left behind.
CanonicalAfterKeepsTail(canon, latest, branch, head) ==
    [n \in Height |->
        IF n = Number[head] THEN head
        ELSE IF \E b \in branch : Number[b] = n
             THEN CHOOSE b \in branch : Number[b] = n
        ELSE canon[n]]

\* Store::forkchoice_update_inner's writes to CANONICAL_BLOCK_HASHES: the
\* branch, then the deletions above the head up to the old latest, then the
\* head.
CanonicalAfter(canon, latest, branch, head) ==
    [n \in Height |->
        IF n = Number[head] THEN head
        ELSE IF n > Number[head] /\ n <= latest THEN NoBlock
        ELSE IF \E b \in branch : Number[b] = n
             THEN CHOOSE b \in branch : Number[b] = n
        ELSE canon[n]]

\* Mutant of compute_safe_commit_root: one block less behind the head.
safe_commit_root_one_less(canon, threshold, head) ==
    IF Number[head] >= threshold THEN canon[Number[head] - threshold + 1]
                                 ELSE NoBlock

\* Store::compute_safe_commit_root: NoBlock when the chain is too short.
compute_safe_commit_root(canon, threshold, head) ==
    IF Number[head] >= threshold THEN canon[Number[head] - threshold]
                                 ELSE NoBlock
=============================================================================
