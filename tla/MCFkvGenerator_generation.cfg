\* Two accounts with two slots each, every set of stored leaves, a batch of one leaf,
\* and no removable account.
CONSTANTS
    MaxAccount = 2
    MaxSlot = 2
    MaxValue = 2
    BatchSize = 1
    StoredTries <- MCStoredTries
    Removable = {}
    MaxCommits = 2
    MaxFaults = 2
SPECIFICATION FairSpec
INVARIANTS FlatCorrect ReadsAgree
PROPERTIES CommitProceeds GenerationCompletes
\* Commits are bounded: the system may stop.
CHECK_DEADLOCK FALSE
