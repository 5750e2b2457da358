CONSTANTS
    none = none
    Block <- ShortBlock
    Genesis = "G"
    NoBlock = none
    Parent <- MCParent
    Number <- MCNumber
    Anc <- MCAnc
    Threshold = 1
    QueueCap = 1
    Readable = {"A1"}
    MaxFaults = 1
    MaxRestarts = 1
SPECIFICATION FairSpec
INVARIANTS HeadResolves DurableAncestry NothingAheadOfBlocks NoSilentLoss
PROPERTIES ReadsOwnBlock Answers
CHECK_DEADLOCK FALSE
