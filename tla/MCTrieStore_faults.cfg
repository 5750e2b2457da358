CONSTANTS
    none = none
    Block <- TinyBlock
    Genesis = "G"
    NoBlock = none
    Parent <- MCParent
    Number <- MCNumber
    Anc <- MCAnc
    Key = {"root", "x", "y"}
    RootKey = "root"
    Writes <- MCWrites
    Threshold = 1
    QueueCap = 3
    FcState <- MCFcState
    MaxFaults = 2
SPECIFICATION FairSpec
INVARIANTS AnchoredReads RestartRecovers
CHECK_DEADLOCK FALSE
PROPERTY PassEnds
