CONSTANTS
    none = none
    Block <- LongBlock
    Genesis = "G"
    NoBlock = none
    Parent <- MCParent
    Number <- MCNumber
    Anc <- MCAnc
    Key = {"root", "x", "y"}
    RootKey = "root"
    Writes <- MCWrites
    Threshold = 1
    QueueCap = 2
    FcState <- A1Finalized
    MaxFaults = 0
SPECIFICATION Spec
INVARIANTS DiskIsOneState JournalReverses OverlayShowsPivot JournalCoversWindow
CHECK_DEADLOCK FALSE
