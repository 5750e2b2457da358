CONSTANTS
    none = none
    Block <- ShortBlock
    Genesis = "G"
    NoBlock = none
    Parent <- MCParent
    Number <- MCNumber
    Anc <- MCAnc
    Key = {"root", "x", "y"}
    RootKey = "root"
    Writes <- MCWrites
    Threshold = 1
    QueueCap = 3
    FcState <- HeadsOnly
    MaxFaults = 1
SPECIFICATION Spec
INVARIANT NeverBricked
CHECK_DEADLOCK FALSE
