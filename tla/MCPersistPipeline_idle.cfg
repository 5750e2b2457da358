CONSTANTS
    none = none
    Block <- ShortBlock
    Genesis = "G"
    NoBlock = none
    Parent <- MCParent
    Number <- MCNumber
    Anc <- MCAnc
    Threshold = 1
    QueueCap = 2
    Readable = {}
    MaxFaults = 1
    MaxRestarts = 0
SPECIFICATION Spec
PROPERTY IdleMeansFlushed
CHECK_DEADLOCK FALSE
