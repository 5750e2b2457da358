CONSTANTS
    c1 = c1
    c2 = c2
    none = none
    NoBlock = none
    NoCaller = none
    Caller = {c1}
    Threshold = 2
    FcState <- MCFcState
    Genesis = "G"
    Block <- ShortBlock
    Parent <- ShortParent
    Number <- ShortNumber
    Anc <- ShortAnc
SPECIFICATION Spec
INVARIANT CanonicalChainLinked
