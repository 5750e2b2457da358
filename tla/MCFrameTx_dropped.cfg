SPECIFICATION Spec
CONSTANTS
    Modes = {"l1"}
    Kinds = {"frame"}
    MaxOps = 2
    MaxFrameOps = 2
    MaxDepth = 2
    MaxFrames = 1
CHECK_DEADLOCK FALSE
INVARIANTS
    DroppedLeavesNothing
