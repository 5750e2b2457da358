SPECIFICATION Spec
CONSTANTS
    Modes = {"l1", "l2", "stateless"}
    Kinds = {"call", "create", "frame"}
    MaxOps = 3
    MaxFrameOps = 2
    MaxDepth = 2
    MaxFrames = 3
CHECK_DEADLOCK FALSE
INVARIANTS
    Undoable RejectedLeavesNothing IncludedPaysOnce LogsMatch
PROPERTIES
    RevertUndoes
