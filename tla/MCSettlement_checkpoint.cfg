SPECIFICATION Spec
CONSTANTS
  Kinds = {"plain"}
  MaxBatch = 2
  MaxDeposits = 0
  MaxBlocks = 2
  Faults = {"stop"}
  MaxFaults = 1
CHECK_DEADLOCK FALSE
INVARIANT CheckpointHoldsState
