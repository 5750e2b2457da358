SPECIFICATION FairSpec
CONSTANTS
  Kinds = {"deposit", "withdraw"}
  MaxBatch = 2
  MaxDeposits = 2
  MaxBlocks = 2
  Faults = {"stop", "timeout", "lag", "badproof", "pause", "revert", "expire"}
  MaxFaults = 2
CHECK_DEADLOCK FALSE
INVARIANTS CommittedIsSealed DepositsSettleInOrder CachedUpdatesAreCanonical
PROPERTIES LedgerImplemented OnlyBadProofsDeleted BlocksSettle
