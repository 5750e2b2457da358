SPECIFICATION FairSpec
CONSTANTS
  p1 = p1
  p2 = p2
  Provers = {p1}
  TypeOf <- MCTypeOf
  NeededTypes = {"SP1"}
  MaxBatch = 2
  FirstBatch = 1
  MaxFaults = 1
PROPERTIES DeletedIsSentAgain
