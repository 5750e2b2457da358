SPECIFICATION FairSpec
CONSTANTS
  p1 = p1
  p2 = p2
  Provers = {p1, p2}
  TypeOf <- MCTypeOf
  NeededTypes = {"SP1"}
  MaxBatch = 3
  FirstBatch = 2
  MaxFaults = 2
PROPERTIES AllVerified
