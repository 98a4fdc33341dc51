SPECIFICATION FairSpec
CONSTANTS
  Entry = {a, b, c}
  ClientError = {a}
  Hopeless = {b}
  Run = {r1, r2}
  NoRun = NoRun
  MaxItems = 2
  Batch = 2
  MaxFaults = 1
INVARIANTS
  TypeOK
  ListBounded
  OverlapBounded
PROPERTIES
  LeavesForAReason
  RecoverableLeaves
CHECK_DEADLOCK FALSE
