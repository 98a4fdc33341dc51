SPECIFICATION FairSpec
CONSTANTS
  Run = {r1, r2}
  Limit = 1
  MaxFaults = 1
  MaxIssue = 3
  Projects = 2
  ProjectOf <- MCProjectOf
  o1 = o1
  o2 = o2
  o3 = o3
  Observation = {o1, o2, o3}
  At <- MCAt
  Faulty = {o1}
  Interval = 1
  MaxTime = 2
INVARIANTS
  TypeOK
  PassedForAReason
PROPERTY
  FiledIsIngested
CHECK_DEADLOCK FALSE
