SPECIFICATION FairSpec
CONSTANTS
  s1 = s1
  s2 = s2
  MaxMessage = 5
  Service = {s1, s2}
  ServiceOf <- MCServiceOf
  Threshold = 1
  MaxFaults = 2
INVARIANTS
  TypeOK
  GoneForAReason
PROPERTIES
  BufferedIsReported
  ThrottleReopens
CHECK_DEADLOCK FALSE
