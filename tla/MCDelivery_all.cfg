SPECIFICATION Spec
CONSTANTS
  n1 = n1
  n2 = n2
  t1 = t1
  t2 = t2
  r1 = r1
  k = k
  Notification <- MCNotification
  Task = {t1, t2}
  Replayer = {r1}
  NoProc = NoProc
  NoRow = NoRow
  Channels = {"VOICE", "TELEGRAM", "EMAIL"}
  Key = {k}
  KeyOf <- MCSharedKey
  MaxRetries = 1
  DefaultRetries = 2
  Threshold = 2
  RateLimit = 1
  ServiceLimit = 1
  MaxFaults = 1
INVARIANTS
  SendsOnceUpToLoss
  AuditAgreesWithRow
  FailedIsInTheDlq
  
PROPERTY
  KeepsPromise
SYMMETRY Symmetry
CHECK_DEADLOCK FALSE
