SPECIFICATION Spec
CONSTANTS
  n1 = n1
  n2 = n2
  t1 = t1
  t2 = t2
  r1 = r1
  k = k
  Notification <- MCNotification
  Task = {t1, t2}
  Replayer = {r1}
  NoProc = NoProc
  NoRow = NoRow
  Channels = {"TELEGRAM"}
  Key = {k}
  KeyOf <- MCSharedKey
  MaxRetries = 1
  DefaultRetries = 2
  Threshold = 2
  RateLimit = 2
  ServiceLimit = 1
  MaxFaults = 0
INVARIANTS
  SuppressedAfterASend
CHECK_DEADLOCK FALSE
