SPECIFICATION GreenSpec
CONSTANTS
  n1 = n1
  t1 = t1
  t2 = t2
  r1 = r1
  k = k
  Notification <- MCNotification
  Task = {t1, t2}
  Replayer = {r1}
  NoProc = NoProc
  NoRow = NoRow
  Channels = {"VOICE"}
  Key = {k}
  KeyOf <- MCKeyOf
  MaxRetries = 1
  DefaultRetries = 2
  Threshold = 1
  RateLimit = 1
  ServiceLimit = 1
  MaxFaults = 1
PROPERTIES
  EveryTaskEnds
CHECK_DEADLOCK FALSE
