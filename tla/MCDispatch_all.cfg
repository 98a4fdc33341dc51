SPECIFICATION FairSpec
CONSTANTS
  Target = {b, m, x}
  Recipient = {b, m, x}
  Fallback = {b}
  Enabled = {b, m}
  Mute = {m}
  Policies = {"invalid", "valid"}
  MaxRows = 3
  Dispatcher = {d1}
  Escalator = {e1, e2}
  NoTarget = NoTarget
  MaxRetries = 5
  MaxFaults = 2
INVARIANTS
  DoneReachesAll
  QueuedIsNoted
  FallbackOnce
  OneRowPerMessage
PROPERTY
  MessageReachesAll
CHECK_DEADLOCK FALSE
