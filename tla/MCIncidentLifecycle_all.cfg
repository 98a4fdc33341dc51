SPECIFICATION Spec
CONSTANTS
  i1 = i1
  n1 = n1
  n2 = n2
  o1 = o1
  o2 = o2
  c1 = c1
  c2 = c2
  s1 = s1
  s2 = s2
  e1 = e1
  w1 = w1
  Incident = {i1}
  Notification = {n1, n2}
  IncidentOf <- MCOneIncident
  Operator = {o1, o2}
  Operations = {"ack", "resolve"}
  Callback = {c1, c2}
  Sender = {s1, s2}
  Escalation = {e1}
  Sweeper = {w1}
  NoProc = NoProc
  Nothing = Nothing
  MaxFaults = 1
INVARIANTS
  VoiceAckOnce
  AuditExplainsStatus
PROPERTY
  LegalTransitions
SYMMETRY Symmetry
CHECK_DEADLOCK FALSE
