SPECIFICATION ApiSpec
CONSTANTS
  a = a
  b = b
  c = c
  Line = {a, b, c}
  At <- Times
  IdOf <- Times
  Pull = {p1, p2}
  NoLine = NoLine
  Limit = 2
  LookbackMin = 1
  LookbackMax = 2
  KeyTTL = 2
  Span = 1
  MaxTime = 4
  Null = Null
  Absent = Absent
  ServiceName = {"postgres", "redis", "sargaco", "seriema", "loki", "celery", "veredas"}
  MaxNames = 2
  MaxMarks = 2
  RuleList <- MCRuleList
  Contact = {c1}
  Group = {g1, g2}
  Rule = {r1}
  Channel = {voice, email}
  Request = {p1, p2}
  Dispatcher = {d1}
  None = None
  MaxSessions = 2
  Incident = {p1, p2}
  Task = {"queue_metrics_snapshot", "prune_dlq", "stale_incident_sweeper"}
  Registered = {"queue_metrics_snapshot", "prune_dlq"}
  MaxCommits = 4
  Worker = {p1, p2}
  Recent = {i1}
  MaxLength = 1
  MaxChanges = 2
  MaxFaults = 1
INVARIANTS
  ApiTypeOK
  HandedBounded
  SkippedForAReason
  DuplicateWasHanded
  AlarmIsHeard
  SimulationPredicts
  GuardOnlyFromTornRead
  AlertIsReal
PROPERTIES
  ErrorOnlyFromARace
  DispatchReachesMembers
SYMMETRY Symmetry
CHECK_DEADLOCK FALSE
