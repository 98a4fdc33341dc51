SPECIFICATION Spec
CONSTANTS
  Incident = {i1, i2}
  Task = {"queue_metrics_snapshot", "prune_dlq", "stale_incident_sweeper"}
  Registered = {"queue_metrics_snapshot", "prune_dlq"}
  MaxCommits = 4
INVARIANT
  HealthyIsGreen
CHECK_DEADLOCK FALSE
