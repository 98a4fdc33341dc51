------------------------------- MODULE Readiness -------------------------------
(***************************************************************************)
(* /ops/readiness, next to the writers of what it reads.                   *)
(*                                                                         *)
(* The endpoint asks for the incidents, the audit log, the report of the   *)
(* last replay and the heartbeats, one after the other: READ COMMITTED     *)
(* lets commits in between.  The heartbeats are fields of one hash, which  *)
(* is gone a TTL after the last pipeline for any of its fields.            *)
(***************************************************************************)
EXTENDS Integers, FiniteSets

CONSTANTS
  Incident,
  Task,        \* tasks whose heartbeat readiness asks for
  Registered,  \* those of them that Celery knows: stale_incident_sweeper is not one
  MaxCommits   \* bound: commits

ReadinessAssumption == Registered \subseteq Task /\ MaxCommits \in Nat

VARIABLES
  status,      \* of each incident, "none" before it is created
  logs,        \* audit entries: action and incident
  beat,        \* last_status of each task in the metrics
  report,      \* there is a report of the last replay
  step,        \* statements the endpoint has made, 0: it is not at work
  seen,        \* what they returned
  commits,
  meanwhile    \* history: incidents that were written since the first statement

vars == <<status, logs, beat, report, step, seen, commits, meanwhile>>

Statuses == {"none", "OPEN", "ESCALATED", "ACKNOWLEDGED", "RESOLVED"}
Actions == {"EVENT_RECEIVED", "DUPLICATED_EVENT", "ACK_RECEIVED", "ESCALATED", "CALLBACK_RECEIVED"}
Unseen == [status |-> [i \in Incident |-> "none"], logs |-> {}, report |-> FALSE]

TypeOK ==
  /\ status \in [Incident -> Statuses]
  /\ logs \subseteq Actions \X {i \in Incident : status[i] # "none"}
  /\ beat \in [Task -> {"none", "ok", "error"}]
  /\ \A t \in Task \ Registered : beat[t] = "none"
  /\ report \in BOOLEAN
  /\ step \in 0 .. 3
  /\ seen \in [status : [Incident -> Statuses], logs : SUBSET logs, report : BOOLEAN]
  /\ commits \in 0 .. MaxCommits
  /\ meanwhile \subseteq {i \in Incident : step > 0}

Init ==
  /\ status = [i \in Incident |-> "none"] /\ logs = {}
  /\ beat = [t \in Task |-> "none"] /\ report = FALSE
  /\ step = 0 /\ seen = Unseen
  /\ commits = 0 /\ meanwhile = {}

-----------------------------------------------------------------------------
\* Names that begin with Mutant are the faults that the checked properties
\* must notice; nothing else uses them.

\* A commit that gives an incident a status, with the audit entry of the action.
Become(i, new, action) ==
  /\ commits < MaxCommits /\ commits' = commits + 1
  /\ status' = [status EXCEPT ![i] = new]
  /\ logs' = logs \cup {<<action, i>>}
  /\ meanwhile' = IF step = 0 THEN {} ELSE meanwhile \cup {i}
  /\ UNCHANGED <<beat, report, step, seen>>

Create(i) == status[i] = "none" /\ Become(i, "OPEN", "EVENT_RECEIVED")
Duplicate(i) == status[i] = "OPEN" /\ Become(i, "OPEN", "DUPLICATED_EVENT")

\* By the API or by voice.  The API and the sweeper may have read OPEN before
\* another writer's commit (see IncidentLifecycle).
Acknowledge(i) == status[i] # "none" /\ Become(i, "ACKNOWLEDGED", "ACK_RECEIVED")

\* The entry is committed before the status.
MutantEscalate(i) ==
  /\ status[i] # "none"
  /\ Become(i, IF <<"ESCALATED", i>> \in logs THEN "ESCALATED" ELSE status[i], "ESCALATED")

Escalate(i) == status[i] # "none" /\ Become(i, "ESCALATED", "ESCALATED")

Resolve(i) ==
  /\ status[i] \in {"ACKNOWLEDGED", "ESCALATED"}
  /\ Become(i, "RESOLVED", "CALLBACK_RECEIVED")

\* A periodic task ends.
EndTask(t, outcome) ==
  /\ beat' = [beat EXCEPT ![t] = outcome]
  /\ UNCHANGED <<status, logs, report, step, seen, commits, meanwhile>>

\* So does a replay, whatever became of it.
EndReplay ==
  /\ report' = TRUE
  /\ UNCHANGED <<status, logs, beat, step, seen, commits, meanwhile>>

\* METRICS_TTL_SECONDS after the last pipeline, or the last report.
ExpireMetrics ==
  /\ beat' = [t \in Task |-> "none"]
  /\ UNCHANGED <<status, logs, report, step, seen, commits, meanwhile>>

ExpireReport ==
  /\ report' = FALSE
  /\ UNCHANGED <<status, logs, beat, step, seen, commits, meanwhile>>

-----------------------------------------------------------------------------
\* _evaluate_ops_integration_status reads the incidents, the audit log and the
\* report.
Ask ==
  /\ step < 3
  /\ step' = step + 1
  /\ seen' = CASE step = 0 -> [seen EXCEPT !.status = status]
               [] step = 1 -> [seen EXCEPT !.logs = logs]
               [] step = 2 -> [seen EXCEPT !.report = report]
  /\ UNCHANGED <<status, logs, beat, report, commits, meanwhile>>

\* _evaluate_ops_readiness reads the heartbeats and answers.
Answer ==
  /\ step = 3
  /\ step' = 0 /\ seen' = Unseen /\ meanwhile' = {}
  /\ UNCHANGED <<status, logs, beat, report, commits>>

Logged(action) == {i \in Incident : <<action, i>> \in seen.logs}

EscalationGuard ==
  /\ Logged("ESCALATED") # {}
  /\ \A i \in Logged("ESCALATED") : seen.status[i] \in {"none", "OPEN"}
AckFlow == Logged("ACK_RECEIVED") # {} \/ \E i \in Incident : seen.status[i] = "ACKNOWLEDGED"
Heartbeats == \A t \in Task : beat[t] = "ok"

\* A failed check that blocks makes the answer red, another one yellow.
Verdict ==
  IF ~ AckFlow \/ ~ seen.report \/ ~ Heartbeats THEN "red"
  ELSE IF seen.logs # {} /\ Logged("DUPLICATED_EVENT") # {} /\ EscalationGuard THEN "green"
  ELSE "yellow"

Next ==
  \/ \E i \in Incident : Create(i) \/ Duplicate(i) \/ Acknowledge(i) \/ Escalate(i) \/ Resolve(i)
  \/ \E t \in Registered, outcome \in {"ok", "error"} : EndTask(t, outcome)
  \/ EndReplay \/ ExpireMetrics \/ ExpireReport
  \/ Ask \/ Answer

Spec == Init /\ [][Next]_vars

(***************************************************************************)
(* Properties                                                              *)
(***************************************************************************)
\* An escalation takes its incident out of OPEN in the same commit: the check
\* that no incident was escalated unexpectedly passes only for incidents that
\* were written between its two queries.
GuardOnlyFromTornRead ==
  step = 3 /\ EscalationGuard => Logged("ESCALATED") \subseteq meanwhile

\* test_ops_readiness_healthy (tests/test_api.py:1282): with an acknowledgement, a
\* duplicate, an escalation, a report and the heartbeats of the tasks that run,
\* readiness is green.
HealthyIsGreen ==
  /\ step = 3
  /\ AckFlow /\ Logged("DUPLICATED_EVENT") # {} /\ Logged("ESCALATED") # {} /\ seen.report
  /\ \A t \in Registered : beat[t] = "ok"
  => Verdict = "green"
==============================================================================
