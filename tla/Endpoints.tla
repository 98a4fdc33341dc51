------------------------------- MODULE Endpoints -------------------------------
(***************************************************************************)
(* RadarPull, Matching, Directory, Readiness and Alerts side by side.      *)
(* These components share no state that any of the models keeps: a         *)
(* behaviour belongs to one of them.  Directory is extended, so that its   *)
(* action properties are those of the combined behaviours.                 *)
(***************************************************************************)
EXTENDS Directory, Integers

CONSTANTS
  Line, At, IdOf, Pull, NoLine, Limit, LookbackMin, LookbackMax, KeyTTL, Span, MaxTime,  \* RadarPull
  Null, Absent, ServiceName, MaxNames, MaxMarks, RuleList,               \* Matching
  Incident, Task, Registered, MaxCommits,                                \* Readiness
  Recent, Worker, MaxLength, MaxChanges,                                 \* Alerts
  MaxFaults

VARIABLES
  component,                                                  \* whose behaviour this is
  clock, stored, cursor, keyUntil, pc, got, todo, current, since,
  filed, handed, duplicates, burnt, late, cut, aged, faults,  \* RadarPull
  stage, names, service, line, severity, event, rules, rule,  \* Matching
  status, logs, beat, report, asked, told, commits, meanwhile,   \* Readiness
  created, acked, length, size, job, at, counted, step, seen,
  changes, stale, behind, before                                 \* Alerts

radarVars == <<clock, stored, cursor, keyUntil, pc, got, todo, current, since,
               filed, handed, duplicates, burnt, late, cut, aged>>
matchVars == <<stage, names, service, line, severity, event, rules, rule>>
readinessVars == <<status, logs, beat, report, asked, told, commits, meanwhile>>
alertVars == <<created, acked, length, size, job, at, counted, step, seen,
               changes, stale, behind, before>>
apiVars == <<component, faults, radarVars, matchVars, vars, readinessVars, alertVars>>

R == INSTANCE RadarPull WITH left <- todo
M == INSTANCE Matching
O == INSTANCE Readiness WITH step <- asked, seen <- told
A == INSTANCE Alerts WITH Incident <- Recent

ASSUME EndpointsAssumption ==
  /\ R!RadarPullAssumption
  /\ M!MatchingAssumption
  /\ DirectoryAssumption
  /\ O!ReadinessAssumption
  /\ A!AlertsAssumption

\* The components that have several initial states begin with one of them where
\* the behaviour is another's.
ApiInit ==
  /\ component \in {"radar", "matching", "directory", "readiness", "alerts"}
  /\ R!Init /\ M!MatchingInit /\ Init /\ O!Init /\ A!Init
  /\ component # "matching" => names = {}
  /\ component # "directory" => contacts = {} /\ groups = {}

OfRadar ==
  /\ component = "radar"
  /\ UNCHANGED <<component, matchVars, vars, readinessVars, alertVars>>
OfMatching ==
  /\ component = "matching"
  /\ UNCHANGED <<component, faults, radarVars, vars, readinessVars, alertVars>>
OfDirectory ==
  /\ component = "directory"
  /\ UNCHANGED <<component, faults, radarVars, matchVars, readinessVars, alertVars>>
OfReadiness ==
  /\ component = "readiness"
  /\ UNCHANGED <<component, faults, radarVars, matchVars, vars, alertVars>>
OfAlerts ==
  /\ component = "alerts"
  /\ UNCHANGED <<component, radarVars, matchVars, vars, readinessVars>>

RadarStep == OfRadar /\ R!Next
MatchingStep == OfMatching /\ M!MatchingNext
DirectoryStep == OfDirectory /\ Next
ReadinessStep == OfReadiness /\ O!Next
AlertsStep == OfAlerts /\ A!Next

ApiNext == RadarStep \/ MatchingStep \/ DirectoryStep \/ ReadinessStep \/ AlertsStep

ApiSpec == ApiInit /\ [][ApiNext]_apiVars

\* The type invariants of the five modules.
ApiTypeOK ==
  /\ component = "radar" => R!TypeOK
  /\ component = "matching" => M!MatchingTypeOK
  /\ component = "directory" => TypeOK
  /\ component = "readiness" => O!TypeOK
  /\ component = "alerts" => A!TypeOK

\* The properties of the modules.  Those of Directory, which are action
\* properties, hold of the others' behaviours as well.
HandedBounded == component = "radar" => R!HandedBounded
SkippedForAReason == component = "radar" => R!SkippedForAReason
DuplicateWasHanded == component = "radar" => R!DuplicateWasHanded
AlarmIsHeard == component = "matching" => M!AlarmIsHeard
SimulationPredicts == component = "matching" => M!SimulationPredicts
GuardOnlyFromTornRead == component = "readiness" => O!GuardOnlyFromTornRead
AlertIsReal == component = "alerts" => A!AlertIsReal
==============================================================================
