--------------------------------- MODULE Pulls ---------------------------------
(***************************************************************************)
(* SentryPull and LangfusePull side by side.  The two workers share no     *)
(* state: a behaviour belongs to one of them.  The variables that both     *)
(* modules name are used by the behaviour's worker.                        *)
(***************************************************************************)
EXTENDS Integers

CONSTANTS
  Run, Limit, MaxFaults,                       \* of both
  MaxIssue, Projects, ProjectOf,               \* SentryPull
  Observation, At, Faulty, Interval, MaxTime   \* LangfusePull

VARIABLES
  worker,                                                  \* whose behaviour this is
  created, cursor, asked, lastSeen, maxSeen, todo, unseen, \* SentryPull
  clock, filed, since, pc, began, from, faulty, late, early,   \* LangfusePull
  ingested, crowded, faults                                \* of both

sentryVars == <<created, cursor, asked, lastSeen, maxSeen, todo, unseen>>
langfuseVars == <<clock, filed, since, pc, began, from, faulty, late, early>>
vars == <<worker, sentryVars, langfuseVars, ingested, crowded, faults>>

Sentry == INSTANCE SentryPull
Langfuse == INSTANCE LangfusePull

ASSUME PullsAssumption == Sentry!SentryPullAssumption /\ Langfuse!LangfusePullAssumption

Init == worker \in {"sentry", "langfuse"} /\ Sentry!Init /\ Langfuse!Init

\* A step of the behaviour's worker leaves the other's state alone.
OfSentry == worker = "sentry" /\ UNCHANGED <<worker, langfuseVars>>
OfLangfuse == worker = "langfuse" /\ UNCHANGED <<worker, sentryVars>>

SentryStep == OfSentry /\ Sentry!Next
LangfuseStep == OfLangfuse /\ Langfuse!Next

Next == SentryStep \/ LangfuseStep

Spec == Init /\ [][Next]_vars

\* The fairness of the two modules, each for the behaviours of its worker.
FairSpec ==
  /\ Spec
  /\ \A r \in Run : WF_vars((OfSentry /\ Sentry!Proceed(r)) \/ (OfLangfuse /\ Langfuse!Proceed(r)))

TypeOK ==
  /\ worker = "sentry" => Sentry!TypeOK
  /\ worker = "langfuse" => Langfuse!TypeOK

\* What the cursor of Sentry or of Langfuse passes was ingested, or was missed
\* for one of the reasons that the two modules name.
PassedForAReason ==
  /\ worker = "sentry" => Sentry!PassedForAReason
  /\ worker = "langfuse" => Langfuse!PassedForAReason

\* Every other issue and every other faulty observation is ingested in the end.
FiledIsIngested ==
  /\ \A i \in 1 .. MaxIssue :
       worker = "sentry" /\ created >= i ~> i \in ingested \/ Sentry!Excused(i)
  /\ \A o \in Faulty :
       worker = "langfuse" /\ o \in filed ~> o \in ingested \/ Langfuse!Excused(o)
==============================================================================
