------------------------------ MODULE SentryPull ------------------------------
(***************************************************************************)
(* sentry_pull_worker: one cursor, the highest issue id that was ingested, *)
(* for all projects of the organisation.  A run reads the cursor once,     *)
(* asks for the newest issues of one project after the other, ingests      *)
(* those above the cursor, and saves the highest id it saw at its end.     *)
(*                                                                         *)
(* Sentry numbers issues across projects, so an id that one project's      *)
(* answer did not contain yet may be passed by another project's answer.   *)
(***************************************************************************)
EXTENDS Integers, FiniteSets, FiniteSetsExt

CONSTANTS
  MaxIssue,    \* bound: issues, numbered in the order of their creation
  Projects,    \* projects are 1 .. Projects, in the order they are asked
  ProjectOf,   \* the project of each issue
  Run,         \* runs that may be active at once
  Limit,       \* issues in an answer
  MaxFaults    \* bound: runs that fail half way

Issue == 1 .. MaxIssue

SentryPullAssumption ==
  /\ MaxIssue \in Nat /\ Projects \in Nat \ {0}
  /\ ProjectOf \in [Issue -> 1 .. Projects]
  /\ Limit \in Nat \ {0}
  /\ MaxFaults \in Nat

VARIABLES
  created,     \* the id of the newest issue
  cursor,      \* SENTRY_PULL_CURSOR_KEY
  asked,       \* each run: how many projects it has asked, or "idle"
  lastSeen, maxSeen,
  todo,        \* the issues of the last answer that are yet to be looked at
  ingested,    \* history: issues that ingest_event was called for
  unseen,      \* history: issues created behind a run that had asked their project
  crowded,     \* history: issues left out of a full answer
  faults

run == <<asked, lastSeen, maxSeen, todo>>
history == <<ingested, unseen, crowded>>
vars == <<created, cursor, run, history, faults>>

TypeOK ==
  /\ created \in 0 .. MaxIssue
  /\ cursor \in 0 .. created
  /\ asked \in [Run -> {-1} \cup 0 .. Projects]
  /\ lastSeen \in [Run -> 0 .. created]
  /\ maxSeen \in [Run -> 0 .. created] /\ \A r \in Run : lastSeen[r] <= maxSeen[r]
  /\ todo \in [Run -> SUBSET (1 .. created)]
  /\ \A r \in Run : todo[r] # {} => asked[r] > 0
  /\ ingested \subseteq 1 .. created
  /\ unseen \subseteq 1 .. created
  /\ crowded \subseteq 1 .. created
  /\ faults \in 0 .. MaxFaults

Idle == -1

Init ==
  /\ created = 0
  /\ cursor = 0
  /\ asked = [r \in Run |-> Idle]
  /\ lastSeen = [r \in Run |-> 0]
  /\ maxSeen = [r \in Run |-> 0]
  /\ todo = [r \in Run |-> {}]
  /\ ingested = {} /\ unseen = {} /\ crowded = {}
  /\ faults = 0

-----------------------------------------------------------------------------
Active(r) == asked[r] # Idle

\* Sentry files an issue.
Create ==
  LET i == created + 1 IN
  /\ created < MaxIssue
  /\ created' = i
  /\ unseen' = IF \E r \in Run : Active(r) /\ asked[r] >= ProjectOf[i]
               THEN unseen \cup {i} ELSE unseen
  /\ UNCHANGED <<cursor, run, ingested, crowded, faults>>

\* The run reads the cursor and the list of projects.
Start(r) ==
  /\ ~ Active(r)
  /\ asked' = [asked EXCEPT ![r] = 0]
  /\ lastSeen' = [lastSeen EXCEPT ![r] = cursor]
  /\ maxSeen' = [maxSeen EXCEPT ![r] = cursor]
  /\ UNCHANGED <<created, cursor, todo, history, faults>>

\* It asks the next project for its issues, those last seen first, and gets no
\* more than the limit.
Ask(r, S) ==
  LET here == {i \in 1 .. created : ProjectOf[i] = asked[r] + 1} IN
  /\ Active(r) /\ asked[r] < Projects
  /\ todo[r] = {}
  /\ S \subseteq here
  /\ S = here \/ Cardinality(S) = Limit
  /\ Cardinality(S) <= Limit
  /\ asked' = [asked EXCEPT ![r] = @ + 1]
  /\ todo' = [todo EXCEPT ![r] = S]
  /\ crowded' = crowded \cup (here \ S)
  /\ UNCHANGED <<created, cursor, lastSeen, maxSeen, ingested, unseen, faults>>

\* Names that begin with Mutant are the faults that the checked properties
\* must notice; nothing else uses them.

\* The highest id is the last one looked at.
MutantLookAt(r) ==
  LET i == Min(todo[r]) IN
  /\ todo[r] # {}
  /\ todo' = [todo EXCEPT ![r] = @ \ {i}]
  /\ ingested' = IF i > lastSeen[r] THEN ingested \cup {i} ELSE ingested
  /\ maxSeen' = [maxSeen EXCEPT ![r] = i]
  /\ UNCHANGED <<created, cursor, asked, lastSeen, unseen, crowded, faults>>

\* Issues are compared with the highest id seen, not with the cursor.
MutantCompare(r) ==
  LET i == Min(todo[r]) IN
  /\ todo[r] # {}
  /\ todo' = [todo EXCEPT ![r] = @ \ {i}]
  /\ ingested' = IF i > maxSeen[r] THEN ingested \cup {i} ELSE ingested
  /\ maxSeen' = [maxSeen EXCEPT ![r] = Max({@, i})]
  /\ UNCHANGED <<created, cursor, asked, lastSeen, unseen, crowded, faults>>

\* Issues in the order of their ids: those above the cursor are ingested.
LookAt(r) ==
  LET i == Min(todo[r]) IN
  /\ todo[r] # {}
  /\ todo' = [todo EXCEPT ![r] = @ \ {i}]
  /\ IF i > lastSeen[r]
     THEN /\ ingested' = ingested \cup {i}
          /\ maxSeen' = [maxSeen EXCEPT ![r] = Max({@, i})]
     ELSE UNCHANGED <<ingested, maxSeen>>
  /\ UNCHANGED <<created, cursor, asked, lastSeen, unseen, crowded, faults>>

\* The end of a run, and of its local variables.
Leave(r) ==
  /\ asked' = [asked EXCEPT ![r] = Idle]
  /\ todo' = [todo EXCEPT ![r] = {}]
  /\ lastSeen' = [lastSeen EXCEPT ![r] = 0]
  /\ maxSeen' = [maxSeen EXCEPT ![r] = 0]

\* After the last project the cursor is saved if it has grown since the run
\* began; a run that began earlier may set it back.
Finish(r) ==
  /\ asked[r] = Projects
  /\ todo[r] = {}
  /\ cursor' = IF maxSeen[r] > lastSeen[r] THEN maxSeen[r] ELSE cursor
  /\ Leave(r)
  /\ UNCHANGED <<created, history, faults>>

\* Sentry, PostgreSQL or the broker refuses a call, or the worker dies.
Fail(r) ==
  /\ Active(r)
  /\ faults < MaxFaults
  /\ faults' = faults + 1
  /\ Leave(r)
  /\ UNCHANGED <<created, cursor, history>>

Proceed(r) ==
  \/ Start(r) \/ LookAt(r) \/ Finish(r)
  \/ \E S \in SUBSET (1 .. created) : Ask(r, S)

Next ==
  \/ Create
  \/ \E r \in Run : Proceed(r) \/ Fail(r)

Spec == Init /\ [][Next]_vars

\* Beat sends the task again and again, and a run that has begun goes on.
Fairness == \A r \in Run : WF_vars(Proceed(r))

(***************************************************************************)
(* Properties                                                              *)
(***************************************************************************)
\* Why an issue may stay unknown.
Excused(i) == i \in unseen \cup crowded

\* The cursor passes an issue without ingesting it only if the issue was filed
\* behind a run that had already asked its project, or did not fit into an
\* answer, whatever runs overlap or fail.
PassedForAReason == \A i \in 1 .. cursor : i \in ingested \/ Excused(i)

\* Every other issue is ingested in the end.
IssueIsIngested == \A i \in Issue : created >= i ~> i \in ingested \/ Excused(i)
==============================================================================
