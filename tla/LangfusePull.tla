----------------------------- MODULE LangfusePull -----------------------------
(***************************************************************************)
(* langfuse_pull_worker: a cursor that is the time at which the last run   *)
(* that finished began.  A run asks for the generations that started since *)
(* the cursor, gets one page of them whatever their level, ingests the     *)
(* faulty ones, and saves its own starting time.                           *)
(*                                                                         *)
(* A generation is filed under the time it started, but it is known to     *)
(* have failed only when it has ended: by then the cursor may be past it.  *)
(***************************************************************************)
EXTENDS Integers, FiniteSets, FiniteSetsExt

CONSTANTS
  Observation, At,   \* generations, and the time each started
  Faulty,            \* those with level ERROR or a status message
  Run,               \* runs that may be active at once
  Limit,             \* observations in an answer
  Interval,          \* LANGFUSE_PULL_INTERVAL_SECONDS: how far back the first run asks
  MaxTime,           \* bound: the clock
  MaxFaults          \* bound: runs that fail half way

LangfusePullAssumption ==
  /\ IsFiniteSet(Observation) /\ Faulty \subseteq Observation
  /\ Limit \in Nat \ {0} /\ Interval \in Nat \ {0}
  /\ MaxTime \in Nat /\ At \in [Observation -> 0 .. MaxTime]
  /\ MaxFaults \in Nat

VARIABLES
  clock,
  filed,         \* what Langfuse would answer with
  since,         \* LANGFUSE_PULL_CURSOR_KEY, or Unset
  pc,            \* each run: "idle", "asking" or "ingesting"
  began, from,   \* when it began, and the cursor it read
  faulty,        \* the faulty observations of its answer that are yet to be ingested
  ingested,      \* history: those that ingest_event was called for
  late,          \* history: faulty ones filed behind the cursor, or behind a run
  crowded,       \* history: faulty ones left out of a full answer
  early,         \* history: faulty ones older than the window of the first run
  faults

run == <<pc, began, from, faulty>>
history == <<ingested, late, crowded, early>>
vars == <<clock, filed, since, run, history, faults>>

Unset == -1

TypeOK ==
  /\ clock \in 0 .. MaxTime
  /\ filed \subseteq {o \in Observation : At[o] <= clock}
  /\ since \in {Unset} \cup 0 .. clock
  /\ pc \in [Run -> {"idle", "asking", "ingesting"}]
  /\ began \in [Run -> 0 .. clock]
  /\ from \in [Run -> -Interval .. clock]
  /\ faulty \in [Run -> SUBSET (filed \cap Faulty)]
  /\ \A r \in Run : faulty[r] # {} => pc[r] = "ingesting" /\ Cardinality(faulty[r]) <= Limit
  /\ \A S \in {ingested, late, crowded, early} : S \subseteq filed \cap Faulty
  /\ faults \in 0 .. MaxFaults

Init ==
  /\ clock = 0
  /\ filed = {}
  /\ since = Unset
  /\ pc = [r \in Run |-> "idle"]
  /\ began = [r \in Run |-> 0] /\ from = [r \in Run |-> 0]
  /\ faulty = [r \in Run |-> {}]
  /\ ingested = {} /\ late = {} /\ crowded = {} /\ early = {}
  /\ faults = 0

-----------------------------------------------------------------------------
Tick == clock < MaxTime /\ clock' = clock + 1 /\ UNCHANGED <<filed, since, run, history, faults>>

\* An observation is filed, in its final state, under the time it started.
Behind(o) ==
  \/ At[o] < since
  \/ \E r \in Run : \/ pc[r] # "idle" /\ At[o] < from[r]
                    \/ pc[r] = "ingesting" /\ At[o] < began[r]

File(o) ==
  /\ o \notin filed /\ At[o] <= clock
  /\ filed' = filed \cup {o}
  /\ late' = IF o \in Faulty /\ Behind(o) THEN late \cup {o} ELSE late
  /\ UNCHANGED <<clock, since, run, ingested, crowded, early, faults>>

\* The run takes its starting time and reads the cursor.
Begin(r) ==
  LET back == IF since = Unset THEN clock - Interval ELSE since IN
  /\ pc[r] = "idle"
  /\ pc' = [pc EXCEPT ![r] = "asking"]
  /\ began' = [began EXCEPT ![r] = clock]
  /\ from' = [from EXCEPT ![r] = back]
  /\ early' = IF since = Unset THEN early \cup {o \in filed \cap Faulty : At[o] < back} ELSE early
  /\ UNCHANGED <<clock, filed, since, faulty, ingested, late, crowded, faults>>

\* It asks for the generations that started since then and gets one page, of
\* which it keeps the faulty ones.
Ask(r, page) ==
  LET window == {o \in filed : At[o] >= from[r]} IN
  /\ pc[r] = "asking"
  /\ page \subseteq window
  /\ page = window \/ Cardinality(page) = Limit
  /\ Cardinality(page) <= Limit
  /\ pc' = [pc EXCEPT ![r] = "ingesting"]
  /\ faulty' = [faulty EXCEPT ![r] = page \cap Faulty]
  /\ crowded' = crowded \cup ((window \ page) \cap Faulty)
  /\ UNCHANGED <<clock, filed, since, began, from, ingested, late, early, faults>>

IngestOne(r, o) ==
  /\ o \in faulty[r]
  /\ ingested' = ingested \cup {o}
  /\ faulty' = [faulty EXCEPT ![r] = @ \ {o}]
  /\ UNCHANGED <<clock, filed, since, pc, began, from, late, crowded, early, faults>>

\* The end of a run, and of its local variables.
Leave(r) ==
  /\ pc' = [pc EXCEPT ![r] = "idle"]
  /\ began' = [began EXCEPT ![r] = 0]
  /\ from' = [from EXCEPT ![r] = 0]
  /\ faulty' = [faulty EXCEPT ![r] = {}]

\* Names that begin with Mutant are the faults that the checked properties
\* must notice; nothing else uses them.

\* The cursor is the time at which the run ends.
MutantSaveSince(r) ==
  /\ pc[r] = "ingesting" /\ faulty[r] = {}
  /\ since' = clock
  /\ Leave(r)
  /\ UNCHANGED <<clock, filed, history, faults>>

\* The cursor of a run is its starting time, also when a run that began later
\* has already saved its own.
SaveSince(r) ==
  /\ pc[r] = "ingesting" /\ faulty[r] = {}
  /\ since' = began[r]
  /\ Leave(r)
  /\ UNCHANGED <<clock, filed, history, faults>>

\* Langfuse, PostgreSQL, Redis or the broker refuses a call, or the worker dies:
\* the cursor stays.
Abort(r) ==
  /\ pc[r] # "idle"
  /\ faults < MaxFaults
  /\ faults' = faults + 1
  /\ Leave(r)
  /\ UNCHANGED <<clock, filed, since, history>>

Proceed(r) ==
  \/ Begin(r) \/ SaveSince(r)
  \/ \E page \in SUBSET filed : Ask(r, page)
  \/ \E o \in Faulty : IngestOne(r, o)

Next ==
  \/ Tick \/ \E o \in Observation : File(o)
  \/ \E r \in Run : Proceed(r) \/ Abort(r)

Spec == Init /\ [][Next]_vars

\* Beat sends the task every interval, and a run that has begun goes on.
Fairness == \A r \in Run : WF_vars(Proceed(r))

(***************************************************************************)
(* Properties                                                              *)
(***************************************************************************)
\* Why a faulty observation may stay unknown.
Excused(o) == o \in late \cup crowded \cup early

\* The cursor passes a faulty observation without ingesting it only if it was
\* filed behind the cursor or behind a run that had asked, did not fit into a
\* page, or is older than the first window, whatever runs overlap, fail or set
\* the cursor back.
PassedForAReason == \A o \in filed \cap Faulty : At[o] < since => o \in ingested \/ Excused(o)

\* Every other faulty observation is ingested in the end.
ObservationIsIngested == \A o \in Faulty : o \in filed ~> o \in ingested \/ Excused(o)
==============================================================================
