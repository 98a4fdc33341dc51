--------------------------------- MODULE Alerts ---------------------------------
(***************************************************************************)
(* /alerts/ops: the size of the dead-letter list and the rate of           *)
(* acknowledgements that it alerts of, next to the writers of both.        *)
(*                                                                         *)
(* Whoever changes the list asks Redis for its length and writes that to   *)
(* the field dlq_size of the metrics, in two commands.  The endpoint reads *)
(* the field, the list and PostgreSQL one after the other.                 *)
(***************************************************************************)
EXTENDS Integers, FiniteSets

CONSTANTS
  Incident,
  Worker,      \* processes that change the list
  MaxLength,   \* bound: entries of the list
  MaxChanges,  \* bound: changes of the list
  MaxFaults    \* bound: workers that die or lose Redis

AlertsAssumption ==
  IsFiniteSet(Incident) /\ MaxLength \in Nat /\ MaxChanges \in Nat /\ MaxFaults \in Nat

VARIABLES
  created, acked,  \* the incidents of the last 24 hours, those with acknowledged_at
  length,          \* of the list
  size,            \* dlq_size, Missing if the metrics have no such field
  job, at,         \* each worker: what it does and where it is
  counted,         \* ... and the length it was told
  step,            \* statements the endpoint has made, 0: it is not at work
  seen,            \* what they returned
  changes, faults,
  stale,           \* history: workers that were told of a length that has changed since
  behind,          \* history: the last refresh was stale, or one was not made
  before           \* history: of the first statement, the incidents and the list,
                   \* and whether its length was in the metrics

Missing == -1
Unseen == [size |-> Missing, length |-> 0, total |-> 0]
NotBefore == [created |-> {}, length |-> 0, fresh |-> TRUE]

incidents == <<created, acked>>
workers == <<job, at, counted, stale>>
endpoint == <<step, seen, before>>
vars == <<incidents, length, size, workers, behind, endpoint, changes, faults>>

TypeOK ==
  /\ acked \subseteq created /\ created \subseteq Incident
  /\ length \in 0 .. MaxLength /\ size \in Missing .. MaxLength
  /\ job \in [Worker -> {"none", "push", "replay", "prune"}]
  /\ at \in [Worker -> {"idle", "changed", "counted", "written"}]
  /\ counted \in [Worker -> 0 .. MaxLength]
  /\ step \in 0 .. 3
  /\ seen \in [size : Missing .. MaxLength, length : 0 .. MaxLength, total : Nat]
  /\ before \in [created : SUBSET created, length : 0 .. MaxLength, fresh : BOOLEAN]
  /\ changes \in 0 .. MaxChanges /\ faults \in 0 .. MaxFaults
  /\ stale \subseteq {w \in Worker : at[w] = "counted"} /\ behind \in BOOLEAN

Init ==
  /\ created = {} /\ acked = {}
  /\ length = 0 /\ size = Missing
  /\ job = [w \in Worker |-> "none"]
  /\ at = [w \in Worker |-> "idle"] /\ counted = [w \in Worker |-> 0]
  /\ step = 0 /\ seen = Unseen /\ before = NotBefore
  /\ changes = 0 /\ faults = 0
  /\ stale = {} /\ behind = FALSE

-----------------------------------------------------------------------------
Create(i) ==
  /\ created' = created \cup {i}
  /\ UNCHANGED <<acked, length, size, workers, behind, endpoint, changes, faults>>

Acknowledge(i) ==
  /\ i \in created
  /\ acked' = acked \cup {i}
  /\ UNCHANGED <<created, length, size, workers, behind, endpoint, changes, faults>>

-----------------------------------------------------------------------------
Goto(w, place) == at' = [at EXCEPT ![w] = place]

\* The list gets another length: what the others were told is out of date.
Resize(w, n) ==
  /\ length' = n
  /\ IF n = length THEN UNCHANGED <<changes, stale>>
     ELSE /\ changes < MaxChanges /\ changes' = changes + 1
          /\ stale' = {v \in Worker : at[v] = "counted"}
  /\ Goto(w, "changed")
  /\ UNCHANGED <<incidents, size, counted, behind, endpoint, faults>>

\* _push_dlq_entry appends an entry and drops what is too much ...
Push(w) ==
  /\ at[w] = "idle"
  /\ length < MaxLength
  /\ job' = [job EXCEPT ![w] = "push"]
  /\ Resize(w, length + 1)

Trim(w) ==
  /\ job[w] = "push" /\ at[w] = "changed"
  /\ length > 0
  /\ Resize(w, length - 1)
  /\ UNCHANGED job

\* ... replay_dlq removes one entry after the other, prune_dlq many at once; both
\* may find nothing to remove.
Replay(w, n) ==
  /\ \/ at[w] = "idle"
     \/ job[w] = "replay" /\ at[w] = "written"
  /\ n \in {length, length - 1}
  /\ job' = [job EXCEPT ![w] = "replay"]
  /\ Resize(w, n)

Prune(w, n) ==
  /\ at[w] = "idle"
  /\ n <= length
  /\ job' = [job EXCEPT ![w] = "prune"]
  /\ Resize(w, n)

\* _refresh_dlq_metric asks for the length ...
Count(w) ==
  /\ at[w] = "changed"
  /\ counted' = [counted EXCEPT ![w] = length]
  /\ Goto(w, "counted")
  /\ UNCHANGED <<incidents, length, size, job, stale, behind, endpoint, changes, faults>>

\* ... and writes it.
Refresh(w) ==
  /\ at[w] = "counted"
  /\ size' = counted[w]
  /\ behind' = (w \in stale)
  /\ stale' = stale \ {w}
  /\ counted' = [counted EXCEPT ![w] = 0]
  /\ Goto(w, "written")
  /\ UNCHANGED <<incidents, length, job, endpoint, changes, faults>>

\* A worker leaves its job, perhaps before the refresh.
Leave(w) ==
  /\ job' = [job EXCEPT ![w] = "none"]
  /\ Goto(w, "idle")
  /\ counted' = [counted EXCEPT ![w] = 0]
  /\ stale' = stale \ {w}
  /\ behind' = (behind \/ at[w] \in {"changed", "counted"})
  /\ UNCHANGED <<incidents, length, size, endpoint, changes>>

Finish(w) == at[w] = "written" /\ Leave(w) /\ UNCHANGED faults

\* A command raises, or the process dies.
Fail(w) ==
  /\ at[w] # "idle"
  /\ faults < MaxFaults /\ faults' = faults + 1
  /\ Leave(w)

\* Nothing was written to the metrics for METRICS_TTL_SECONDS.
Expire ==
  /\ size' = Missing
  /\ behind' = FALSE
  /\ UNCHANGED <<incidents, length, workers, endpoint, changes, faults>>

-----------------------------------------------------------------------------
\* Names that begin with Mutant are the faults that the checked properties
\* must notice; nothing else uses them.

\* Somebody has changed the list and has not refreshed the field yet.
Refreshing == \E w \in Worker : at[w] \in {"changed", "counted"}

\* get_ops_alerts reads the metrics, the list and the number of incidents.
Ask ==
  /\ step < 3
  /\ step' = step + 1
  /\ seen' = CASE step = 0 -> [seen EXCEPT !.size = size]
               [] step = 1 -> [seen EXCEPT !.length = length]
               [] step = 2 -> [seen EXCEPT !.total = Cardinality(created)]
  /\ before' = IF step > 0 THEN before
               ELSE [created |-> created, length |-> length, fresh |-> ~ behind /\ ~ Refreshing]
  /\ UNCHANGED <<incidents, length, size, workers, behind, changes, faults>>

\* The last query is for the number of acknowledged incidents.
Answer ==
  /\ step = 3
  /\ step' = 0 /\ seen' = Unseen /\ before' = NotBefore
  /\ UNCHANGED <<incidents, length, size, workers, behind, changes, faults>>

\* Only the field counts.
MutantAlertSize == IF seen.size = Missing THEN 0 ELSE seen.size

\* _build_operational_alerts takes the field, or else the list.
AlertSize == IF seen.size \in {Missing, 0} THEN seen.length ELSE seen.size

Next ==
  \/ \E i \in Incident : Create(i) \/ Acknowledge(i)
  \/ \E w \in Worker :
       \/ Push(w) \/ Trim(w) \/ Count(w) \/ Refresh(w) \/ Finish(w) \/ Fail(w)
       \/ \E n \in 0 .. MaxLength : Replay(w, n) \/ Prune(w, n)
  \/ Expire \/ Ask \/ Answer

Spec == Init /\ [][Next]_vars

(***************************************************************************)
(* Properties                                                              *)
(***************************************************************************)
\* The number of dead letters in an alert is a length the list had when it was
\* read, unless a refresh was on its way, had failed, or had been overtaken by
\* the change of another worker.  More incidents are acknowledged than there are
\* only if one was created between the two queries.
AlertIsReal ==
  step = 3 =>
    /\ AlertSize \in {before.length, seen.length} \/ ~ before.fresh
    /\ Cardinality(acked) > seen.total => acked \ before.created # {}
==============================================================================
