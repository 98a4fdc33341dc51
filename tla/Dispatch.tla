------------------------------- MODULE Dispatch -------------------------------
(***************************************************************************)
(* dispatch_incident and _handle_escalation_impl: how one incident becomes *)
(* notification rows and channel messages, one for each target, that is    *)
(* each (contact, channel) pair of the recipient or the fallback group.    *)
(*                                                                         *)
(* A process is a task message.  Several dispatcher messages of the same   *)
(* incident may run at once, because a retriggering event sends another.   *)
(* A message whose worker dies is delivered again from the start; one      *)
(* whose task raises is acknowledged and gone.                             *)
(***************************************************************************)
EXTENDS Integers, FiniteSets

CONSTANTS
  Target,          \* (contact, channel) pairs
  Recipient,       \* the targets of the rule's group and channels
  Fallback,        \* the targets of its fallback policy
  Enabled,         \* the targets whose channel the severity lets through
  Mute,            \* the targets on WHATSAPP or CALENDAR, which no task sends
  Policies,        \* what fallback_policy_json may be: "none", "invalid", "valid"
  MaxRows,         \* bound: rows of the notifications table for the incident
  Dispatcher, Escalator,
  NoTarget,
  MaxRetries,      \* CELERY_TASK_MAX_RETRIES
  MaxFaults        \* bound: crashes and exceptions

Proc == Dispatcher \cup Escalator
Row == 1 .. MaxRows
NoRow == 0

ASSUME DispatchAssumption ==
  /\ Recipient \subseteq Target /\ Fallback \subseteq Target
  /\ Enabled \subseteq Target /\ Mute \subseteq Target
  /\ Policies \subseteq {"none", "invalid", "valid"}
  /\ Dispatcher \cap Escalator = {} /\ IsFiniteSet(Proc)
  /\ NoTarget \notin Target
  /\ MaxRows \in Nat /\ MaxRetries \in Nat /\ MaxFaults \in Nat

VARIABLES
  incident,    \* incidents.status
  target,      \* the notifications table: the target of each row
  delivered,   \* rows in a terminal status
  notes,       \* TASK_QUEUED and FALLBACK_TASK_QUEUED entries of each row
  fallbacks,   \* ... of which FALLBACK_TASK_QUEUED
  queued,      \* channel messages sent for each row
  dlq,         \* messages with an entry in the dead-letter queue
  pc,
  todo,        \* targets of the message that are yet to be looked up
  collected,   \* rows that are yet to be queued
  looking,     \* the target that has no row
  holding,     \* the row whose audit entry is committed
  faults

table == <<target, delivered>>
logs == <<notes, fallbacks>>
local == <<todo, collected, looking, holding>>
vars == <<incident, table, logs, queued, dlq, pc, local, faults>>

Ended == {"done", "failed"}
Working == {"policy", "expanding", "inserting", "noted"}

TypeOK ==
  /\ incident \in {"OPEN", "ESCALATED", "CLOSED"}
  /\ target \in [Row -> Target \cup {NoTarget}]
  /\ delivered \subseteq {w \in Row : target[w] # NoTarget}
  /\ notes \in [Row -> Nat] /\ fallbacks \in [Row -> Nat] /\ queued \in [Row -> Nat]
  /\ dlq \subseteq Escalator
  /\ pc \in [Proc -> {"queued"} \cup Working \cup Ended]
  /\ todo \in [Proc -> SUBSET Target]
  /\ collected \in [Proc -> SUBSET {w \in Row : target[w] # NoTarget}]
  /\ looking \in [Proc -> Target \cup {NoTarget}]
  /\ holding \in [Proc -> Row \cup {NoRow}]
  /\ faults \in 0 .. MaxFaults

Init ==
  /\ incident = "OPEN"
  /\ target = [w \in Row |-> NoTarget]
  /\ delivered = {}
  /\ notes = [w \in Row |-> 0]
  /\ fallbacks = [w \in Row |-> 0]
  /\ queued = [w \in Row |-> 0]
  /\ dlq = {}
  /\ pc = [p \in Proc |-> "queued"]
  /\ todo = [p \in Proc |-> {}]
  /\ collected = [p \in Proc |-> {}]
  /\ looking = [p \in Proc |-> NoTarget]
  /\ holding = [p \in Proc |-> NoRow]
  /\ faults = 0

-----------------------------------------------------------------------------
Goto(p, place) == pc' = [pc EXCEPT ![p] = place]
\* Names that begin with Mutant are the faults that the checked properties
\* must notice; nothing else uses them.

\* Only rows that have been queued before are found.
MutantRowsOf(t) == {w \in Row : target[w] = t /\ notes[w] > 0}

RowsOf(t) == {w \in Row : target[w] = t}

\* The group members times the channels that _channel_enabled_for_incident lets
\* through.
Plan(p) == Enabled \cap (IF p \in Dispatcher THEN Recipient ELSE Fallback)

\* The dispatcher reads the incident, its rule and the group; it does not look
\* at the incident's status.
Begin(d) ==
  /\ pc[d] = "queued"
  /\ todo' = [todo EXCEPT ![d] = Plan(d)]
  /\ Goto(d, "expanding")
  /\ UNCHANGED <<incident, table, logs, queued, dlq, collected, looking, holding, faults>>

\* The status is not looked at.
MutantEscalate(e) ==
  /\ pc[e] = "queued"
  /\ incident' = "ESCALATED"
  /\ Goto(e, "policy")
  /\ UNCHANGED <<table, logs, queued, dlq, local, faults>>

\* The escalation locks the incident and commits the new status.
Escalate(e) ==
  /\ pc[e] = "queued"
  /\ \/ /\ incident = "OPEN"
        /\ incident' = "ESCALATED"
        /\ Goto(e, "policy")
     \/ /\ incident # "OPEN"
        /\ Goto(e, "done")
        /\ UNCHANGED incident
  /\ UNCHANGED <<table, logs, queued, dlq, local, faults>>

\* Then it reads the fallback policy of the rule.
LoadFallback(e, policy) ==
  /\ pc[e] = "policy"
  /\ \/ /\ policy = "valid"
        /\ todo' = [todo EXCEPT ![e] = Plan(e)]
        /\ Goto(e, "expanding")
     \/ /\ policy # "valid"
        /\ Goto(e, "done")
        /\ UNCHANGED todo
  /\ UNCHANGED <<incident, table, logs, queued, dlq, collected, looking, holding, faults>>

-----------------------------------------------------------------------------
\* Only the rows that this delivery creates are queued.
MutantLook(p, t) ==
  /\ pc[p] = "expanding"
  /\ t \in todo[p]
  /\ IF RowsOf(t) = {}
     THEN Goto(p, "inserting") /\ looking' = [looking EXCEPT ![p] = t] /\ UNCHANGED todo
     ELSE todo' = [todo EXCEPT ![p] = @ \ {t}] /\ UNCHANGED <<pc, looking>>
  /\ UNCHANGED <<incident, table, logs, queued, dlq, collected, holding, faults>>

\* The query of _get_or_create_notification, which takes no lock.  The
\* dispatcher looks all its targets up before it queues any; the escalation
\* takes them one at a time.  A delivered row needs no message.
Look(p, t) ==
  /\ pc[p] = "expanding"
  /\ t \in todo[p]
  /\ p \in Escalator => collected[p] = {}
  /\ \/ \E w \in RowsOf(t) :
          /\ collected' = [collected EXCEPT ![p] = IF w \in delivered THEN @ ELSE @ \cup {w}]
          /\ todo' = [todo EXCEPT ![p] = @ \ {t}]
          /\ UNCHANGED <<pc, looking>>
     \/ /\ RowsOf(t) = {}
        /\ looking' = [looking EXCEPT ![p] = t]
        /\ Goto(p, "inserting")
        /\ UNCHANGED <<collected, todo>>
  /\ UNCHANGED <<incident, table, logs, queued, dlq, holding, faults>>

\* Its INSERT and commit; the new row is the first one that is free.
Insert(p, w) ==
  LET t == looking[p] IN
  /\ pc[p] = "inserting"
  /\ \A v \in 1 .. w : target[v] = NoTarget <=> v = w
  /\ target' = [target EXCEPT ![w] = t]
  /\ collected' = [collected EXCEPT ![p] = @ \cup {w}]
  /\ todo' = [todo EXCEPT ![p] = @ \ {t}]
  /\ looking' = [looking EXCEPT ![p] = NoTarget]
  /\ Goto(p, "expanding")
  /\ UNCHANGED <<incident, delivered, logs, queued, dlq, holding, faults>>

\* The entry is added to the session and not committed.
MutantNote(p, w) ==
  /\ pc[p] = "expanding"
  /\ w \in collected[p]
  /\ holding' = [holding EXCEPT ![p] = w]
  /\ Goto(p, "noted")
  /\ UNCHANGED <<incident, table, logs, queued, dlq, todo, collected, looking, faults>>

\* The audit entry of a collected row is committed ...
Note(p, w) ==
  /\ pc[p] = "expanding"
  /\ w \in collected[p]
  /\ p \in Dispatcher => todo[p] = {}
  /\ notes' = [notes EXCEPT ![w] = @ + 1]
  /\ fallbacks' = IF p \in Escalator THEN [fallbacks EXCEPT ![w] = @ + 1] ELSE fallbacks
  /\ holding' = [holding EXCEPT ![p] = w]
  /\ Goto(p, "noted")
  /\ UNCHANGED <<incident, table, queued, dlq, todo, collected, looking, faults>>

\* ... and then its channel message is sent, if its channel has a task:
\* _queue_channel_send returns in silence for the others.
Queue(p) ==
  LET w == holding[p] IN
  /\ pc[p] = "noted"
  /\ queued' = IF target[w] \in Mute THEN queued ELSE [queued EXCEPT ![w] = @ + 1]
  /\ collected' = [collected EXCEPT ![p] = @ \ {w}]
  /\ holding' = [holding EXCEPT ![p] = NoRow]
  /\ Goto(p, "expanding")
  /\ UNCHANGED <<incident, table, logs, dlq, todo, looking, faults>>

\* The task returns and its message is acknowledged.
Finish(p) ==
  /\ pc[p] = "expanding"
  /\ todo[p] = {}
  /\ collected[p] = {}
  /\ Goto(p, "done")
  /\ UNCHANGED <<incident, table, logs, queued, dlq, local, faults>>

-----------------------------------------------------------------------------
Forget(p) ==
  /\ todo' = [todo EXCEPT ![p] = {}]
  /\ collected' = [collected EXCEPT ![p] = {}]
  /\ looking' = [looking EXCEPT ![p] = NoTarget]
  /\ holding' = [holding EXCEPT ![p] = NoRow]

Fault == faults < MaxFaults /\ faults' = faults + 1

\* The message was acknowledged before the task ran.
MutantCrash(p) ==
  /\ pc[p] \in Working
  /\ Fault
  /\ Forget(p)
  /\ Goto(p, "done")
  /\ UNCHANGED <<incident, table, logs, queued, dlq>>

\* The worker dies: the message is delivered again.
Crash(p) ==
  /\ pc[p] \in Working
  /\ Fault
  /\ Forget(p)
  /\ Goto(p, "queued")
  /\ UNCHANGED <<incident, table, logs, queued, dlq>>

\* Every task is kept, whatever its name.
MutantRaise(p) ==
  /\ pc[p] \in Working
  /\ Fault
  /\ Forget(p)
  /\ Goto(p, "failed")
  /\ dlq' = dlq \cup {p}
  /\ UNCHANGED <<incident, table, logs, queued>>

\* PostgreSQL or the broker refuses a call: the task raises, has no retry, and
\* _on_task_failure keeps an entry only of an escalation without retries.
Raise(p) ==
  /\ pc[p] \in Working
  /\ Fault
  /\ Forget(p)
  /\ Goto(p, "failed")
  /\ dlq' = IF p \in Escalator /\ MaxRetries = 0 THEN dlq \cup {p} ELSE dlq
  /\ UNCHANGED <<incident, table, logs, queued>>

\* A channel worker delivers a row it has a message for.
Deliver(w) ==
  /\ queued[w] > 0
  /\ delivered' = delivered \cup {w}
  /\ UNCHANGED <<incident, target, logs, queued, dlq, pc, local, faults>>

\* Somebody acknowledges or resolves the incident.
Close ==
  /\ incident # "CLOSED"
  /\ incident' = "CLOSED"
  /\ UNCHANGED <<table, logs, queued, dlq, pc, local, faults>>

-----------------------------------------------------------------------------
Expand(p) ==
  \/ \E t \in Target : Look(p, t)
  \/ \E w \in Row : Insert(p, w) \/ Note(p, w)
  \/ Queue(p) \/ Finish(p)

Run(p) ==
  \/ p \in Dispatcher /\ Begin(p)
  \/ p \in Escalator /\ (Escalate(p) \/ \E policy \in Policies : LoadFallback(p, policy))
  \/ Expand(p)

Next ==
  \/ \E p \in Proc : Run(p) \/ Crash(p) \/ Raise(p)
  \/ \E w \in Row : Deliver(w)
  \/ Close

Spec == Init /\ [][Next]_vars

\* Celery runs every message it delivers.
FairSpec == Spec /\ \A p \in Proc : WF_vars(Run(p))

(***************************************************************************)
(* Properties                                                              *)
(***************************************************************************)
\* A target has been reached when a row of it is delivered or has a message.
Reached(t) == \E w \in RowsOf(t) : w \in delivered \/ queued[w] > 0

\* The targets of a dispatcher whose channel has a task.
Audible(d) == Plan(d) \ Mute

\* A dispatcher that ended has reached every target, also those whose rows an
\* earlier delivery of its message or another message had created and left
\* (dispatch_incident keeps an existing row unless it is terminal).  Except a
\* target on WHATSAPP or CALENDAR: it has a row and a TASK_QUEUED entry, and no
\* message is ever sent to it.
DoneReachesAll ==
  \A d \in Dispatcher : pc[d] = "done" => \A t \in Audible(d) : Reached(t)

\* No channel message without its TASK_QUEUED entry, whatever died in between.
QueuedIsNoted == \A w \in Row : queued[w] <= notes[w]

\* However escalations, acknowledgements and crashes interleave, the fallback
\* of the incident is queued once.
FallbackOnce == \A w \in Row : fallbacks[w] <= 1

\* A dispatcher message is not lost with its worker: every target that a task
\* sends to is reached in the end, unless the task raised.
MessageReachesAll ==
  \A d \in Dispatcher : pc[d] = "queued" ~>
    pc[d] = "failed" \/ \A t \in Audible(d) : Reached(t)

\* "Reexecucao de task nao cria duplicidade de notificacao": a message creates at
\* most one row for a target, however often it is delivered.  (Two messages of
\* one incident may each create one: nothing makes them exclude each other.)
OneRowPerMessage ==
  \A t \in Target :
    Cardinality({w \in Row : target[w] = t}) <= Cardinality({p \in Proc : t \in Plan(p)})
==============================================================================
