--------------------------- MODULE IncidentLifecycle ---------------------------
(***************************************************************************)
(* The status of an incident and everything that writes it: the API's      *)
(* acknowledge and resolve requests, the voice callback, the escalation    *)
(* and the stale-incident sweeper, next to the voice senders that lock the *)
(* notifications the callbacks answer.                                     *)
(*                                                                         *)
(* The requests differ in how they hold the incident's row.  A callback    *)
(* and an escalation read it FOR UPDATE.  The API and the sweeper read it  *)
(* without a lock and write back at commit what they decided then.  A      *)
(* sender touches it only through the foreign key of the audit entry it    *)
(* inserts, which takes FOR KEY SHARE: that waits for FOR UPDATE, but not  *)
(* for an UPDATE of other columns.                                         *)
(***************************************************************************)
EXTENDS Integers, FiniteSets

CONSTANTS
  Incident,
  Notification,    \* voice notifications
  IncidentOf,      \* notifications.incident_id
  Operator,        \* API requests
  Operations,      \* what they ask for: a subset of {"ack", "resolve"}
  Callback,        \* voice callbacks
  Sender,          \* voice sends and final failures
  Escalation,      \* runs of handle_escalation
  Sweeper,         \* runs of stale_incident_sweeper
  NoProc, Nothing,
  MaxFaults        \* bound: processes that die

Kinds == <<Operator, Callback, Sender, Escalation, Sweeper>>
Proc == Operator \cup Callback \cup Sender \cup Escalation \cup Sweeper

\* What a callback carries: digit 1, another digit, or a signature that does
\* not verify.
Presses == {"one", "other", "unsigned"}

ASSUME LifecycleAssumption ==
  /\ IncidentOf \in [Notification -> Incident]
  /\ Operations \subseteq {"ack", "resolve"}
  /\ \A k, l \in 1 .. 5 : k # l => Kinds[k] \cap Kinds[l] = {}
  /\ NoProc \notin Proc
  /\ Nothing \notin Incident \cup Notification
  /\ MaxFaults \in Nat

VARIABLES
  status,       \* incidents.status
  notif,        \* notifications.status
  updater,      \* the callback that holds the incident FOR UPDATE
  rowLock,      \* the sender that holds the notification FOR UPDATE
  placed,       \* notifications whose call was placed
  \* audit_logs, per incident
  apiAcks, voiceAcks, escalations, resolutions,
  \* the processes
  pc, about,
  press,        \* what a callback carries
  outcome,      \* what a sender is about to write
  seen,         \* the open incidents a sweeper read
  faults

audit == <<apiAcks, voiceAcks, escalations, resolutions>>
locks == <<updater, rowLock>>
local == <<press, outcome, seen>>
vars == <<status, notif, locks, placed, audit, pc, about, local, faults>>

IncidentStatuses == {"OPEN", "ACKNOWLEDGED", "ESCALATED", "RESOLVED"}
Delivered == {"SENT", "ANSWERED_VOICE"}
Ended == {"done", "rejected", "conflict", "failed"}
Places == {"idle", "ack", "resolve", "waiting", "answering", "noting", "calling",
           "flushing", "sweeping"} \cup Ended

TypeOK ==
  /\ status \in [Incident -> IncidentStatuses]
  /\ notif \in [Notification -> {"PENDING", "FAILED"} \cup Delivered]
  /\ updater \in [Incident -> Callback \cup {NoProc}]
  /\ rowLock \in [Notification -> Sender \cup {NoProc}]
  /\ placed \subseteq Notification
  /\ apiAcks \in [Incident -> Nat]
  /\ voiceAcks \in [Incident -> Nat]
  /\ escalations \in [Incident -> Nat]
  /\ resolutions \in [Incident -> Nat]
  /\ pc \in [Proc -> Places]
  /\ about \in [Proc -> Incident \cup Notification \cup {Nothing}]
  /\ press \in [Callback -> Presses]
  /\ outcome \in [Sender -> {"SENT", "FAILED", "same"}]
  /\ seen \in [Sweeper -> SUBSET Incident]
  /\ faults \in 0 .. MaxFaults

None == [i \in Incident |-> 0]

Init ==
  /\ status = [i \in Incident |-> "OPEN"]
  /\ notif = [n \in Notification |-> "PENDING"]
  /\ updater = [i \in Incident |-> NoProc]
  /\ rowLock = [n \in Notification |-> NoProc]
  /\ placed = {}
  /\ apiAcks = None /\ voiceAcks = None /\ escalations = None /\ resolutions = None
  /\ pc = [p \in Proc |-> "idle"]
  /\ about = [p \in Proc |-> Nothing]
  /\ press = [c \in Callback |-> "one"]
  /\ outcome = [s \in Sender |-> "same"]
  /\ seen = [w \in Sweeper |-> {}]
  /\ faults = 0

-----------------------------------------------------------------------------
Goto(p, place) == pc' = [pc EXCEPT ![p] = place]
Start(p, x) == pc[p] = "idle" /\ about' = [about EXCEPT ![p] = x]
Count(log, i) == [log EXCEPT ![i] = @ + 1]

\* Names that begin with Mutant are the faults that the checked properties
\* must notice; nothing else uses them.
MutantFreeToWrite(i) == TRUE

\* Nobody holds the incident FOR UPDATE.
FreeToWrite(i) == updater[i] = NoProc

MutantAdmits(op, s) == IF op = "ack" THEN s = "OPEN" ELSE s # "RESOLVED"

\* What the API lets through: the check of the status it has read.
Admits(op, s) == IF op = "ack" THEN s = "OPEN" ELSE s \in {"ACKNOWLEDGED", "ESCALATED"}

-----------------------------------------------------------------------------
\* acknowledge_incident and resolve_incident up to the check of the status.
OperatorReads(o, op, i) ==
  /\ Start(o, i)
  /\ Goto(o, IF Admits(op, status[i]) THEN op ELSE "conflict")
  /\ UNCHANGED <<status, notif, locks, placed, audit, local, faults>>

\* The commit writes the status that was decided on, whatever the row says now.
OperatorAcks(o) ==
  LET i == about[o] IN
  /\ pc[o] = "ack"
  /\ FreeToWrite(i)
  /\ status' = [status EXCEPT ![i] = "ACKNOWLEDGED"]
  /\ apiAcks' = Count(apiAcks, i)
  /\ Goto(o, "done")
  /\ UNCHANGED <<notif, locks, placed, voiceAcks, escalations, resolutions, about,
                 local, faults>>

OperatorResolves(o) ==
  LET i == about[o] IN
  /\ pc[o] = "resolve"
  /\ FreeToWrite(i)
  /\ status' = [status EXCEPT ![i] = "RESOLVED"]
  /\ resolutions' = Count(resolutions, i)
  /\ Goto(o, "done")
  /\ UNCHANGED <<notif, locks, placed, apiAcks, voiceAcks, escalations, about, local,
                 faults>>

-----------------------------------------------------------------------------
\* handle_voice_callback: the signature is verified and the notification is
\* read, without a lock.
CallbackArrives(c, n, x) ==
  /\ n \in placed
  /\ Start(c, n)
  /\ press' = [press EXCEPT ![c] = x]
  /\ Goto(c, "waiting")
  /\ UNCHANGED <<status, notif, locks, placed, audit, outcome, seen, faults>>

\* The incident is read FOR UPDATE; digit 1 acknowledges it if it is open.
CallbackLocks(c) ==
  LET i == IncidentOf[about[c]] IN
  /\ pc[c] = "waiting"
  /\ FreeToWrite(i)
  /\ updater' = [updater EXCEPT ![i] = c]
  /\ Goto(c, IF press[c] = "one" /\ status[i] = "OPEN" THEN "answering" ELSE "noting")
  /\ UNCHANGED <<status, notif, rowLock, placed, audit, about, local, faults>>

\* One commit updates the incident and the notification, whose row lock the
\* UPDATE waits for.
CallbackAcks(c) ==
  LET n == about[c]
      i == IncidentOf[n] IN
  /\ pc[c] = "answering"
  /\ rowLock[n] = NoProc
  /\ status' = [status EXCEPT ![i] = "ACKNOWLEDGED"]
  /\ notif' = [notif EXCEPT ![n] = "ANSWERED_VOICE"]
  /\ voiceAcks' = Count(voiceAcks, i)
  /\ updater' = [updater EXCEPT ![i] = NoProc]
  /\ Goto(c, "done")
  /\ UNCHANGED <<rowLock, placed, apiAcks, escalations, resolutions, about, local,
                 faults>>

\* Any other callback only commits its audit entry; a bad signature is
\* answered 401 after that.
CallbackNotes(c) ==
  LET i == IncidentOf[about[c]] IN
  /\ pc[c] = "noting"
  /\ updater' = [updater EXCEPT ![i] = NoProc]
  /\ Goto(c, IF press[c] = "unsigned" THEN "rejected" ELSE "done")
  /\ UNCHANGED <<status, notif, rowLock, placed, audit, about, local, faults>>

-----------------------------------------------------------------------------
\* A voice send, or the recording of a final failure, reads the notification
\* FOR UPDATE and returns at once when it was delivered.
SenderLocks(s, n) ==
  /\ rowLock[n] = NoProc
  /\ Start(s, n)
  /\ \/ /\ notif[n] \in Delivered
        /\ Goto(s, "done")
        /\ UNCHANGED rowLock
     \/ /\ notif[n] \notin Delivered
        /\ Goto(s, "calling")
        /\ rowLock' = [rowLock EXCEPT ![n] = s]
  /\ UNCHANGED <<status, notif, updater, placed, audit, local, faults>>

\* The call is placed; or nothing is placed and the row is to be marked FAILED
\* (the final failure), or to be left alone with an audit entry (rate limit).
SenderCalls(s, x) ==
  /\ pc[s] = "calling"
  /\ outcome' = [outcome EXCEPT ![s] = x]
  /\ placed' = IF x = "SENT" THEN placed \cup {about[s]} ELSE placed
  /\ Goto(s, "flushing")
  /\ UNCHANGED <<status, notif, locks, audit, about, press, seen, faults>>

\* The provider raised, or the circuit is open: rollback, nothing to insert.
SenderLeaves(s) ==
  /\ pc[s] = "calling"
  /\ rowLock' = [rowLock EXCEPT ![about[s]] = NoProc]
  /\ Goto(s, "failed")
  /\ UNCHANGED <<status, notif, updater, placed, audit, about, local, faults>>

\* What a send that must not touch the row would write into it.
MutantSenderCommits(s) ==
  /\ pc[s] = "flushing"
  /\ notif' = [notif EXCEPT ![about[s]] = outcome[s]]
  /\ rowLock' = [rowLock EXCEPT ![about[s]] = NoProc]
  /\ Goto(s, "done")
  /\ UNCHANGED <<status, updater, placed, audit, about, local, faults>>

\* The commit updates the row and inserts an audit entry, whose foreign key
\* waits for a FOR UPDATE on the incident.
SenderCommits(s) ==
  LET n == about[s] IN
  /\ pc[s] = "flushing"
  /\ FreeToWrite(IncidentOf[n])
  /\ notif' = [notif EXCEPT ![n] = IF outcome[s] = "same" THEN @ ELSE outcome[s]]
  /\ rowLock' = [rowLock EXCEPT ![n] = NoProc]
  /\ Goto(s, "done")
  /\ UNCHANGED <<status, updater, placed, audit, about, local, faults>>

-----------------------------------------------------------------------------
\* A sender and a callback that wait for each other.
WaitCycle(s, c) ==
  /\ pc[s] = "flushing"
  /\ pc[c] = "answering"
  /\ about[s] = about[c]

\* PostgreSQL finds the cycle and cancels one of the two transactions: the
\* callback answers 500, the sender's task goes to its except clause.
CancelCallback(s, c) ==
  /\ WaitCycle(s, c)
  /\ updater' = [updater EXCEPT ![IncidentOf[about[c]]] = NoProc]
  /\ Goto(c, "failed")
  /\ UNCHANGED <<status, notif, rowLock, placed, audit, about, local, faults>>

CancelSender(s, c) ==
  /\ WaitCycle(s, c)
  /\ rowLock' = [rowLock EXCEPT ![about[s]] = NoProc]
  /\ Goto(s, "failed")
  /\ UNCHANGED <<status, notif, updater, placed, audit, about, local, faults>>

DeadlockDetector(s, c) == CancelCallback(s, c) \/ CancelSender(s, c)

\* The process of a request dies; its transaction is rolled back.
Dies(p) ==
  /\ pc[p] \notin Ended \cup {"idle"}
  /\ faults < MaxFaults
  /\ faults' = faults + 1
  /\ updater' = [i \in Incident |-> IF updater[i] = p THEN NoProc ELSE updater[i]]
  /\ rowLock' = [n \in Notification |-> IF rowLock[n] = p THEN NoProc ELSE rowLock[n]]
  /\ Goto(p, "failed")
  /\ UNCHANGED <<status, notif, placed, audit, about, local>>

-----------------------------------------------------------------------------
\* _handle_escalation_impl up to its first commit: the incident is read FOR
\* UPDATE and left alone unless it is open.
Escalate(e, i) ==
  /\ Start(e, i)
  /\ FreeToWrite(i)
  /\ \/ /\ status[i] = "OPEN"
        /\ status' = [status EXCEPT ![i] = "ESCALATED"]
        /\ escalations' = Count(escalations, i)
     \/ /\ status[i] # "OPEN"
        /\ UNCHANGED <<status, escalations>>
  /\ Goto(e, "done")
  /\ UNCHANGED <<notif, locks, placed, apiAcks, voiceAcks, resolutions, local, faults>>

\* stale_incident_sweeper reads the old open incidents, without a lock ...
SweeperReads(w, S) ==
  /\ pc[w] = "idle"
  /\ S # {}
  /\ \A i \in S : status[i] = "OPEN"
  /\ seen' = [seen EXCEPT ![w] = S]
  /\ Goto(w, "sweeping")
  /\ UNCHANGED <<status, notif, locks, placed, audit, about, press, outcome, faults>>

\* ... and commits them all as escalated.
SweeperCommits(w) ==
  /\ pc[w] = "sweeping"
  /\ \A i \in seen[w] : FreeToWrite(i)
  /\ status' = [i \in Incident |-> IF i \in seen[w] THEN "ESCALATED" ELSE status[i]]
  /\ escalations' = [i \in Incident |->
                       IF i \in seen[w] THEN escalations[i] + 1 ELSE escalations[i]]
  /\ Goto(w, "done")
  /\ UNCHANGED <<notif, locks, placed, apiAcks, voiceAcks, resolutions, about, local,
                 faults>>

-----------------------------------------------------------------------------
OperatorCommits(o) == OperatorAcks(o) \/ OperatorResolves(o)
CallbackProceeds(c) == CallbackLocks(c) \/ CallbackAcks(c) \/ CallbackNotes(c)
SenderProceeds(s) ==
  \/ \E x \in {"SENT", "FAILED", "same"} : SenderCalls(s, x)
  \/ SenderLeaves(s) \/ SenderCommits(s)

Next ==
  \/ \E o \in Operator : \/ \E op \in Operations, i \in Incident : OperatorReads(o, op, i)
                         \/ OperatorCommits(o)
  \/ \E c \in Callback : \/ \E n \in Notification, x \in Presses : CallbackArrives(c, n, x)
                         \/ CallbackProceeds(c)
  \/ \E s \in Sender : \/ \E n \in Notification : SenderLocks(s, n)
                       \/ SenderProceeds(s)
  \/ \E s \in Sender, c \in Callback : DeadlockDetector(s, c)
  \/ \E e \in Escalation, i \in Incident : Escalate(e, i)
  \/ \E w \in Sweeper : \/ \E S \in SUBSET Incident : SweeperReads(w, S)
                        \/ SweeperCommits(w)
  \/ \E p \in Proc : Dies(p)

Spec == Init /\ [][Next]_vars

(***************************************************************************)
(* Properties                                                              *)
(***************************************************************************)
\* A voice acknowledgement updates the incident and one notification exactly
\* once: however callbacks, senders, operators and cancelled transactions
\* interleave, an incident has one voice ACK_RECEIVED entry when one of its
\* notifications is ANSWERED_VOICE, no entry when none is, and never two.
VoiceAckedOnce(i) ==
  LET answered == {n \in Notification : IncidentOf[n] = i /\ notif[n] = "ANSWERED_VOICE"}
  IN  /\ voiceAcks[i] \in {0, 1}
      /\ voiceAcks[i] = 0 => answered = {}
      /\ voiceAcks[i] = 1 => \E n \in answered : answered = {n}

VoiceAckOnce == \A i \in Incident : VoiceAckedOnce(i)

\* The audit trail explains the status: an open incident has no acknowledgement,
\* escalation or resolution behind it, any other status has its own entry, and a
\* resolved incident was acknowledged or escalated before.
StatusExplained(i) ==
  LET acks == apiAcks[i] + voiceAcks[i] IN
  /\ status[i] = "OPEN" => acks + escalations[i] + resolutions[i] = 0
  /\ status[i] = "ACKNOWLEDGED" => acks > 0
  /\ status[i] = "ESCALATED" => escalations[i] > 0
  /\ status[i] = "RESOLVED" => resolutions[i] > 0
  /\ resolutions[i] > 0 => acks + escalations[i] > 0

AuditExplainsStatus == \A i \in Incident : StatusExplained(i)

\* Callbacks, escalations and resolutions respect the life cycle: open, then
\* acknowledged or escalated, then resolved for good, whatever the two writers
\* that trust a stale read, the API's acknowledgement and the sweeper, do
\* between them.
Transitions == {<<"OPEN", "ACKNOWLEDGED">>, <<"OPEN", "ESCALATED">>,
                <<"ACKNOWLEDGED", "RESOLVED">>, <<"ESCALATED", "RESOLVED">>}

LegalTransitions ==
  [][\A i \in Incident :
       status'[i] # status[i] =>
         \/ <<status[i], status'[i]>> \in Transitions
         \/ apiAcks'[i] > apiAcks[i]
         \/ \E w \in Sweeper : pc[w] = "sweeping" /\ pc'[w] = "done"]_vars
================================================================================
