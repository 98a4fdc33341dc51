---------------------------- MODULE LifecycleProofs ----------------------------
(***************************************************************************)
(* Proofs about IncidentLifecycle, for every number of incidents,          *)
(* notifications and processes of each kind, and any number of deaths.     *)
(***************************************************************************)
EXTENDS IncidentLifecycle, TLAPS

LockingIncident == {"answering", "noting"}
LockingRow == {"calling", "flushing"}

\* What a request is about, once it has begun.
Subject ==
  /\ \A o \in Operator : pc[o] \in {"ack", "resolve"} => about[o] \in Incident
  /\ \A c \in Callback : pc[c] \in {"waiting"} \cup LockingIncident => about[c] \in Notification
  /\ \A s \in Sender : pc[s] \in LockingRow => about[s] \in Notification

\* The two locks and the positions of the processes tell the same story.
IncidentHeld ==
  /\ \A c \in Callback :
       pc[c] \in LockingIncident => updater[IncidentOf[about[c]]] = c
  /\ \A i \in Incident :
       updater[i] # NoProc =>
         pc[updater[i]] \in LockingIncident /\ IncidentOf[about[updater[i]]] = i

RowHeld ==
  /\ \A s \in Sender : pc[s] \in LockingRow => rowLock[about[s]] = s
  /\ \A n \in Notification :
       rowLock[n] # NoProc =>
         pc[rowLock[n]] \in LockingRow /\ about[rowLock[n]] = n

\* What a process decided under its lock is still so: the incident of a
\* callback that acknowledges is open, the row of a sender is not delivered.
StillOpen ==
  \A c \in Callback : pc[c] = "answering" => status[IncidentOf[about[c]]] = "OPEN"

StillUndelivered ==
  \A n \in Notification : rowLock[n] # NoProc => notif[n] \notin Delivered

\* An operator who resolves has seen a status that had to be reached, which no
\* later write can undo.
Reached(i) == apiAcks[i] + voiceAcks[i] + escalations[i] > 0

Resolvable == \A o \in Operator : pc[o] = "resolve" => Reached(about[o])

IInv ==
  /\ TypeOK /\ Subject
  /\ IncidentHeld /\ RowHeld /\ StillOpen /\ StillUndelivered
  /\ Resolvable /\ AuditExplainsStatus /\ VoiceAckOnce

-----------------------------------------------------------------------------
\* No process is of two kinds.
LEMMA KindsDiffer ==
  /\ Operator \cap Callback = {} /\ Operator \cap Sender = {}
  /\ Operator \cap Escalation = {} /\ Operator \cap Sweeper = {}
  /\ Callback \cap Sender = {} /\ Callback \cap Escalation = {}
  /\ Callback \cap Sweeper = {} /\ Sender \cap Escalation = {}
  /\ Sender \cap Sweeper = {} /\ Escalation \cap Sweeper = {}
  <1>1. /\ Kinds[1] = Operator /\ Kinds[2] = Callback /\ Kinds[3] = Sender
        /\ Kinds[4] = Escalation /\ Kinds[5] = Sweeper
    BY DEF Kinds
  <1>2. \A k, l \in 1 .. 5 : k # l => Kinds[k] \cap Kinds[l] = {}
    BY LifecycleAssumption DEF LifecycleAssumption
  <1>3. /\ Kinds[1] \cap Kinds[2] = {} /\ Kinds[1] \cap Kinds[3] = {}
        /\ Kinds[1] \cap Kinds[4] = {} /\ Kinds[1] \cap Kinds[5] = {}
        /\ Kinds[2] \cap Kinds[3] = {} /\ Kinds[2] \cap Kinds[4] = {}
        /\ Kinds[2] \cap Kinds[5] = {} /\ Kinds[3] \cap Kinds[4] = {}
        /\ Kinds[3] \cap Kinds[5] = {} /\ Kinds[4] \cap Kinds[5] = {}
    BY <1>2
  <1> QED BY <1>1, <1>3

LEMMA InitIInv == Init => IInv
  <1> SUFFICES ASSUME Init PROVE IInv
    OBVIOUS
  <1> USE LifecycleAssumption DEF LifecycleAssumption, Init, None
  <1>1. TypeOK
    BY DEF TypeOK, Proc, Places, Presses, IncidentStatuses, Ended
  <1>2. Subject /\ IncidentHeld /\ RowHeld /\ StillOpen /\ StillUndelivered /\ Resolvable
    BY DEF Subject, IncidentHeld, RowHeld, StillOpen, StillUndelivered, Resolvable,
           LockingIncident, LockingRow, Proc
  <1>3. AuditExplainsStatus
    BY DEF AuditExplainsStatus, StatusExplained
  <1>4. VoiceAckOnce
    BY DEF VoiceAckOnce, VoiceAckedOnce
  <1> QED BY <1>1, <1>2, <1>3, <1>4 DEF IInv

-----------------------------------------------------------------------------
LEMMA NextTyped ==
  ASSUME TypeOK, Subject, [Next]_vars
  PROVE  TypeOK'
  <1> USE LifecycleAssumption
      DEF LifecycleAssumption, TypeOK, Subject, Goto, Start, Count, Proc, Places, Ended,
          IncidentStatuses, Delivered, LockingIncident, LockingRow, locks, audit, local
  <1>1. ASSUME NEW o \in Operator, NEW op \in Operations, NEW i \in Incident,
               OperatorReads(o, op, i)
        PROVE  TypeOK'
    BY <1>1 DEF OperatorReads
  <1>2. ASSUME NEW o \in Operator, OperatorCommits(o) PROVE TypeOK'
    BY <1>2 DEF OperatorCommits, OperatorAcks, OperatorResolves
  <1>3. ASSUME NEW c \in Callback, NEW n \in Notification, NEW x \in Presses,
               CallbackArrives(c, n, x)
        PROVE  TypeOK'
    BY <1>3 DEF CallbackArrives
  <1>4. ASSUME NEW c \in Callback, CallbackProceeds(c) PROVE TypeOK'
    <2>1. CASE CallbackLocks(c)
      BY <2>1 DEF CallbackLocks
    <2>2. CASE CallbackAcks(c)
      BY <2>2 DEF CallbackAcks
    <2>3. CASE CallbackNotes(c)
      BY <2>3 DEF CallbackNotes
    <2> QED BY <1>4, <2>1, <2>2, <2>3 DEF CallbackProceeds
  <1>5. ASSUME NEW s \in Sender, NEW n \in Notification, SenderLocks(s, n) PROVE TypeOK'
    BY <1>5 DEF SenderLocks
  <1>6. ASSUME NEW s \in Sender, SenderProceeds(s) PROVE TypeOK'
    <2>1. ASSUME NEW x \in {"SENT", "FAILED", "same"}, SenderCalls(s, x) PROVE TypeOK'
      BY <2>1 DEF SenderCalls
    <2>2. CASE SenderLeaves(s)
      BY <2>2 DEF SenderLeaves
    <2>3. CASE SenderCommits(s)
      BY <2>3 DEF SenderCommits
    <2> QED BY <1>6, <2>1, <2>2, <2>3 DEF SenderProceeds
  <1>7. ASSUME NEW s \in Sender, NEW c \in Callback, DeadlockDetector(s, c) PROVE TypeOK'
    BY <1>7 DEF DeadlockDetector, CancelCallback, CancelSender
  <1>8. ASSUME NEW e \in Escalation, NEW i \in Incident, Escalate(e, i) PROVE TypeOK'
    BY <1>8 DEF Escalate
  <1>9. ASSUME NEW w \in Sweeper, NEW S \in SUBSET Incident, SweeperReads(w, S)
        PROVE  TypeOK'
    BY <1>9 DEF SweeperReads
  <1>10. ASSUME NEW w \in Sweeper, SweeperCommits(w) PROVE TypeOK'
    BY <1>10 DEF SweeperCommits
  <1>11. ASSUME NEW p \in Proc, Dies(p) PROVE TypeOK'
    BY <1>11 DEF Dies
  <1>12. CASE UNCHANGED vars
    BY <1>12 DEF vars
  <1> QED BY <1>1, <1>2, <1>3, <1>4, <1>5, <1>6, <1>7, <1>8, <1>9, <1>10, <1>11, <1>12 DEF Next

-----------------------------------------------------------------------------
(***************************************************************************)
(* The locks.  Everything but the audit entries takes part in Locking.     *)
(***************************************************************************)
Locking == TypeOK /\ Subject /\ IncidentHeld /\ RowHeld /\ StillOpen /\ StillUndelivered

LEMMA NextLocking ==
  ASSUME Locking, [Next]_vars
  PROVE  Subject' /\ IncidentHeld' /\ RowHeld' /\ StillOpen' /\ StillUndelivered'
  <1> DEFINE Kept == Subject' /\ IncidentHeld' /\ RowHeld' /\ StillOpen' /\ StillUndelivered'
  <1> USE LifecycleAssumption, KindsDiffer
      DEF LifecycleAssumption, Locking, TypeOK, Proc, Subject, IncidentHeld, RowHeld,
          StillOpen, StillUndelivered, LockingIncident, LockingRow, Goto, Start,
          FreeToWrite, locks, audit, local
  <1>1. ASSUME NEW o \in Operator, NEW op \in Operations, NEW i \in Incident,
               OperatorReads(o, op, i)
        PROVE  Kept
    BY <1>1 DEF OperatorReads
  <1>2. ASSUME NEW o \in Operator, OperatorCommits(o) PROVE Kept
    BY <1>2 DEF OperatorCommits, OperatorAcks, OperatorResolves
  <1>3. ASSUME NEW c \in Callback, NEW n \in Notification, NEW x \in Presses,
               CallbackArrives(c, n, x)
        PROVE  Kept
    BY <1>3 DEF CallbackArrives
  <1>4. ASSUME NEW c \in Callback, CallbackLocks(c) PROVE Kept
    BY <1>4 DEF CallbackLocks
  <1>5. ASSUME NEW c \in Callback, CallbackAcks(c) PROVE Kept
    BY <1>5 DEF CallbackAcks
  <1>6. ASSUME NEW c \in Callback, CallbackNotes(c) PROVE Kept
    BY <1>6 DEF CallbackNotes
  <1>7. ASSUME NEW s \in Sender, NEW n \in Notification, SenderLocks(s, n) PROVE Kept
    BY <1>7 DEF SenderLocks
  <1>8. ASSUME NEW s \in Sender, NEW x \in {"SENT", "FAILED", "same"}, SenderCalls(s, x)
        PROVE  Kept
    BY <1>8 DEF SenderCalls
  <1>9. ASSUME NEW s \in Sender, SenderLeaves(s) \/ SenderCommits(s) PROVE Kept
    BY <1>9 DEF SenderLeaves, SenderCommits
  <1>10. ASSUME NEW s \in Sender, NEW c \in Callback, DeadlockDetector(s, c) PROVE Kept
    <2>1. CASE CancelCallback(s, c)
      BY <2>1 DEF CancelCallback, WaitCycle
    <2>2. CASE CancelSender(s, c)
      BY <2>2 DEF CancelSender, WaitCycle
    <2> QED BY <1>10, <2>1, <2>2 DEF DeadlockDetector
  <1>11. ASSUME NEW e \in Escalation, NEW i \in Incident, Escalate(e, i) PROVE Kept
    BY <1>11 DEF Escalate
  <1>12. ASSUME NEW w \in Sweeper, NEW S \in SUBSET Incident, SweeperReads(w, S) PROVE Kept
    BY <1>12 DEF SweeperReads
  <1>13. ASSUME NEW w \in Sweeper, SweeperCommits(w) PROVE Kept
    BY <1>13 DEF SweeperCommits
  <1>14. ASSUME NEW p \in Proc, Dies(p) PROVE Kept
    BY <1>14 DEF Dies
  <1>15. CASE UNCHANGED vars
    BY <1>15 DEF vars
  <1> QED
    BY <1>1, <1>2, <1>3, <1>4, <1>5, <1>6, <1>7, <1>8, <1>9, <1>10, <1>11, <1>12, <1>13,
       <1>14, <1>15 DEF Next, CallbackProceeds, SenderProceeds

-----------------------------------------------------------------------------
(***************************************************************************)
(* The audit trail.                                                        *)
(***************************************************************************)
Audited == TypeOK /\ Subject /\ StillOpen /\ Resolvable /\ AuditExplainsStatus

LEMMA NextAudited ==
  ASSUME Audited, [Next]_vars
  PROVE  Resolvable' /\ AuditExplainsStatus'
  <1> DEFINE Kept == Resolvable' /\ AuditExplainsStatus'
  <1> USE LifecycleAssumption, KindsDiffer
      DEF LifecycleAssumption, Audited, TypeOK, Proc, Subject, StillOpen, Resolvable,
          Reached, AuditExplainsStatus, StatusExplained, LockingIncident, Goto, Start,
          Count, audit
  <1>1. ASSUME NEW o \in Operator, NEW op \in Operations, NEW i \in Incident,
               OperatorReads(o, op, i)
        PROVE  Kept
    BY <1>1 DEF OperatorReads, Admits
  <1>2. ASSUME NEW o \in Operator, OperatorAcks(o) PROVE Kept
    BY <1>2 DEF OperatorAcks
  <1>3. ASSUME NEW o \in Operator, OperatorResolves(o) PROVE Kept
    BY <1>3 DEF OperatorResolves
  <1>4. ASSUME NEW c \in Callback, CallbackAcks(c) PROVE Kept
    BY <1>4 DEF CallbackAcks
  <1>5. ASSUME NEW e \in Escalation, NEW i \in Incident, Escalate(e, i) PROVE Kept
    <2>1. /\ \A o \in Operator : pc'[o] = "resolve" => pc[o] = "resolve"
          /\ UNCHANGED <<apiAcks, voiceAcks, resolutions>>
          /\ \A o \in Operator : about'[o] = about[o]
      BY <1>5 DEF Escalate
    <2>2. \A j \in Incident : escalations'[j] \in Nat /\ escalations'[j] >= escalations[j]
      BY <1>5 DEF Escalate
    <2>3. Resolvable'
      BY <2>1, <2>2
    <2>4. AuditExplainsStatus'
      BY <1>5 DEF Escalate
    <2> QED BY <2>3, <2>4
  <1>6. ASSUME NEW w \in Sweeper, SweeperCommits(w) PROVE Kept
    BY <1>6 DEF SweeperCommits
  <1>7. ASSUME UNCHANGED <<status, audit>>,
               \A o \in Operator : pc'[o] = "resolve" => pc[o] = "resolve" /\ about'[o] = about[o]
        PROVE  Kept
    BY <1>7
  <1>8. ASSUME NEW c \in Callback,
               \/ \E n \in Notification, x \in Presses : CallbackArrives(c, n, x)
               \/ CallbackLocks(c) \/ CallbackNotes(c)
        PROVE  Kept
    BY <1>7, <1>8 DEF CallbackArrives, CallbackLocks, CallbackNotes
  <1>9. ASSUME NEW s \in Sender,
               (\E n \in Notification : SenderLocks(s, n)) \/ SenderProceeds(s)
        PROVE  Kept
    BY <1>7, <1>9 DEF SenderLocks, SenderProceeds, SenderCalls, SenderLeaves, SenderCommits
  <1>10. ASSUME NEW s \in Sender, NEW c \in Callback, DeadlockDetector(s, c) PROVE Kept
    BY <1>7, <1>10 DEF DeadlockDetector, CancelCallback, CancelSender
  <1>11. ASSUME NEW w \in Sweeper, NEW S \in SUBSET Incident, SweeperReads(w, S) PROVE Kept
    BY <1>7, <1>11 DEF SweeperReads
  <1>12. ASSUME NEW p \in Proc, Dies(p) PROVE Kept
    BY <1>7, <1>12 DEF Dies
  <1>13. CASE UNCHANGED vars
    BY <1>7, <1>13 DEF vars
  <1> QED
    BY <1>1, <1>2, <1>3, <1>4, <1>5, <1>6, <1>8, <1>9, <1>10, <1>11, <1>12, <1>13
    DEF Next, OperatorCommits, CallbackProceeds

-----------------------------------------------------------------------------
(***************************************************************************)
(* The voice acknowledgement.                                              *)
(***************************************************************************)
Answered(i) == {n \in Notification : IncidentOf[n] = i /\ notif[n] = "ANSWERED_VOICE"}

\* A sender holds the row it writes, which is then not the one that was
\* answered; and it never answers one itself.
LEMMA SenderAnswersNone ==
  ASSUME Locking, NEW s \in Sender, SenderCommits(s)
  PROVE  \A n \in Notification : notif'[n] = "ANSWERED_VOICE" <=> notif[n] = "ANSWERED_VOICE"
  <1> DEFINE m == about[s]
  <1>1. m \in Notification /\ notif[m] \notin Delivered
    BY LifecycleAssumption
    DEF LifecycleAssumption, SenderCommits, Locking, Subject, RowHeld, StillUndelivered,
        LockingRow, Proc
  <1>2. outcome[s] \in {"SENT", "FAILED", "same"}
    BY DEF Locking, TypeOK
  <1>3. notif' = [notif EXCEPT ![m] = IF outcome[s] = "same" THEN @ ELSE outcome[s]]
    BY DEF SenderCommits
  <1> QED BY <1>1, <1>2, <1>3 DEF Locking, TypeOK, Delivered

\* The first acknowledgement finds the incident open, so without one before.
LEMMA FirstAnswer ==
  ASSUME Locking, AuditExplainsStatus, VoiceAckOnce, NEW c \in Callback, CallbackAcks(c)
  PROVE  VoiceAckOnce'
  <1>1. PICK n \in Notification, i \in Incident :
          n = about[c] /\ i = IncidentOf[n] /\ status[i] = "OPEN"
    BY LifecycleAssumption
    DEF LifecycleAssumption, CallbackAcks, Locking, Subject, StillOpen, LockingIncident
  <1>2. voiceAcks[i] = 0 /\ Answered(i) = {}
    <2>1. /\ voiceAcks[i] \in Nat /\ apiAcks[i] \in Nat
          /\ escalations[i] \in Nat /\ resolutions[i] \in Nat
      BY DEF Locking, TypeOK
    <2>2. StatusExplained(i) /\ VoiceAckedOnce(i)
      BY DEF AuditExplainsStatus, VoiceAckOnce
    <2>3. apiAcks[i] + voiceAcks[i] + escalations[i] + resolutions[i] = 0
      BY <1>1, <2>2 DEF StatusExplained
    <2>4. voiceAcks[i] = 0
      BY <2>1, <2>3
    <2> QED BY <2>2, <2>4 DEF VoiceAckedOnce, Answered
  <1>3. voiceAcks' = [voiceAcks EXCEPT ![i] = 1]
    BY <1>1, <1>2 DEF CallbackAcks, Count, Locking, TypeOK
  <1>4. notif' = [notif EXCEPT ![n] = "ANSWERED_VOICE"]
    BY <1>1 DEF CallbackAcks
  <1>5. Answered(i)' = {n} /\ voiceAcks'[i] = 1
    BY <1>1, <1>2, <1>3, <1>4 DEF Answered, Locking, TypeOK
  <1>6. VoiceAckedOnce(i)'
    BY <1>5 DEF VoiceAckedOnce, Answered
  <1>7. ASSUME NEW j \in Incident, j # i PROVE VoiceAckedOnce(j)'
    <2>1. Answered(j)' = Answered(j) /\ voiceAcks'[j] = voiceAcks[j]
      BY <1>1, <1>3, <1>4, <1>7 DEF Answered, Locking, TypeOK
    <2>2. VoiceAckedOnce(j)
      BY DEF VoiceAckOnce
    <2> QED BY <2>1, <2>2 DEF VoiceAckedOnce, Answered
  <1> QED BY <1>6, <1>7 DEF VoiceAckOnce

LEMMA NextVoice ==
  ASSUME Locking, AuditExplainsStatus, VoiceAckOnce, [Next]_vars
  PROVE  VoiceAckOnce'
  <1>1. ASSUME UNCHANGED voiceAcks,
               \A n \in Notification : notif'[n] = "ANSWERED_VOICE" <=> notif[n] = "ANSWERED_VOICE"
        PROVE  VoiceAckOnce'
    <2>1. \A i \in Incident : Answered(i)' = Answered(i)
      BY <1>1 DEF Answered
    <2> QED BY <1>1, <2>1 DEF VoiceAckOnce, VoiceAckedOnce, Answered
  <1>2. ASSUME UNCHANGED <<voiceAcks, notif>> PROVE VoiceAckOnce'
    BY <1>1, <1>2
  <1>3. ASSUME NEW c \in Callback, CallbackAcks(c) PROVE VoiceAckOnce'
    BY <1>3, FirstAnswer
  <1>4. ASSUME NEW s \in Sender, SenderCommits(s) PROVE VoiceAckOnce'
    BY <1>1, <1>4, SenderAnswersNone DEF SenderCommits, audit
  <1>5. ASSUME NEW o \in Operator,
               \/ \E op \in Operations, i \in Incident : OperatorReads(o, op, i)
               \/ OperatorCommits(o)
        PROVE  VoiceAckOnce'
    BY <1>2, <1>5 DEF OperatorReads, OperatorCommits, OperatorAcks, OperatorResolves, audit
  <1>6. ASSUME NEW c \in Callback,
               \/ \E n \in Notification, x \in Presses : CallbackArrives(c, n, x)
               \/ CallbackLocks(c) \/ CallbackNotes(c)
        PROVE  VoiceAckOnce'
    BY <1>2, <1>6 DEF CallbackArrives, CallbackLocks, CallbackNotes, audit
  <1>7. ASSUME NEW s \in Sender,
               \/ \E n \in Notification : SenderLocks(s, n)
               \/ \E x \in {"SENT", "FAILED", "same"} : SenderCalls(s, x)
               \/ SenderLeaves(s)
        PROVE  VoiceAckOnce'
    BY <1>2, <1>7 DEF SenderLocks, SenderCalls, SenderLeaves, audit
  <1>8. ASSUME NEW s \in Sender, NEW c \in Callback, DeadlockDetector(s, c)
        PROVE  VoiceAckOnce'
    BY <1>2, <1>8 DEF DeadlockDetector, CancelCallback, CancelSender, audit
  <1>9. ASSUME NEW e \in Escalation, NEW i \in Incident, Escalate(e, i) PROVE VoiceAckOnce'
    BY <1>2, <1>9 DEF Escalate
  <1>10. ASSUME NEW w \in Sweeper,
                (\E S \in SUBSET Incident : SweeperReads(w, S)) \/ SweeperCommits(w)
         PROVE  VoiceAckOnce'
    BY <1>2, <1>10 DEF SweeperReads, SweeperCommits, audit
  <1>11. CASE (\E p \in Proc : Dies(p)) \/ UNCHANGED vars
    BY <1>2, <1>11 DEF Dies, vars, audit
  <1> QED
    BY <1>3, <1>4, <1>5, <1>6, <1>7, <1>8, <1>9, <1>10, <1>11
    DEF Next, CallbackProceeds, SenderProceeds

LEMMA NextIInv == IInv /\ [Next]_vars => IInv'
  BY NextTyped, NextLocking, NextAudited, NextVoice DEF IInv, Locking, Audited

-----------------------------------------------------------------------------
(***************************************************************************)
(* What a step may do to the status of an incident.                        *)
(***************************************************************************)
LegalStep(i) ==
  \/ <<status[i], status'[i]>> \in Transitions
  \/ apiAcks'[i] > apiAcks[i]
  \/ \E w \in Sweeper : pc[w] = "sweeping" /\ pc'[w] = "done"

LEMMA StatusSteps ==
  ASSUME IInv, [Next]_vars, NEW i \in Incident, status'[i] # status[i]
  PROVE  LegalStep(i)
  <1> USE DEF IInv, TypeOK, Goto, Start, Transitions, LegalStep
  <1>1. ASSUME NEW o \in Operator, OperatorAcks(o) PROVE LegalStep(i)
    BY <1>1 DEF OperatorAcks, Count
  <1>2. ASSUME NEW o \in Operator, OperatorResolves(o) PROVE LegalStep(i)
    <2>1. i = about[o] /\ status'[i] = "RESOLVED"
      BY <1>2 DEF OperatorResolves
    <2>2. pc[o] = "resolve" /\ Reached(i)
      BY <1>2, <2>1 DEF OperatorResolves, Resolvable
    <2>3. /\ apiAcks[i] \in Nat /\ voiceAcks[i] \in Nat
          /\ escalations[i] \in Nat /\ resolutions[i] \in Nat
      OBVIOUS
    <2>4. status[i] # "OPEN"
      BY <2>2, <2>3 DEF Reached, AuditExplainsStatus, StatusExplained
    <2>5. status[i] \in {"ACKNOWLEDGED", "ESCALATED"}
      BY <2>1, <2>4 DEF IncidentStatuses
    <2> QED BY <2>1, <2>5
  <1>3. ASSUME NEW c \in Callback, CallbackAcks(c) PROVE LegalStep(i)
    BY <1>3 DEF CallbackAcks, StillOpen
  <1>4. ASSUME NEW e \in Escalation, NEW j \in Incident, Escalate(e, j) PROVE LegalStep(i)
    BY <1>4 DEF Escalate
  <1>5. ASSUME NEW w \in Sweeper, SweeperCommits(w) PROVE LegalStep(i)
    BY <1>5 DEF SweeperCommits, Proc
  <1>6. CASE UNCHANGED status
    BY <1>6
  <1>7. ASSUME NEW o \in Operator, NEW op \in Operations, NEW j \in Incident,
               OperatorReads(o, op, j)
        PROVE  LegalStep(i)
    BY <1>6, <1>7 DEF OperatorReads
  <1>8. ASSUME NEW c \in Callback,
               \/ \E n \in Notification, x \in Presses : CallbackArrives(c, n, x)
               \/ CallbackLocks(c) \/ CallbackNotes(c)
        PROVE  LegalStep(i)
    BY <1>6, <1>8 DEF CallbackArrives, CallbackLocks, CallbackNotes
  <1>9. ASSUME NEW s \in Sender,
               (\E n \in Notification : SenderLocks(s, n)) \/ SenderProceeds(s)
        PROVE  LegalStep(i)
    BY <1>6, <1>9 DEF SenderLocks, SenderProceeds, SenderCalls, SenderLeaves, SenderCommits
  <1>10. ASSUME NEW s \in Sender, NEW c \in Callback, DeadlockDetector(s, c)
         PROVE  LegalStep(i)
    BY <1>6, <1>10 DEF DeadlockDetector, CancelCallback, CancelSender
  <1>11. ASSUME NEW w \in Sweeper, NEW S \in SUBSET Incident, SweeperReads(w, S)
         PROVE  LegalStep(i)
    BY <1>6, <1>11 DEF SweeperReads
  <1>12. CASE (\E p \in Proc : Dies(p)) \/ UNCHANGED vars
    BY <1>6, <1>12 DEF Dies, vars
  <1> QED
    BY <1>1, <1>2, <1>3, <1>4, <1>5, <1>7, <1>8, <1>9, <1>10, <1>11, <1>12
    DEF Next, OperatorCommits, CallbackProceeds

-----------------------------------------------------------------------------
\* The strengthened invariant holds in every reachable state.
THEOREM Inductive == Spec => []IInv
  BY InitIInv, NextIInv, PTL DEF Spec

\* Type correctness.
THEOREM TypeCorrect == Spec => []TypeOK
  <1>1. IInv => TypeOK
    BY DEF IInv
  <1> QED BY <1>1, Inductive, PTL

\* However callbacks, senders and cancelled transactions interleave, an incident
\* is acknowledged by voice once, by one notification (handle_voice_callback).
THEOREM VoiceOnce == Spec => []VoiceAckOnce
  <1>1. IInv => VoiceAckOnce
    BY DEF IInv
  <1> QED BY <1>1, Inductive, PTL

\* The audit trail explains the status, though the API and the sweeper write
\* what they decided on a stale read.
THEOREM Explained == Spec => []AuditExplainsStatus
  <1>1. IInv => AuditExplainsStatus
    BY DEF IInv
  <1> QED BY <1>1, Inductive, PTL

\* Only an acknowledgement through the API and a sweep leave the life cycle.
THEOREM Legal == Spec => LegalTransitions
  <1>1. IInv /\ [Next]_vars =>
          [\A i \in Incident : status'[i] # status[i] => LegalStep(i)]_vars
    BY StatusSteps
  <1> QED BY <1>1, Inductive, PTL DEF Spec, LegalTransitions, LegalStep
================================================================================
