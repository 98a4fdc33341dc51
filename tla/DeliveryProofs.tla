---------------------------- MODULE DeliveryProofs ----------------------------
(***************************************************************************)
(* Proofs about Delivery, for every number of rows, tasks and replays and  *)
(* for each of the three channels.                                         *)
(*                                                                         *)
(* Core relates the row locks, the positions of the processes and the      *)
(* provider's ledger.  Most steps disturb it in one of two ways: a process *)
(* moves and leaves the database alone (Moves), or it gives up its row     *)
(* lock with what it wrote to the row (Releases).                          *)
(***************************************************************************)
EXTENDS Delivery, TLAPS

\* A process that is past the broker has a row.
RowKnown == \A p \in Proc : pc[p] # "idle" => row[p] \in Notification

\* A row's lock and the processes' positions tell the same story.
LockAgrees ==
  /\ \A p \in Proc : pc[p] \in Holding => lock[row[p]] = p
  /\ \A n \in Notification :
       lock[n] # NoProc => pc[lock[n]] \in Holding /\ row[lock[n]] = n

\* Nobody works on a row that is already in a terminal status.
OpenWhileLocked ==
  \A n \in Notification : lock[n] # NoProc => status[n] \notin Terminal

\* Every accepted message is recorded, lost, or about to be committed.
Ledger ==
  \A n \in Notification :
    accepted[n] = lost[n] + sentLog[n] + (IF Outstanding(n) THEN 1 ELSE 0)

Core == RowKnown /\ LockAgrees /\ OpenWhileLocked /\ Ledger /\ AuditAgreesWithRow

IInv == Typed /\ Core

-----------------------------------------------------------------------------
LEMMA InitIInv == Init => IInv
  <1> SUFFICES ASSUME Init PROVE IInv
    OBVIOUS
  <1> USE DeliveryAssumption DEF DeliveryAssumption, Init
  <1>1. DbOK /\ HistoryOK
    BY DEF DbOK, HistoryOK, Statuses
  <1>2. RedisOK
    <2>1. dlq \in [Notification -> [Errors -> Nat]]
      OBVIOUS
    <2>2. /\ failures \in 0 .. Threshold - 1
          /\ rate \in 0 .. RateLimit + 1
          /\ service \in 0 .. ServiceLimit + 1
      OBVIOUS
    <2>3. circuit \in BOOLEAN /\ claimed \subseteq Key
      BY Zenon
    <2> QED BY <2>1, <2>2, <2>3, Zenon DEF RedisOK
  <1>3. CeleryOK /\ RowKnown
    BY DEF CeleryOK, RowKnown, Errors, Results
  <1>4. LockAgrees /\ OpenWhileLocked
    BY DEF LockAgrees, OpenWhileLocked, Holding
  <1>5. Ledger /\ AuditAgreesWithRow
    BY DEF Ledger, AuditAgreesWithRow, RowAudited, Outstanding, Terminal
  <1> QED BY <1>1, <1>2, <1>3, <1>4, <1>5 DEF IInv, Core, Typed

-----------------------------------------------------------------------------
(***************************************************************************)
(* The two shapes of a step.                                               *)
(***************************************************************************)
\* A process moves between two positions of which both or neither hold the
\* row lock, without touching the database or the provider.
LEMMA Moves ==
  ASSUME IInv, NEW p \in Proc, NEW to, NEW x,
         UNCHANGED <<db, ghosts>>,
         pc' = [pc EXCEPT ![p] = to],
         row' = [row EXCEPT ![p] = x],
         to # "idle" => x \in Notification,
         pc[p] \in Holding <=> to \in Holding,
         to \in Holding => x = row[p],
         pc[p] # "accepted", to # "accepted"
  PROVE  Core'
  <1> USE DEF IInv, Core, Typed, db, ghosts
  <1>1. RowKnown'
    BY DEF RowKnown, CeleryOK
  <1>2. LockAgrees' /\ OpenWhileLocked'
    BY DeliveryAssumption DEF DeliveryAssumption, LockAgrees, OpenWhileLocked, DbOK, CeleryOK
  <1>3. \A n \in Notification : Outstanding(n)' <=> Outstanding(n)
    BY DEF Outstanding, CeleryOK
  <1>4. Ledger' /\ AuditAgreesWithRow'
    BY <1>3 DEF Ledger, AuditAgreesWithRow, RowAudited
  <1> QED BY <1>1, <1>2, <1>4

\* A process that holds its row's lock releases it; only its own row may have
\* changed, and that row's books balance.
LEMMA Releases ==
  ASSUME IInv, NEW p \in Proc, NEW to, NEW x, NEW n, n = row[p],
         pc[p] \in Holding, to \notin Holding,
         pc' = [pc EXCEPT ![p] = to],
         row' = [row EXCEPT ![p] = x],
         to # "idle" => x \in Notification,
         lock' = [lock EXCEPT ![n] = NoProc],
         \A m \in Notification \ {n} :
           /\ status'[m] = status[m]
           /\ sentLog'[m] = sentLog[m]
           /\ quietLog'[m] = quietLog[m]
           /\ accepted'[m] = accepted[m]
           /\ lost'[m] = lost[m],
         accepted'[n] = lost'[n] + sentLog'[n],
         RowAudited(n)',
         lost'[n] \in Nat, sentLog'[n] \in Nat
  PROVE  Core'
  <1> USE DEF IInv, Core, Typed
  <1>1. RowKnown'
    BY DEF RowKnown, CeleryOK
  <1>2. n \in Notification /\ lock[n] = p
    BY DEF RowKnown, LockAgrees, Holding
  <1>3. LockAgrees'
    BY <1>2, DeliveryAssumption DEF DeliveryAssumption, LockAgrees, DbOK, CeleryOK
  <1>4. OpenWhileLocked'
    BY <1>2 DEF OpenWhileLocked, DbOK
  <1>5. \A m \in Notification : Outstanding(m)' <=> Outstanding(m) /\ m # n
    BY <1>2, DeliveryAssumption DEF DeliveryAssumption, LockAgrees, Outstanding, DbOK, CeleryOK
  <1>6. Ledger'
    BY <1>2, <1>5 DEF Ledger, DbOK, HistoryOK
  <1>7. AuditAgreesWithRow'
    BY <1>2 DEF AuditAgreesWithRow, RowAudited
  <1> QED BY <1>1, <1>3, <1>4, <1>6, <1>7

-----------------------------------------------------------------------------
(***************************************************************************)
(* What the helpers of the actions do.                                     *)
(***************************************************************************)
LEMMA ReturnEffect ==
  ASSUME CeleryOK, NEW p \in Proc, row[p] \in Notification,
         NEW r \in Results, Return(p, r)
  PROVE  /\ CeleryOK'
         /\ \E to \in {"done", "unlist", "idle"}, x \in Notification \cup {NoRow} :
              /\ pc' = [pc EXCEPT ![p] = to]
              /\ row' = [row EXCEPT ![p] = x]
              /\ to # "idle" => x \in Notification
  <1> DEFINE to == IF p \in Task THEN "done"
                   ELSE IF r \in {"sent", "already_terminal"} THEN "unlist" ELSE "idle"
             x == IF to = "idle" THEN NoRow ELSE row[p]
  <1>1. pc' = [pc EXCEPT ![p] = to] /\ row' = [row EXCEPT ![p] = x]
    BY DEF Return, Goto, CeleryOK
  <1>2. /\ to \in {"done", "unlist", "idle"}
        /\ x \in Notification \cup {NoRow}
        /\ to # "idle" => x \in Notification
    OBVIOUS
  <1>3. pc' \in [Proc -> {"idle", "queued", "done"} \cup Running]
    BY <1>1, <1>2 DEF CeleryOK, Running
  <1>4. row' \in [Proc -> Notification \cup {NoRow}]
    BY <1>1, <1>2 DEF CeleryOK
  <1>5. CeleryOK'
    BY <1>3, <1>4 DEF Return, CeleryOK
  <1> HIDE DEF to, x
  <1> QED BY <1>1, <1>2, <1>5

LEMMA RaiseEffect ==
  ASSUME CeleryOK, NEW p \in Proc, row[p] \in Notification,
         NEW e \in Errors, Raise(p, e)
  PROVE  /\ CeleryOK'
         /\ \E to \in {"raised", "idle"}, x \in Notification \cup {NoRow} :
              /\ pc' = [pc EXCEPT ![p] = to]
              /\ row' = [row EXCEPT ![p] = x]
              /\ to # "idle" => x \in Notification
  <1> DEFINE to == IF p \in Task THEN "raised" ELSE "idle"
             x == IF p \in Task THEN row[p] ELSE NoRow
  <1>1. pc' = [pc EXCEPT ![p] = to] /\ row' = [row EXCEPT ![p] = x]
    BY DEF Raise, Goto, CeleryOK
  <1>2. /\ to \in {"raised", "idle"}
        /\ x \in Notification \cup {NoRow}
        /\ to # "idle" => x \in Notification
    OBVIOUS
  <1>3. pc' \in [Proc -> {"idle", "queued", "done"} \cup Running]
    BY <1>1, <1>2 DEF CeleryOK, Running
  <1>4. row' \in [Proc -> Notification \cup {NoRow}]
    BY <1>1, <1>2 DEF CeleryOK
  <1>5. error' \in [Proc -> Errors]
    BY DEF Raise, CeleryOK
  <1>6. CeleryOK'
    BY <1>3, <1>4, <1>5 DEF Raise, CeleryOK
  <1> HIDE DEF to, x
  <1> QED BY <1>1, <1>2, <1>6

LEMMA GotoTyped ==
  ASSUME CeleryOK, NEW p \in Proc,
         NEW to \in {"idle", "queued", "done"} \cup Running, Goto(p, to)
  PROVE  pc' \in [Proc -> {"idle", "queued", "done"} \cup Running]
  BY DEF CeleryOK, Goto

LEMMA SameRow ==
  ASSUME CeleryOK, NEW p \in Proc, row' = row
  PROVE  row' = [row EXCEPT ![p] = row[p]]
  BY DEF CeleryOK

\* A process goes on, still holding its row.
LEMMA GoesOn ==
  ASSUME IInv, NEW p \in Proc, NEW to \in Holding \ {"accepted"}, Goto(p, to),
         pc[p] \in Holding \ {"accepted"},
         UNCHANGED <<row, retries, error, result, db, ghosts>>
  PROVE  CeleryOK' /\ DbOK' /\ Core'
  <1>1. row[p] \in Notification /\ to # "idle"
    BY DEF IInv, Core, RowKnown, Holding
  <1>2. pc' \in [Proc -> {"idle", "queued", "done"} \cup Running]
    BY GotoTyped DEF IInv, Typed, Running
  <1>3. CeleryOK' /\ DbOK'
    BY <1>2 DEF IInv, Typed, CeleryOK, DbOK, db
  <1>4. row' = [row EXCEPT ![p] = row[p]]
    BY SameRow DEF IInv, Typed
  <1>5. Core'
    BY <1>1, <1>4, Moves DEF Goto
  <1> QED BY <1>3, <1>5

\* A channel failure keeps the breaker's counter below its threshold.
LEMMA FailureTyped ==
  ASSUME RedisOK, RecordChannelFailure
  PROVE  failures' \in 0 .. Threshold - 1 /\ circuit' \in BOOLEAN
  <1>1. failures' \in 0 .. Threshold - 1
    BY DeliveryAssumption DEF DeliveryAssumption, RedisOK, RecordChannelFailure
  <1>2. circuit' \in BOOLEAN
    BY DEF RedisOK, RecordChannelFailure
  <1> QED BY <1>1, <1>2

LEMMA ForgetTyped ==
  ASSUME CeleryOK, NEW t \in Task, Forget(t) PROVE error' \in [Proc -> Errors]
  BY DEF CeleryOK, Forget, Errors

LEMMA FaultTyped ==
  ASSUME HistoryOK, Fault PROVE faults' \in 0 .. MaxFaults
  BY DeliveryAssumption DEF DeliveryAssumption, HistoryOK, Fault

\* A process that is running has a row, and holds no row unless it is at a
\* holding position.
LEMMA RunningRow ==
  ASSUME IInv, NEW p \in Proc, pc[p] \in Running \cup {"queued", "done"}
  PROVE  row[p] \in Notification
  BY DEF IInv, Core, RowKnown, Running, Holding

LEMMA HeldRow ==
  ASSUME IInv, NEW p \in Proc, pc[p] \in Holding
  PROVE  /\ row[p] \in Notification
         /\ lock[row[p]] = p
         /\ status[row[p]] \notin Terminal
  <1>1. row[p] \in Notification /\ lock[row[p]] = p
    BY DEF IInv, Core, RowKnown, LockAgrees, Holding
  <1>2. p # NoProc
    BY DeliveryAssumption DEF DeliveryAssumption
  <1> QED BY <1>1, <1>2 DEF IInv, Core, OpenWhileLocked

\* A process returns from the implementation and releases its row.
LEMMA ReturnReleases ==
  ASSUME IInv, NEW p \in Proc, NEW r \in Results, Return(p, r), pc[p] \in Holding,
         NEW n, n = row[p],
         lock' = [lock EXCEPT ![n] = NoProc],
         \A m \in Notification \ {n} :
           /\ status'[m] = status[m]
           /\ sentLog'[m] = sentLog[m]
           /\ quietLog'[m] = quietLog[m],
         UNCHANGED ghosts, pc[p] # "accepted",
         sentLog' = sentLog,
         RowAudited(n)'
  PROVE  CeleryOK' /\ Core'
  <1>1. row[p] \in Notification
    BY RunningRow DEF Running
  <1>2. PICK to \in {"done", "unlist", "idle"}, x \in Notification \cup {NoRow} :
          /\ pc' = [pc EXCEPT ![p] = to]
          /\ row' = [row EXCEPT ![p] = x]
          /\ to # "idle" => x \in Notification
    BY <1>1, ReturnEffect DEF IInv, Typed
  <1>3. accepted[n] = lost[n] + sentLog[n] /\ lost[n] \in Nat /\ sentLog[n] \in Nat
    BY <1>1 DEF IInv, Core, Typed, DbOK, HistoryOK, LockAgrees, Ledger, Outstanding
  <1>4. to \notin Holding
    BY DEF Holding
  <1>5. Core'
    BY <1>2, <1>3, <1>4, Releases DEF ghosts
  <1> QED BY <1>1, <1>5, ReturnEffect DEF IInv, Typed

-----------------------------------------------------------------------------
(***************************************************************************)
(* One lemma per action.                                                   *)
(***************************************************************************)
LEMMA SubmitKeeps ==
  ASSUME IInv, NEW t \in Task, NEW n \in Notification, Submit(t, n) PROVE IInv'
  <1> USE DEF Submit, db, breaker, redis, ghosts, Goto
  <1>0. t \in Proc
    BY DEF Proc
  <1>1. Typed'
    BY <1>0 DEF IInv, Typed, DbOK, RedisOK, CeleryOK, HistoryOK
  <1>2. Core'
    BY <1>0, Moves DEF Holding
  <1> QED BY <1>1, <1>2 DEF IInv

LEMMA ReplayKeeps ==
  ASSUME IInv, NEW r \in Replayer, NEW n \in Notification, Replay(r, n) PROVE IInv'
  <1> USE DEF Replay, db, breaker, redis, ghosts, Goto
  <1>0. r \in Proc
    BY DEF Proc
  <1>1. Typed'
    BY <1>0 DEF IInv, Typed, DbOK, RedisOK, CeleryOK, HistoryOK
  <1>2. Core'
    BY <1>0, Moves DEF Holding
  <1> QED BY <1>1, <1>2 DEF IInv

\* Steps that move nobody and leave the database and the provider alone.
LEMMA StandsStill ==
  ASSUME IInv, UNCHANGED <<db, ghosts, pc, row>> PROVE Core'
  BY DEF IInv, Core, RowKnown, LockAgrees, OpenWhileLocked, Ledger, Outstanding,
     AuditAgreesWithRow, RowAudited, db, ghosts

LEMMA ReplayDropsKeeps ==
  ASSUME IInv, NEW r \in Replayer, NEW n \in Notification, ReplayDrops(r, n)
  PROVE  IInv'
  <1> USE DEF ReplayDrops, db, breaker, redis, ghosts
  <1>1. dlq' \in [Notification -> [Errors -> Nat]]
    BY DEF IInv, Typed, RedisOK, Errors
  <1>2. Typed'
    BY <1>1 DEF IInv, Typed, DbOK, RedisOK, CeleryOK, HistoryOK
  <1>3. Core'
    BY StandsStill
  <1> QED BY <1>2, <1>3 DEF IInv

\* What a trim takes from the list.
LEMMA CutTyped ==
  ASSUME IInv, NEW list \in [Notification -> [Errors -> Nat]],
         NEW m \in Notification, NEW f \in Errors, list[m][f] > 0
  PROVE  /\ [list EXCEPT ![m][f] = @ - 1] \in [Notification -> [Errors -> Nat]]
         /\ trimmed \cup {m} \subseteq Notification
  BY DEF IInv, Typed, HistoryOK

LEMMA OthersTrimKeeps ==
  ASSUME IInv, OthersTrim PROVE IInv'
  <1> USE DEF OthersTrim, db, breaker, redis, ghosts
  <1>1. /\ dlq' \in [Notification -> [Errors -> Nat]]
        /\ trimmed' \subseteq Notification
    BY CutTyped DEF IInv, Typed, RedisOK
  <1>2. Typed'
    BY <1>1 DEF IInv, Typed, DbOK, RedisOK, CeleryOK, HistoryOK
  <1>3. Core'
    BY StandsStill
  <1> QED BY <1>2, <1>3 DEF IInv

\* A push adds the entry, and what it trims is an entry that was there.
LEMMA PushTyped ==
  ASSUME IInv, NEW n \in Notification, NEW e \in Errors, Push(n, e)
  PROVE  dlq' \in [Notification -> [Errors -> Nat]] /\ trimmed' \subseteq Notification
  <1> DEFINE pushed == [dlq EXCEPT ![n][e] = @ + 1]
  <1>1. pushed \in [Notification -> [Errors -> Nat]]
    BY DEF IInv, Typed, RedisOK
  <1>2. CASE dlq' = pushed /\ UNCHANGED trimmed
    BY <1>1, <1>2 DEF IInv, Typed, HistoryOK
  <1>3. ASSUME NEW m \in Notification, NEW f \in Errors, dlq[m][f] > 0,
               dlq' = [pushed EXCEPT ![m][f] = @ - 1], trimmed' = trimmed \cup {m}
        PROVE  dlq' \in [Notification -> [Errors -> Nat]] /\ trimmed' \subseteq Notification
    <2>1. pushed[m][f] > 0
      BY <1>3 DEF IInv, Typed, RedisOK
    <2> HIDE DEF pushed
    <2> QED BY <1>1, <1>3, <2>1, CutTyped
  <1> QED BY <1>2, <1>3 DEF Push

LEMMA UnlistKeeps ==
  ASSUME IInv, NEW r \in Replayer, Unlist(r) PROVE IInv'
  <1> USE DEF Unlist, db, breaker, redis, ghosts, Goto
  <1>0. r \in Proc /\ row[r] \in Notification
    BY RunningRow DEF Proc, Running
  <1>a. PICK n \in Notification : n = row[r]
    BY <1>0
  <1>1. dlq' \in [Notification -> [Errors -> Nat]]
    <2>1. CASE dlq[n]["transient"] > 0 /\ dlq' = [dlq EXCEPT ![n]["transient"] = @ - 1]
      BY <1>a, <2>1 DEF IInv, Typed, RedisOK, Errors
    <2>2. CASE UNCHANGED dlq
      BY <2>2 DEF IInv, Typed, RedisOK
    <2> QED BY <1>a, <2>1, <2>2
  <1>2. Typed'
    BY <1>0, <1>1 DEF IInv, Typed, DbOK, RedisOK, CeleryOK, HistoryOK
  <1>3. Core'
    BY <1>0, Moves DEF Holding
  <1> QED BY <1>2, <1>3 DEF IInv

LEMMA LockRowKeeps ==
  ASSUME IInv, NEW p \in Proc, LockRow(p) PROVE IInv'
  <1> DEFINE n == row[p]
  <1> USE DEF LockRow, db, breaker, redis, ghosts
  <1>0. n \in Notification
    BY RunningRow
  <1>1. CASE status[n] \in Terminal /\ Return(p, "already_terminal") /\ UNCHANGED lock
    <2>1. CeleryOK'
      BY <1>0, <1>1, ReturnEffect DEF IInv, Typed, Results
    <2>2. Typed'
      BY <1>1, <2>1 DEF IInv, Typed, DbOK, RedisOK, HistoryOK
    <2>3. PICK to \in {"done", "unlist", "idle"}, x \in Notification \cup {NoRow} :
            /\ pc' = [pc EXCEPT ![p] = to]
            /\ row' = [row EXCEPT ![p] = x]
            /\ to # "idle" => x \in Notification
      BY <1>0, <1>1, ReturnEffect DEF IInv, Typed, Results
    <2>4. Core'
      BY <1>1, <2>3, Moves DEF Holding
    <2> QED BY <2>2, <2>4 DEF IInv
  <1>2. CASE /\ status[n] \notin Terminal
             /\ lock' = [lock EXCEPT ![n] = p]
             /\ Goto(p, "locked")
             /\ UNCHANGED <<row, retries, error, result>>
    <2> USE <1>0, <1>2, DeliveryAssumption DEF DeliveryAssumption, Goto
    <2>1. Typed'
      BY DEF IInv, Typed, DbOK, RedisOK, HistoryOK, CeleryOK, Running, Holding
    <2>2. RowKnown' /\ LockAgrees' /\ OpenWhileLocked'
      BY DEF IInv, Core, Typed, DbOK, CeleryOK, RowKnown, LockAgrees, OpenWhileLocked, Holding
    <2>3. \A m \in Notification : Outstanding(m)' <=> Outstanding(m)
      BY DEF IInv, Core, Typed, DbOK, CeleryOK, LockAgrees, Outstanding, Holding
    <2>4. Ledger' /\ AuditAgreesWithRow'
      BY <2>3 DEF IInv, Core, Ledger, AuditAgreesWithRow, RowAudited
    <2> QED BY <2>1, <2>2, <2>4 DEF IInv, Core
  <1> QED BY <1>1, <1>2

LEMMA CheckCircuitKeeps ==
  ASSUME IInv, NEW p \in Proc, CheckCircuit(p) PROVE IInv'
  <1> USE DEF CheckCircuit, db, breaker, redis, ghosts
  <1>0. PICK n \in Notification : n = row[p]
    BY RunningRow DEF Running, Holding
  <1>1. CASE circuit /\ Return(p, "skipped_circuit") /\ Unlock(row[p])
    <2>1. RowAudited(n)'
      BY <1>0 DEF IInv, Core, AuditAgreesWithRow, RowAudited
    <2>2. CeleryOK' /\ Core'
      BY <1>0, <1>1, <2>1, ReturnReleases DEF Unlock, Results, Holding
    <2>3. Typed'
      BY <1>0, <1>1, <2>2 DEF IInv, Typed, DbOK, RedisOK, HistoryOK, Unlock
    <2> QED BY <2>2, <2>3 DEF IInv
  <1>2. CASE ~circuit /\ Goto(p, "admitted") /\ UNCHANGED <<lock, row, retries, error, result>>
    <2>1. CeleryOK' /\ DbOK' /\ Core'
      BY <1>2, GoesOn DEF Holding
    <2>2. RedisOK' /\ HistoryOK'
      BY DEF IInv, Typed, RedisOK, HistoryOK
    <2> QED BY <2>1, <2>2 DEF IInv, Typed
  <1> QED BY <1>1, <1>2

LEMMA CheckRateKeeps ==
  ASSUME IInv, NEW p \in Proc, CheckRate(p) PROVE IInv'
  <1> USE DEF CheckRate, db, breaker, redis, ghosts
  <1>0. PICK n \in Notification : n = row[p]
    BY RunningRow DEF Running, Holding
  <1>r. RedisOK'
    BY DeliveryAssumption DEF DeliveryAssumption, IInv, Typed, RedisOK
  <1>1. CASE Return(p, "skipped_rate_limit") /\ Unlock(row[p])
    <2>1. RowAudited(n)'
      BY <1>0 DEF IInv, Core, AuditAgreesWithRow, RowAudited
    <2>2. CeleryOK' /\ Core'
      BY <1>0, <1>1, <2>1, ReturnReleases DEF Unlock, Results, Holding
    <2>3. Typed'
      BY <1>0, <1>1, <1>r, <2>2 DEF IInv, Typed, DbOK, HistoryOK, Unlock
    <2> QED BY <2>2, <2>3 DEF IInv
  <1>2. CASE Goto(p, "ready") /\ UNCHANGED <<lock, row, retries, error, result>>
    <2>1. CeleryOK' /\ DbOK' /\ Core'
      BY <1>2, GoesOn DEF Holding
    <2>2. HistoryOK'
      BY DEF IInv, Typed, HistoryOK
    <2> QED BY <1>r, <2>1, <2>2 DEF IInv, Typed
  <1> QED BY <1>1, <1>2

LEMMA FailUnconfiguredKeeps ==
  ASSUME IInv, NEW p \in Proc, FailUnconfigured(p) PROVE IInv'
  <1> USE DEF FailUnconfigured, MarkFailed, Unlock, db, breaker, redis, ghosts
  <1>0. PICK n \in Notification : n = row[p]
    BY RunningRow DEF Running, Holding
  <1>1. status[n] \notin Terminal
    BY <1>0, HeldRow DEF Holding
  <1>2. RowAudited(n)'
    BY <1>0, <1>1 DEF IInv, Core, AuditAgreesWithRow, RowAudited, Terminal, Typed, DbOK
  <1>3. CeleryOK' /\ Core'
    BY <1>0, <1>2, ReturnReleases DEF Results, Holding, IInv, Typed, DbOK
  <1>4. RedisOK'
    BY FailureTyped DEF IInv, Typed, RedisOK
  <1>5. DbOK' /\ HistoryOK'
    BY <1>0 DEF IInv, Typed, DbOK, HistoryOK, Statuses
  <1> QED BY <1>3, <1>4, <1>5 DEF IInv, Typed

LEMMA EmailRefusedKeeps ==
  ASSUME IInv, NEW p \in Proc, EmailRefused(p) PROVE IInv'
  <1> USE DEF EmailRefused, MarkFailed, Unlock, db, breaker, redis, ghosts
  <1>p. pc[p] \in Holding /\ pc[p] # "accepted"
    BY DEF Calling, CallPoint, Holding
  <1>0. PICK n \in Notification : n = row[p]
    BY <1>p, RunningRow DEF Running
  <1>1. status[n] \notin Terminal
    BY <1>p, <1>0, HeldRow
  <1>2. RowAudited(n)'
    BY <1>0, <1>1 DEF IInv, Core, AuditAgreesWithRow, RowAudited, Terminal, Typed, DbOK
  <1>3. CeleryOK' /\ Core'
    BY <1>p, <1>0, <1>2, ReturnReleases DEF Results, IInv, Typed, DbOK
  <1>4. RedisOK'
    BY FailureTyped DEF IInv, Typed, RedisOK
  <1>5. DbOK' /\ HistoryOK'
    BY <1>0 DEF IInv, Typed, DbOK, HistoryOK, Statuses
  <1> QED BY <1>3, <1>4, <1>5 DEF IInv, Typed

\* The row is closed without a send: only its status and its audit change.
LEMMA SuppressedReleases ==
  ASSUME IInv, NEW p \in Proc, NEW n \in Notification, n = row[p],
         pc[p] \in Holding, pc[p] # "accepted",
         MarkSuppressed(n), Return(p, "suppressed"), UNCHANGED ghosts
  PROVE  CeleryOK' /\ DbOK' /\ Core'
  <1> USE DEF MarkSuppressed, Unlock
  <1>1. status[n] \notin Terminal
    BY HeldRow
  <1>2. RowAudited(n)'
    BY <1>1 DEF IInv, Core, AuditAgreesWithRow, RowAudited, Terminal, Typed, DbOK
  <1>3. CeleryOK' /\ Core'
    BY <1>2, ReturnReleases DEF Results, IInv, Typed, DbOK
  <1>4. DbOK'
    BY DEF IInv, Typed, DbOK, Statuses, Terminal
  <1> QED BY <1>3, <1>4

LEMMA ClaimKeyKeeps ==
  ASSUME IInv, NEW p \in Proc, ClaimKey(p) PROVE IInv'
  <1> USE DEF ClaimKey, breaker, redis, ghosts
  <1>0. PICK n \in Notification : n = row[p]
    BY RunningRow DEF Running, Holding
  <1>1. RedisOK' /\ HistoryOK'
    BY <1>0, DeliveryAssumption DEF DeliveryAssumption, IInv, Typed, RedisOK, HistoryOK
  <1>2. CASE MarkSuppressed(n) /\ Return(p, "suppressed")
    BY <1>0, <1>1, <1>2, SuppressedReleases DEF Holding, IInv, Typed
  <1>3. CASE Goto(p, "claimed") /\ UNCHANGED <<db, row, retries, error, result>>
    BY <1>1, <1>3, GoesOn DEF Holding, IInv, Typed
  <1> QED BY <1>0, <1>2, <1>3

LEMMA CountServiceKeeps ==
  ASSUME IInv, NEW p \in Proc, CountService(p) PROVE IInv'
  <1> USE DEF CountService, breaker, redis, ghosts
  <1>0. PICK n \in Notification : n = row[p]
    BY RunningRow DEF Running, Holding
  <1>1. RedisOK' /\ HistoryOK'
    BY <1>0, DeliveryAssumption DEF DeliveryAssumption, IInv, Typed, RedisOK, HistoryOK
  <1>2. CASE MarkSuppressed(n) /\ Return(p, "suppressed")
    BY <1>0, <1>1, <1>2, SuppressedReleases DEF Holding, IInv, Typed
  <1>3. CASE Goto(p, "cleared") /\ UNCHANGED <<db, digest, row, retries, error, result>>
    BY <1>1, <1>3, GoesOn DEF Holding, IInv, Typed
  <1> QED BY <1>0, <1>2, <1>3

LEMMA ProviderAcceptsKeeps ==
  ASSUME IInv, NEW p \in Proc, ProviderAccepts(p) PROVE IInv'
  <1> USE DEF ProviderAccepts, db, breaker, redis, Goto
  <1>p. pc[p] \in Holding /\ pc[p] # "accepted"
    BY DEF Calling, CallPoint, Holding
  <1>0. PICK n \in Notification : n = row[p]
    BY <1>p, RunningRow DEF Running
  <1>1. Typed'
    BY <1>0 DEF IInv, Typed, DbOK, RedisOK, CeleryOK, HistoryOK, Running, Holding
  <1>2. RowKnown' /\ LockAgrees' /\ OpenWhileLocked'
    BY <1>p, <1>0 DEF IInv, Core, Typed, DbOK, CeleryOK, RowKnown, LockAgrees, OpenWhileLocked, Holding
  <1>h. lock[n] = p
    BY <1>p, <1>0, HeldRow
  <1>3. /\ ~Outstanding(n)
        /\ \A m \in Notification : Outstanding(m)' <=> Outstanding(m) \/ m = n
    <2>1. ~Outstanding(n) /\ Outstanding(n)'
      BY <1>p, <1>h DEF Outstanding, IInv, Typed, CeleryOK
    <2>2. ASSUME NEW m \in Notification, m # n PROVE Outstanding(m)' <=> Outstanding(m)
      <3>1. lock[m] # p
        BY <1>0, <2>2, DeliveryAssumption DEF DeliveryAssumption, IInv, Core, LockAgrees
      <3> QED BY <3>1 DEF Outstanding, IInv, Typed, CeleryOK
    <2> QED BY <2>1, <2>2
  <1>4. Ledger' /\ AuditAgreesWithRow'
    BY <1>0, <1>3 DEF IInv, Core, Typed, DbOK, HistoryOK, Ledger, AuditAgreesWithRow, RowAudited
  <1> QED BY <1>1, <1>2, <1>4 DEF IInv, Core

\* An exception releases the row and leaves it as it was; what the provider
\* took meanwhile is lost.
LEMMA RaiseReleases ==
  ASSUME IInv, NEW p \in Proc, NEW e \in Errors, Raise(p, e), pc[p] \in Holding,
         NEW n \in Notification, n = row[p], Unlock(n),
         UNCHANGED <<status, sentLog, quietLog>>,
         NEW a \in Nat,
         accepted' = [accepted EXCEPT ![n] = lost'[n] + sentLog[n]],
         lost' = [lost EXCEPT ![n] = @ + a]
  PROVE  CeleryOK' /\ DbOK' /\ Core'
  <1>1. PICK to \in {"raised", "idle"}, x \in Notification \cup {NoRow} :
          /\ pc' = [pc EXCEPT ![p] = to]
          /\ row' = [row EXCEPT ![p] = x]
          /\ to # "idle" => x \in Notification
    BY RaiseEffect DEF IInv, Typed
  <1>2. RowAudited(n)'
    BY DEF IInv, Core, AuditAgreesWithRow, RowAudited
  <1>3. DbOK'
    BY DEF IInv, Typed, DbOK, Unlock
  <1>4. to \notin Holding
    BY DEF Holding
  <1>5. /\ accepted'[n] = lost'[n] + sentLog'[n]
        /\ lost'[n] \in Nat /\ sentLog'[n] \in Nat
        /\ \A m \in Notification \ {n} : accepted'[m] = accepted[m] /\ lost'[m] = lost[m]
    BY DEF IInv, Typed, DbOK, HistoryOK
  <1>6. Core'
    BY <1>1, <1>2, <1>4, <1>5, Releases DEF Unlock
  <1> QED BY <1>3, <1>6, RaiseEffect DEF IInv, Typed

LEMMA ProviderRaisesKeeps ==
  ASSUME IInv, NEW p \in Proc, NEW e \in Errors, ProviderRaises(p, e) PROVE IInv'
  <1> USE DEF ProviderRaises, breaker, redis, ghosts
  <1>p. pc[p] \in Holding /\ pc[p] # "accepted"
    BY DEF Calling, CallPoint, Holding
  <1>0. PICK n \in Notification : n = row[p]
    BY <1>p, RunningRow DEF Running
  <1>1. accepted[n] = lost[n] + sentLog[n]
    BY <1>p, <1>0 DEF IInv, Core, Typed, DbOK, HistoryOK, LockAgrees, Ledger, Outstanding
  <1>2. accepted' = [accepted EXCEPT ![n] = lost'[n] + sentLog[n]]
    BY <1>1 DEF IInv, Typed, HistoryOK
  <1>3. lost' = [lost EXCEPT ![n] = @ + 0]
    BY <1>0 DEF IInv, Typed, HistoryOK
  <1>4. CeleryOK' /\ DbOK' /\ Core'
    BY <1>p, <1>0, <1>2, <1>3, RaiseReleases
  <1>5. RedisOK' /\ HistoryOK'
    BY DEF IInv, Typed, RedisOK, HistoryOK
  <1> QED BY <1>4, <1>5 DEF IInv, Typed

LEMMA ResponseLostKeeps ==
  ASSUME IInv, NEW p \in Proc, ResponseLost(p) PROVE IInv'
  <1> USE DEF ResponseLost, breaker, redis
  <1>p. pc[p] \in Holding /\ pc[p] # "accepted"
    BY DEF Calling, CallPoint, Holding
  <1>0. PICK n \in Notification : n = row[p]
    BY <1>p, RunningRow DEF Running
  <1>1. accepted[n] = lost[n] + sentLog[n] /\ lost[n] \in Nat /\ sentLog[n] \in Nat
    BY <1>p, <1>0 DEF IInv, Core, Typed, DbOK, HistoryOK, LockAgrees, Ledger, Outstanding
  <1>2. lost' = [lost EXCEPT ![n] = @ + 1] /\ lost'[n] = lost[n] + 1
    BY <1>0 DEF IInv, Typed, HistoryOK
  <1>a. accepted[n] + 1 = lost'[n] + sentLog[n]
    BY <1>1, <1>2
  <1>3. accepted' = [accepted EXCEPT ![n] = lost'[n] + sentLog[n]]
    BY <1>0, <1>a
  <1>4. CeleryOK' /\ DbOK' /\ Core'
    <2>1. /\ Raise(p, "transient") /\ "transient" \in Errors
          /\ Unlock(n)
          /\ UNCHANGED <<status, sentLog, quietLog>>
      BY <1>0 DEF Errors, db
    <2> HIDE DEF ResponseLost
    <2> QED BY <1>p, <1>0, <1>2, <1>3, <2>1, RaiseReleases
  <1>5. RedisOK' /\ HistoryOK'
    BY <1>0, FaultTyped DEF IInv, Typed, RedisOK, HistoryOK
  <1> QED BY <1>4, <1>5 DEF IInv, Typed

LEMMA CommitFailsKeeps ==
  ASSUME IInv, NEW p \in Proc, CommitFails(p) PROVE IInv'
  <1> USE DEF CommitFails, breaker, redis
  <1>p. pc[p] \in Holding
    BY DEF Holding
  <1>0. PICK n \in Notification : n = row[p]
    BY <1>p, RunningRow DEF Running
  <1>1. accepted[n] = lost[n] + sentLog[n] + 1 /\ lost[n] \in Nat /\ sentLog[n] \in Nat
    BY <1>0, HeldRow DEF IInv, Core, Typed, DbOK, HistoryOK, Ledger, Outstanding, Holding
  <1>2. lost' = [lost EXCEPT ![n] = @ + 1] /\ lost'[n] = lost[n] + 1
    BY <1>0 DEF IInv, Typed, HistoryOK
  <1>a. accepted[n] = lost'[n] + sentLog[n]
    BY <1>1, <1>2
  <1>3. accepted' = [accepted EXCEPT ![n] = lost'[n] + sentLog[n]]
    BY <1>0, <1>a DEF IInv, Typed, HistoryOK
  <1>4. CeleryOK' /\ DbOK' /\ Core'
    <2>1. /\ Raise(p, "transient") /\ "transient" \in Errors
          /\ Unlock(n)
          /\ UNCHANGED <<status, sentLog, quietLog>>
      BY <1>0 DEF Errors, db
    <2> HIDE DEF CommitFails
    <2> QED BY <1>p, <1>0, <1>2, <1>3, <2>1, RaiseReleases
  <1>5. RedisOK' /\ HistoryOK'
    BY <1>0, FaultTyped DEF IInv, Typed, RedisOK, HistoryOK
  <1> QED BY <1>4, <1>5 DEF IInv, Typed

LEMMA CommitSentKeeps ==
  ASSUME IInv, NEW p \in Proc, CommitSent(p) PROVE IInv'
  <1>p. pc[p] \in Holding
    BY DEF CommitSent, Holding
  <1>0. PICK n \in Notification : n = row[p]
    BY <1>p, RunningRow DEF Running
  <1>a. lock[n] = p /\ status[n] \notin Terminal
    BY <1>p, <1>0, HeldRow
  <1>1. /\ accepted[n] = lost[n] + sentLog[n] + 1 /\ lost[n] \in Nat /\ sentLog[n] \in Nat
        /\ status[n] \notin Terminal
    BY <1>a DEF CommitSent, IInv, Core, Typed, DbOK, HistoryOK, Ledger, Outstanding
  <1>2. DbOK'
    BY <1>0, <1>1 DEF CommitSent, Unlock, IInv, Typed, DbOK, Statuses, Terminal
  <1>3. CeleryOK'
    BY GotoTyped DEF CommitSent, IInv, Typed, CeleryOK, Running
  <1>4. RowAudited(n)'
    BY <1>0, <1>1 DEF CommitSent, Unlock, IInv, Core, Typed, DbOK, AuditAgreesWithRow, RowAudited, Terminal
  <1>5. row' = [row EXCEPT ![p] = row[p]]
    BY SameRow DEF CommitSent, IInv, Typed
  <1>6. accepted'[n] = lost'[n] + sentLog'[n] /\ sentLog'[n] \in Nat
    BY <1>0, <1>1 DEF CommitSent, ghosts, IInv, Typed, DbOK
  <1>7. \A m \in Notification \ {n} :
           /\ status'[m] = status[m]
           /\ sentLog'[m] = sentLog[m]
           /\ quietLog'[m] = quietLog[m]
           /\ accepted'[m] = accepted[m]
           /\ lost'[m] = lost[m]
    BY <1>0 DEF CommitSent, ghosts, IInv, Typed, DbOK
  <1>b. "committed" \notin Holding /\ pc' = [pc EXCEPT ![p] = "committed"]
    BY DEF CommitSent, Goto, Holding
  <1>c. lock' = [lock EXCEPT ![n] = NoProc] /\ lost'[n] \in Nat
    BY <1>0, <1>1 DEF CommitSent, Unlock, ghosts
  <1>8. Core'
    BY <1>p, <1>0, <1>4, <1>5, <1>6, <1>7, <1>b, <1>c, Releases
  <1>9. RedisOK' /\ HistoryOK'
    BY DEF CommitSent, breaker, redis, ghosts, IInv, Typed, RedisOK, HistoryOK
  <1> QED BY <1>2, <1>3, <1>8, <1>9 DEF IInv, Typed

LEMMA ResetFailuresKeeps ==
  ASSUME IInv, NEW p \in Proc, ResetFailures(p) PROVE IInv'
  <1> USE DEF ResetFailures, db, redis, ghosts
  <1>0. row[p] \in Notification
    BY RunningRow DEF Running
  <1>1. CeleryOK'
    BY <1>0, ReturnEffect DEF IInv, Typed, Results
  <1>2. PICK to \in {"done", "unlist", "idle"}, x \in Notification \cup {NoRow} :
          /\ pc' = [pc EXCEPT ![p] = to]
          /\ row' = [row EXCEPT ![p] = x]
          /\ to # "idle" => x \in Notification
    BY <1>0, ReturnEffect DEF IInv, Typed, Results
  <1>3. Core'
    BY <1>2, Moves DEF Holding
  <1>4. DbOK' /\ HistoryOK'
    BY DEF IInv, Typed, DbOK, HistoryOK
  <1>5. RedisOK'
    BY DeliveryAssumption DEF DeliveryAssumption, IInv, Typed, RedisOK
  <1> QED BY <1>1, <1>3, <1>4, <1>5 DEF IInv, Typed

\* A task goes on with the same row, holding no lock.
LEMMA GoesOnFree ==
  ASSUME IInv, NEW p \in Proc, NEW to \in {"queued", "exhausted", "pushed"}, Goto(p, to),
         pc[p] \in Running \ Holding, UNCHANGED <<db, row, ghosts>>
  PROVE  /\ pc' \in [Proc -> {"idle", "queued", "done"} \cup Running]
         /\ DbOK' /\ Core'
  <1>1. row[p] \in Notification
    BY RunningRow
  <1>2. pc' \in [Proc -> {"idle", "queued", "done"} \cup Running]
    BY GotoTyped DEF IInv, Typed, Running
  <1>3. row' = [row EXCEPT ![p] = row[p]]
    BY SameRow DEF IInv, Typed
  <1>4. pc' = [pc EXCEPT ![p] = to] /\ to \notin Holding /\ to # "accepted" /\ pc[p] # "accepted"
    BY DEF Goto, Holding
  <1>5. Core'
    BY <1>1, <1>3, <1>4, Moves
  <1>6. DbOK'
    BY DEF IInv, Typed, DbOK, db
  <1> QED BY <1>2, <1>5, <1>6

LEMMA RetryKeeps ==
  ASSUME IInv, NEW t \in Task, Retry(t) PROVE IInv'
  <1> USE DEF Retry, breaker, redis, ghosts
  <1>0. t \in Proc
    BY DEF Proc
  <1>1. pc' \in [Proc -> {"idle", "queued", "done"} \cup Running] /\ DbOK' /\ Core'
    BY <1>0, GoesOnFree DEF Running, Holding
  <1>2. retries' \in [Task -> Nat] /\ error' \in [Proc -> Errors]
    BY ForgetTyped DEF IInv, Typed, CeleryOK
  <1>3. CeleryOK' /\ RedisOK' /\ HistoryOK'
    BY <1>1, <1>2 DEF IInv, Typed, CeleryOK, RedisOK, HistoryOK
  <1> QED BY <1>1, <1>3 DEF IInv, Typed

LEMMA GiveUpKeeps ==
  ASSUME IInv, NEW t \in Task, GiveUp(t) PROVE IInv'
  <1> USE DEF GiveUp, breaker, redis, ghosts
  <1>0. t \in Proc
    BY DEF Proc
  <1>1. pc' \in [Proc -> {"idle", "queued", "done"} \cup Running] /\ DbOK' /\ Core'
    BY <1>0, GoesOnFree DEF Running, Holding
  <1>2. CeleryOK' /\ RedisOK' /\ HistoryOK'
    BY <1>1 DEF IInv, Typed, CeleryOK, RedisOK, HistoryOK
  <1> QED BY <1>1, <1>2 DEF IInv, Typed

LEMMA PolicyLookupFailsKeeps ==
  ASSUME IInv, NEW t \in Task, PolicyLookupFails(t) PROVE IInv'
  <1> USE DEF PolicyLookupFails, breaker, redis, ghosts
  <1>0. t \in Proc
    BY DEF Proc
  <1>1. pc' \in [Proc -> {"idle", "queued", "done"} \cup Running] /\ DbOK' /\ Core'
    BY <1>0, GoesOnFree DEF Running, Holding
  <1>2. error' \in [Proc -> Errors]
    BY DEF IInv, Typed, CeleryOK, Errors
  <1>3. CeleryOK' /\ RedisOK' /\ HistoryOK'
    BY <1>1, <1>2, FaultTyped DEF IInv, Typed, CeleryOK, RedisOK, HistoryOK
  <1> QED BY <1>1, <1>3 DEF IInv, Typed

LEMMA SignalKeeps ==
  ASSUME IInv, NEW t \in Task, NEW limit, Signal(t, limit), faults' \in 0 .. MaxFaults
  PROVE  IInv'
  <1> USE DEF Signal, breaker, redis, ghosts
  <1>0. t \in Proc
    BY DEF Proc
  <1>a. PICK n \in Notification : n = row[t]
    BY <1>0, RunningRow DEF Running
  <1>h. DbOK' /\ (trimmed' \subseteq Notification => HistoryOK')
    BY DEF IInv, Typed, HistoryOK, DbOK, db
  <1>1. CASE Return(t, "unretried") /\ UNCHANGED <<dlq, trimmed>>
    <2>1. CeleryOK'
      BY <1>0, <1>a, <1>1, ReturnEffect DEF IInv, Typed, Results
    <2>2. PICK to \in {"done", "unlist", "idle"}, x \in Notification \cup {NoRow} :
            /\ pc' = [pc EXCEPT ![t] = to]
            /\ row' = [row EXCEPT ![t] = x]
            /\ to # "idle" => x \in Notification
      BY <1>0, <1>a, <1>1, ReturnEffect DEF IInv, Typed, Results
    <2>3. Core'
      BY <1>0, <2>2, Moves DEF Holding
    <2>4. RedisOK' /\ trimmed' \subseteq Notification
      BY <1>1 DEF IInv, Typed, RedisOK, HistoryOK
    <2> QED BY <1>h, <2>1, <2>3, <2>4 DEF IInv, Typed
  <1>2. CASE /\ Push(n, error[t])
             /\ Forget(t)
             /\ Goto(t, "pushed")
             /\ UNCHANGED <<row, retries, result>>
    <2>1. pc' \in [Proc -> {"idle", "queued", "done"} \cup Running] /\ Core'
      BY <1>0, <1>2, GoesOnFree DEF Running, Holding
    <2>2. CeleryOK'
      BY <1>2, <2>1, ForgetTyped DEF IInv, Typed, CeleryOK
    <2>e. PICK e \in Errors : e = error[t]
      BY <1>0 DEF IInv, Typed, CeleryOK
    <2>3. dlq' \in [Notification -> [Errors -> Nat]] /\ trimmed' \subseteq Notification
      BY <1>2, <2>e, PushTyped
    <2>4. RedisOK'
      BY <2>3 DEF IInv, Typed, RedisOK
    <2> QED BY <1>h, <2>1, <2>2, <2>3, <2>4 DEF IInv, Typed
  <1> QED BY <1>a, <1>1, <1>2

LEMMA RecordFinalFailureKeeps ==
  ASSUME IInv, NEW t \in Task, RecordFinalFailure(t) PROVE IInv'
  <1> USE DEF RecordFinalFailure, redis, ghosts
  <1>0. t \in Proc
    BY DEF Proc
  <1>a. PICK n \in Notification : n = row[t]
    BY <1>0, RunningRow DEF Running
  <1>b. CeleryOK'
    BY <1>0, <1>a, ReturnEffect DEF IInv, Typed, Results
  <1>c. PICK to \in {"done", "unlist", "idle"}, x \in Notification \cup {NoRow} :
          /\ pc' = [pc EXCEPT ![t] = to]
          /\ row' = [row EXCEPT ![t] = x]
          /\ to # "idle" => x \in Notification
    BY <1>0, <1>a, ReturnEffect DEF IInv, Typed, Results
  <1>h. HistoryOK'
    BY DEF IInv, Typed, HistoryOK
  <1>1. CASE status[n] \in Terminal /\ UNCHANGED <<db, breaker>>
    <2>1. Core'
      BY <1>0, <1>1, <1>c, Moves DEF Holding
    <2>2. DbOK' /\ RedisOK'
      BY <1>1 DEF IInv, Typed, DbOK, RedisOK, db, breaker
    <2> QED BY <1>b, <1>h, <2>1, <2>2 DEF IInv, Typed
  <1>2. CASE status[n] \notin Terminal /\ MarkFailed(n)
    <2> USE <1>2 DEF MarkFailed, Unlock
    <2>1. DbOK'
      BY DEF IInv, Typed, DbOK, Statuses
    <2>2. RedisOK'
      BY FailureTyped DEF IInv, Typed, RedisOK
    <2>3. lock[n] = NoProc /\ lock' = lock
      BY <1>a DEF IInv, Typed, DbOK
    <2>4. RowKnown'
      BY <1>0, <1>c DEF IInv, Core, Typed, RowKnown, CeleryOK
    <2>5. LockAgrees'
      BY <1>0, <1>c, <2>3, DeliveryAssumption
      DEF DeliveryAssumption, IInv, Core, Typed, LockAgrees, CeleryOK, DbOK, Holding
    <2>6. OpenWhileLocked'
      BY <2>3 DEF IInv, Core, Typed, OpenWhileLocked, DbOK
    <2>7. \A m \in Notification : Outstanding(m)' <=> Outstanding(m)
      BY <1>0, <1>c, <2>3 DEF IInv, Core, Typed, LockAgrees, Outstanding, CeleryOK, Holding
    <2>8. Ledger'
      BY <2>7 DEF IInv, Core, Ledger
    <2>9. AuditAgreesWithRow'
      BY <1>a DEF IInv, Core, Typed, DbOK, AuditAgreesWithRow, RowAudited, Terminal
    <2> QED BY <1>b, <1>h, <2>1, <2>2, <2>4, <2>5, <2>6, <2>8, <2>9 DEF IInv, Core, Typed
  <1> QED BY <1>a, <1>1, <1>2

\* Where a crash sends the process, and that its books balance.
LEMMA CrashKeeps ==
  ASSUME IInv, NEW p \in Proc, Crash(p) PROVE IInv'
  <1> DEFINE to == IF p \in Task THEN "queued" ELSE "idle"
             x == IF p \in Task THEN row[p] ELSE NoRow
  <1>0. PICK n \in Notification : n = row[p]
    BY RunningRow DEF Crash
  <1>1. /\ pc' = [pc EXCEPT ![p] = to] /\ row' = [row EXCEPT ![p] = x]
        /\ to \in {"queued", "idle"} /\ x \in Notification \cup {NoRow}
        /\ to # "idle" => x \in Notification
    BY <1>0 DEF Crash, Goto, IInv, Typed, CeleryOK
  <1> HIDE DEF to, x
  <1>2. CeleryOK'
    <2>1. pc' \in [Proc -> {"idle", "queued", "done"} \cup Running]
      BY <1>1 DEF IInv, Typed, CeleryOK
    <2>2. row' \in [Proc -> Notification \cup {NoRow}]
      BY <1>1 DEF IInv, Typed, CeleryOK
    <2> QED BY <2>1, <2>2 DEF Crash, IInv, Typed, CeleryOK
  <1>3. RedisOK'
    BY DEF Crash, breaker, redis, IInv, Typed, RedisOK
  <1>4. DbOK'
    BY <1>0, DeliveryAssumption DEF DeliveryAssumption, Crash, IInv, Typed, DbOK
  <1>5. PICK reached \in BOOLEAN :
          /\ reached => Calling(p) /\ n \in configured
          /\ accepted' = IF reached THEN [accepted EXCEPT ![n] = @ + 1] ELSE accepted
          /\ lost' = IF reached \/ pc[p] = "accepted"
                     THEN [lost EXCEPT ![n] = @ + 1] ELSE lost
    BY <1>0 DEF Crash
  <1>6. HistoryOK'
    <2>1. accepted' \in [Notification -> Nat] /\ lost' \in [Notification -> Nat]
      BY <1>5 DEF IInv, Typed, HistoryOK
    <2> QED BY <2>1, FaultTyped DEF Crash, redis, IInv, Typed, HistoryOK
  <1>7. Core'
    <2>1. CASE pc[p] \in Holding
      <3>1. lock[n] = p
        BY <1>0, <2>1, HeldRow
      <3>2. RowAudited(n)'
        BY DEF Crash, IInv, Core, AuditAgreesWithRow, RowAudited
      <3>3. /\ accepted[n] = lost[n] + sentLog[n] + (IF pc[p] = "accepted" THEN 1 ELSE 0)
            /\ accepted[n] \in Nat /\ lost[n] \in Nat /\ sentLog[n] \in Nat
        BY <3>1, DeliveryAssumption DEF DeliveryAssumption, IInv, Core, Typed, DbOK,
           HistoryOK, Ledger, Outstanding
      <3>4. reached => pc[p] # "accepted"
        BY <1>5 DEF Calling, CallPoint
      <3>5. accepted'[n] = IF reached THEN accepted[n] + 1 ELSE accepted[n]
        BY <1>5 DEF IInv, Typed, HistoryOK
      <3>6. lost'[n] = IF reached \/ pc[p] = "accepted" THEN lost[n] + 1 ELSE lost[n]
        BY <1>5 DEF IInv, Typed, HistoryOK
      <3>s. status' = status /\ sentLog' = sentLog /\ quietLog' = quietLog
        BY DEF Crash
      <3>7. accepted'[n] = lost'[n] + sentLog'[n] /\ lost'[n] \in Nat /\ sentLog'[n] \in Nat
        BY <3>3, <3>4, <3>5, <3>6, <3>s
      <3>8. \A m \in Notification \ {n} :
              /\ status'[m] = status[m] /\ sentLog'[m] = sentLog[m]
              /\ quietLog'[m] = quietLog[m]
              /\ accepted'[m] = accepted[m] /\ lost'[m] = lost[m]
        BY <1>5, <3>s DEF IInv, Typed, HistoryOK
      <3>9. lock' = [lock EXCEPT ![n] = NoProc] /\ to \notin Holding
        BY <1>0, <1>1, <2>1 DEF Crash, Holding
      <3> QED BY <1>0, <1>1, <2>1, <3>2, <3>7, <3>8, <3>9, Releases
    <2>2. CASE pc[p] \notin Holding
      <3>1. ~reached /\ pc[p] # "accepted"
        BY <1>5, <2>2 DEF Calling, CallPoint, Holding
      <3>2. UNCHANGED <<db, ghosts>>
        BY <1>5, <2>2, <3>1 DEF Crash, db, ghosts
      <3> QED BY <1>0, <1>1, <2>2, <3>1, <3>2, Moves DEF Holding
    <2> QED BY <2>1, <2>2
  <1> QED BY <1>2, <1>3, <1>4, <1>6, <1>7 DEF IInv, Typed

LEMMA AnswerKeeps ==
  ASSUME IInv, NEW n \in Notification, Answer(n) PROVE IInv'
  <1> USE DEF Answer, breaker, redis, ghosts
  <1>1. DbOK'
    BY DEF IInv, Typed, DbOK, Statuses, Terminal
  <1>2. RedisOK' /\ CeleryOK' /\ HistoryOK'
    BY DEF IInv, Typed, RedisOK, CeleryOK, HistoryOK
  <1>3. RowKnown' /\ LockAgrees' /\ OpenWhileLocked'
    BY DEF IInv, Core, Typed, DbOK, RowKnown, LockAgrees, OpenWhileLocked
  <1>4. Ledger'
    BY DEF IInv, Core, Ledger, Outstanding
  <1>5. AuditAgreesWithRow'
    BY DEF IInv, Core, Typed, DbOK, AuditAgreesWithRow, RowAudited, Terminal
  <1> QED BY <1>1, <1>2, <1>3, <1>4, <1>5 DEF IInv, Core, Typed

LEMMA ExpiryKeeps ==
  ASSUME IInv, Expiry PROVE IInv'
  <1>1. UNCHANGED <<db, ghosts, pc, row>>
    BY DEF Expiry, CircuitExpires, RateWindowRolls, DedupeExpires, ServiceWindowExpires
  <1>2. Core'
    BY <1>1, StandsStill
  <1>3. DbOK' /\ CeleryOK' /\ HistoryOK'
    BY DEF Expiry, CircuitExpires, RateWindowRolls, DedupeExpires, ServiceWindowExpires,
       db, ghosts, redis, IInv, Typed, DbOK, CeleryOK, HistoryOK
  <1>4. RedisOK'
    <2>1. /\ failures' \in 0 .. Threshold - 1
          /\ dlq' \in [Notification -> [Errors -> Nat]]
      BY DEF Expiry, CircuitExpires, RateWindowRolls, DedupeExpires, ServiceWindowExpires,
         breaker, IInv, Typed, RedisOK
    <2>2. /\ rate' \in 0 .. RateLimit + 1
          /\ service' \in 0 .. ServiceLimit + 1
      BY DeliveryAssumption DEF DeliveryAssumption, Expiry, CircuitExpires,
         RateWindowRolls, DedupeExpires, ServiceWindowExpires, redis, IInv, Typed, RedisOK
    <2>3. circuit' \in BOOLEAN
      BY Zenon DEF Expiry, CircuitExpires, RateWindowRolls, DedupeExpires,
         ServiceWindowExpires, breaker, IInv, Typed, RedisOK
    <2>4. claimed' \subseteq Key
      BY Zenon DEF Expiry, CircuitExpires, RateWindowRolls, DedupeExpires,
         ServiceWindowExpires, redis, IInv, Typed, RedisOK
    <2> QED BY <2>1, <2>2, <2>3, <2>4, Zenon DEF RedisOK
  <1> QED BY <1>2, <1>3, <1>4 DEF IInv, Typed

LEMMA SendKeeps ==
  ASSUME IInv, NEW p \in Proc, Send(p) PROVE IInv'
  BY LockRowKeeps, CheckCircuitKeeps, CheckRateKeeps, FailUnconfiguredKeeps,
     ClaimKeyKeeps, CountServiceKeeps, ProviderAcceptsKeeps, ProviderRaisesKeeps,
     EmailRefusedKeeps, CommitSentKeeps, ResetFailuresKeeps DEF Send, Exchange

\* The tasks' own steps after an exception.
LEMMA TaskKeeps ==
  ASSUME IInv, NEW t \in Task, Recover(t) \/ PolicyLookupFails(t) \/ TaskFailureBlind(t)
  PROVE  IInv'
  <1>1. CASE Retry(t) \/ GiveUp(t) \/ PolicyLookupFails(t) \/ RecordFinalFailure(t)
    BY <1>1, RetryKeeps, GiveUpKeeps, PolicyLookupFailsKeeps, RecordFinalFailureKeeps
  <1>2. CASE TaskFailure(t)
    BY <1>2, SignalKeeps DEF TaskFailure, IInv, Typed, HistoryOK
  <1>3. CASE TaskFailureBlind(t)
    BY <1>3, FaultTyped, SignalKeeps DEF TaskFailureBlind, IInv, Typed
  <1> QED BY <1>1, <1>2, <1>3 DEF Recover

LEMMA NextKeeps == IInv /\ [Next]_vars => IInv'
  <1> SUFFICES ASSUME IInv, [Next]_vars PROVE IInv'
    OBVIOUS
  <1>1. CASE \E t \in Task : \/ \E n \in Notification : Submit(t, n)
                             \/ Recover(t) \/ PolicyLookupFails(t) \/ TaskFailureBlind(t)
    BY <1>1, SubmitKeeps, TaskKeeps
  <1>2. CASE \E r \in Replayer :
               \/ \E n \in Notification : Replay(r, n) \/ ReplayDrops(r, n)
               \/ Unlist(r)
    BY <1>2, ReplayKeeps, ReplayDropsKeeps, UnlistKeeps
  <1>3. CASE \E p \in Proc : Send(p) \/ Misfortune(p)
    BY <1>3, SendKeeps, ResponseLostKeeps, CommitFailsKeeps, CrashKeeps DEF Misfortune
  <1>4. CASE \E n \in Notification : Answer(n)
    BY <1>4, AnswerKeeps
  <1>5. CASE Expiry \/ OthersTrim
    BY <1>5, ExpiryKeeps, OthersTrimKeeps
  <1>6. CASE UNCHANGED vars
    <2>1. UNCHANGED <<db, ghosts, pc, row>>
      BY <1>6 DEF vars
    <2>2. Core'
      BY <2>1, StandsStill
    <2>3. Typed'
      BY <1>6 DEF vars, db, breaker, redis, ghosts, IInv, Typed, DbOK, RedisOK,
         CeleryOK, HistoryOK
    <2> QED BY <2>2, <2>3 DEF IInv
  <1> QED BY <1>1, <1>2, <1>3, <1>4, <1>5, <1>6 DEF Next, Step

-----------------------------------------------------------------------------
(***************************************************************************)
(* What holds of every behaviour.                                          *)
(***************************************************************************)
\* IInv is an invariant of the specification.
THEOREM Inductive == Spec => []IInv
  BY InitIInv, NextKeeps, PTL DEF Spec

\* Every variable keeps its type, the breaker's counter below its threshold
\* and the two rate counters within their caps.
THEOREM TypeCorrect == Spec => []TypeOK
  <1>1. Init => SettingOK
    BY DEF Init, SettingOK
  <1>2. SettingOK /\ [Next]_vars => SettingOK'
    BY DEF SettingOK, Next, vars, setting
  <1>3. IInv /\ SettingOK => TypeOK
    BY DEF IInv, TypeOK
  <1> QED BY <1>1, <1>2, <1>3, Inductive, PTL DEF Spec

\* A recipient is messaged more than once only after a lost outcome.
THEOREM SendsOnce == Spec => []SendsOnceUpToLoss
  <1>1. IInv => SendsOnceUpToLoss
    <2> SUFFICES ASSUME IInv, NEW n \in Notification PROVE accepted[n] <= 1 + lost[n]
      BY DEF SendsOnceUpToLoss
    <2>1. sentLog[n] \in Nat /\ quietLog[n] \in Nat /\ lost[n] \in Nat
      BY DEF IInv, Typed, DbOK, HistoryOK
    <2>2. /\ accepted[n] = lost[n] + sentLog[n] + (IF Outstanding(n) THEN 1 ELSE 0)
          /\ sentLog[n] + quietLog[n] <= 1
          /\ status[n] \notin Terminal => sentLog[n] + quietLog[n] = 0
      BY DEF IInv, Core, Ledger, AuditAgreesWithRow, RowAudited
    <2>3. CASE Outstanding(n)
      <3>1. status[n] \notin Terminal
        BY <2>3, DeliveryAssumption
        DEF DeliveryAssumption, IInv, Core, OpenWhileLocked, Outstanding
      <3> QED BY <2>1, <2>2, <3>1
    <2>4. CASE ~Outstanding(n)
      BY <2>1, <2>2, <2>4
    <2> QED BY <2>3, <2>4
  <1> QED BY <1>1, Inductive, PTL

\* The audit trail and the row never disagree.
THEOREM AuditAligned == Spec => []AuditAgreesWithRow
  <1>1. IInv => AuditAgreesWithRow
    BY DEF IInv, Core
  <1> QED BY <1>1, Inductive, PTL

\* What a step may do to the status of a row: a process that holds the open row
\* or finds it unlocked and open closes it or marks it as failed; a contact
\* answers a call.
RowMoves(n) ==
  \/ status'[n] = status[n]
  \/ status[n] \notin Terminal /\ status'[n] \in {"SENT", "DELIVERED", "FAILED"}
  \/ channel = "VOICE" /\ status'[n] = "ANSWERED_VOICE"

LEMMA RowStep ==
  ASSUME IInv, [Next]_vars, NEW n \in Notification PROVE RowMoves(n)
  <1>s. status \in [Notification -> Statuses]
    BY DEF IInv, Typed, DbOK
  <1>1. ASSUME NEW p \in Proc, Send(p) \/ Misfortune(p) PROVE RowMoves(n)
    <2> USE DEF RowMoves
    <2>1. CASE FailUnconfigured(p) \/ EmailRefused(p)
      <3>1. status[row[p]] \notin Terminal
        BY <2>1, HeldRow DEF FailUnconfigured, EmailRefused, Calling, CallPoint, Holding
      <3> QED BY <1>s, <2>1, <3>1 DEF FailUnconfigured, EmailRefused, MarkFailed
    <2>2. CASE ClaimKey(p) \/ CountService(p)
      <3>1. status[row[p]] \notin Terminal
        BY <2>2, HeldRow DEF ClaimKey, CountService, Holding
      <3> QED BY <1>s, <2>2, <3>1 DEF ClaimKey, CountService, MarkSuppressed, db
    <2>3. CASE CommitSent(p)
      <3>1. status[row[p]] \notin Terminal
        BY <2>3, HeldRow DEF CommitSent, Holding
      <3> QED BY <1>s, <2>3, <3>1 DEF CommitSent
    <2>4. CASE \/ LockRow(p) \/ CheckCircuit(p) \/ CheckRate(p) \/ ProviderAccepts(p)
               \/ ResetFailures(p) \/ Misfortune(p)
               \/ \E e \in Errors : ProviderRaises(p, e)
      <3>1. status' = status
        BY <2>4 DEF LockRow, CheckCircuit, CheckRate, ProviderAccepts, ResetFailures,
           Misfortune, ResponseLost, CommitFails, Crash, ProviderRaises, db
      <3> QED BY <3>1
    <2> QED BY <1>1, <2>1, <2>2, <2>3, <2>4 DEF Send, Exchange
  <1>2. ASSUME NEW t \in Task, Recover(t) \/ PolicyLookupFails(t) \/ TaskFailureBlind(t)
        PROVE  RowMoves(n)
    <2>1. CASE RecordFinalFailure(t)
      BY <1>s, <2>1 DEF RecordFinalFailure, MarkFailed, db, RowMoves
    <2>2. CASE \/ Retry(t) \/ GiveUp(t) \/ TaskFailure(t) \/ PolicyLookupFails(t)
               \/ TaskFailureBlind(t)
      <3>1. status' = status
        BY <2>2 DEF Retry, GiveUp, TaskFailure, PolicyLookupFails, TaskFailureBlind,
           Signal, db
      <3> QED BY <3>1 DEF RowMoves
    <2> QED BY <1>2, <2>1, <2>2 DEF Recover
  <1>3. ASSUME NEW m \in Notification, Answer(m) PROVE RowMoves(n)
    BY <1>s, <1>3 DEF Answer, RowMoves
  <1>4. CASE \/ UNCHANGED vars \/ Expiry \/ OthersTrim
             \/ \E t \in Task, m \in Notification : Submit(t, m)
             \/ \E r \in Replayer : \/ \E m \in Notification : Replay(r, m) \/ ReplayDrops(r, m)
                                    \/ Unlist(r)
    <2>1. status' = status
      BY <1>4 DEF vars, db, Expiry, CircuitExpires, RateWindowRolls, DedupeExpires,
         ServiceWindowExpires, Submit, Replay, ReplayDrops, Unlist, OthersTrim
    <2> QED BY <2>1 DEF RowMoves
  <1> QED BY <1>1, <1>2, <1>3, <1>4 DEF Next, Step

\* A delivered row is never reopened.
THEOREM Final == Spec => TerminalIsFinal
  <1>1. IInv /\ [Next]_vars =>
          [\A n \in Notification : status[n] \in Terminal => status'[n] \in Terminal]_vars
    BY RowStep DEF RowMoves, Terminal
  <1> QED BY <1>1, Inductive, PTL DEF Spec, TerminalIsFinal

-----------------------------------------------------------------------------
(***************************************************************************)
(* A task's report stays true of its row, and a failed row can be found in *)
(* the dead-letter queue.  Both rest on what the position of a process     *)
(* tells about its row (Told): a process past its commit has a sent row, a *)
(* replay that is about to remove an entry has a delivered one, and a task *)
(* that has pushed its entry has a row that is delivered or still has an   *)
(* entry.                                                                  *)
(***************************************************************************)
\* The row has a DLQ entry, or one was dropped for good or trimmed.
Kept(n) == n \in dropped \cup trimmed \/ \E e \in Errors : dlq[n][e] > 0

ReportTrue(t) ==
  LET s == status[row[t]] IN
  /\ result[t] = "sent" => s \in {"SENT", "ANSWERED_VOICE"}
  /\ result[t] = "suppressed" => s = "DELIVERED" /\ channel = "TELEGRAM"
  /\ result[t] = "already_terminal" => s \in Terminal
  /\ result[t] \in {"failed", "dead"} => s # "PENDING"

Told(p) ==
  LET s == status[row[p]] IN
  /\ pc[p] = "claimed" => channel = "TELEGRAM"
  /\ pc[p] = "committed" => s \in {"SENT", "ANSWERED_VOICE"}
  /\ p \in Replayer /\ pc[p] = "unlist" => s \in Terminal
  /\ p \in Task /\ pc[p] = "pushed" => s \in Terminal \/ Kept(row[p])
  /\ p \in Task => /\ pc[p] # "done" => result[p] = "none"
                   /\ ReportTrue(p)

\* A failed row that must have an entry has one.
Traceable(n) ==
  status[n] = "FAILED" /\ channel # "EMAIL" /\ (channel = "VOICE" \/ n \in configured) =>
    Kept(n)

TInv == IInv /\ (\A p \in Proc : Told(p)) /\ \A n \in Notification : Traceable(n)

-----------------------------------------------------------------------------
LEMMA InitTInv == Init => TInv
  <1> SUFFICES ASSUME Init PROVE TInv
    OBVIOUS
  <1>1. IInv
    BY InitIInv
  <1>2. \A p \in Proc : Told(p)
    BY DEF Init, Told, ReportTrue
  <1>3. \A n \in Notification : Traceable(n)
    BY DEF Init, Traceable
  <1> QED BY <1>1, <1>2, <1>3 DEF TInv

\* What a trim cuts off is an entry of a row that it marks as trimmed.
LEMMA CutKeeps ==
  ASSUME NEW list \in [Notification -> [Errors -> Nat]],
         NEW n \in Notification, NEW m \in Notification, NEW f \in Errors,
         n \in dropped \cup trimmed \/ \E e \in Errors : list[n][e] > 0,
         dlq' = [list EXCEPT ![m][f] = @ - 1], trimmed' = trimmed \cup {m},
         dropped' = dropped
  PROVE  Kept(n)'
  <1>1. CASE m = n
    BY <1>1 DEF Kept
  <1>2. CASE m # n
    <2>1. dlq'[n] = list[n]
      BY <1>2
    <2> QED BY <2>1 DEF Kept
  <1> QED BY <1>1, <1>2

\* A push keeps every entry but the one it trims, and the row it pushes for has
\* one, or is the one trimmed.
LEMMA PushKeeps ==
  ASSUME TInv, NEW n \in Notification, NEW e \in Errors, Push(n, e),
         dropped' = dropped, NEW m \in Notification, Kept(m) \/ m = n
  PROVE  Kept(m)'
  <1> DEFINE pushed == [dlq EXCEPT ![n][e] = @ + 1]
  <1>t. dlq \in [Notification -> [Errors -> Nat]]
    BY DEF TInv, IInv, Typed, RedisOK
  <1>1. pushed \in [Notification -> [Errors -> Nat]]
    BY <1>t
  <1>2. m \in dropped \cup trimmed \/ \E f \in Errors : pushed[m][f] > 0
    <2>1. CASE m = n
      <3>1. pushed[m][e] = dlq[m][e] + 1 /\ dlq[m][e] \in Nat
        BY <1>t, <2>1
      <3> HIDE DEF pushed
      <3> QED BY <3>1
    <2>2. CASE m # n
      <3>1. pushed[m] = dlq[m]
        BY <1>t, <2>2
      <3> QED BY <2>2, <3>1 DEF Kept
    <2> QED BY <2>1, <2>2
  <1>3. CASE dlq' = pushed /\ UNCHANGED trimmed
    <2> HIDE DEF pushed
    <2> QED BY <1>2, <1>3 DEF Kept
  <1>4. CASE \E l \in Notification, f \in Errors :
               /\ dlq' = [pushed EXCEPT ![l][f] = @ - 1]
               /\ trimmed' = trimmed \cup {l}
    <2> HIDE DEF pushed
    <2> QED BY <1>1, <1>2, <1>4, CutKeeps
  <1> QED BY <1>3, <1>4 DEF Push

\* An entry is removed for good only when its row is delivered.
LEMMA KeptStays ==
  ASSUME TInv, [Next]_vars, NEW n \in Notification, Kept(n)
  PROVE  Kept(n)' \/ status[n] \in Terminal
  <1>t. dlq \in [Notification -> [Errors -> Nat]]
    BY DEF TInv, IInv, Typed, RedisOK
  <1>1. CASE UNCHANGED <<dropped, trimmed, dlq>>
    BY <1>1 DEF Kept
  <1>2. ASSUME NEW r \in Replayer, NEW m \in Notification, ReplayDrops(r, m)
        PROVE  Kept(n)'
    <2>1. CASE m = n
      BY <1>2, <2>1 DEF ReplayDrops, Kept
    <2>2. CASE m # n
      <3>1. dlq'[n] = dlq[n] /\ dropped \subseteq dropped' /\ trimmed' = trimmed
        BY <1>t, <1>2, <2>2 DEF ReplayDrops
      <3> QED BY <3>1 DEF Kept
    <2> QED BY <2>1, <2>2
  <1>3. ASSUME NEW r \in Replayer, Unlist(r) PROVE Kept(n)' \/ status[n] \in Terminal
    <2>1. CASE row[r] = n
      BY <1>3, <2>1 DEF Unlist, TInv, Told, Proc
    <2>2. CASE row[r] # n
      <3>1. dlq'[n] = dlq[n] /\ UNCHANGED <<dropped, trimmed>>
        BY <1>t, <1>3, <2>2 DEF Unlist
      <3> QED BY <3>1 DEF Kept
    <2> QED BY <2>1, <2>2
  <1>4. ASSUME NEW t \in Task, NEW limit, Signal(t, limit) PROVE Kept(n)'
    <2>1. row[t] \in Notification /\ error[t] \in Errors
      <3>1. t \in Proc
        BY DEF Proc
      <3> QED BY <1>4, <3>1, RunningRow DEF Signal, Running, TInv, IInv, Typed, CeleryOK
    <2>2. dropped' = dropped
      BY <1>4 DEF Signal
    <2>3. CASE Push(row[t], error[t])
      BY <2>1, <2>2, <2>3, PushKeeps
    <2>4. CASE UNCHANGED <<dlq, trimmed>>
      BY <2>2, <2>4 DEF Kept
    <2> QED BY <1>4, <2>3, <2>4 DEF Signal
  <1>o. CASE OthersTrim
    BY <1>t, <1>o, CutKeeps DEF OthersTrim, Kept
  <1>5. CASE \E p \in Proc : Send(p) \/ Misfortune(p)
    <2>1. UNCHANGED <<dropped, trimmed, dlq>>
      BY <1>5 DEF Send, Exchange, Misfortune, LockRow, CheckCircuit, CheckRate,
         FailUnconfigured, ClaimKey, CountService, ProviderAccepts, ProviderRaises,
         EmailRefused, CommitSent, ResetFailures, ResponseLost, CommitFails, Crash
    <2> QED BY <1>1, <2>1
  <1>6. CASE \/ \E t \in Task : Retry(t) \/ GiveUp(t) \/ PolicyLookupFails(t)
                                \/ RecordFinalFailure(t)
             \/ \E t \in Task, m \in Notification : Submit(t, m)
             \/ \E r \in Replayer, m \in Notification : Replay(r, m)
             \/ \E m \in Notification : Answer(m)
             \/ Expiry \/ UNCHANGED vars
    <2>1. UNCHANGED <<dropped, trimmed, dlq>>
      BY <1>6 DEF Retry, GiveUp, PolicyLookupFails, RecordFinalFailure, Submit, Replay,
         Answer, Expiry, CircuitExpires, RateWindowRolls, DedupeExpires,
         ServiceWindowExpires, vars
    <2> QED BY <1>1, <2>1
  <1>7. CASE Step
    BY <1>2, <1>3, <1>4, <1>o, <1>5, <1>6, <1>7 DEF Step, Recover, TaskFailure,
       TaskFailureBlind
  <1> QED BY <1>6, <1>7 DEF Next

\* A row that becomes failed has an entry, or is of a kind that needs none.
LEMMA FailedStep ==
  ASSUME TInv, [Next]_vars, NEW n \in Notification,
         status[n] # "FAILED", status'[n] = "FAILED"
  PROVE  Traceable(n)'
  <1>s. status \in [Notification -> Statuses]
    BY DEF TInv, IInv, Typed, DbOK
  <1>c. Next
    BY DEF vars, db
  <1>1. ASSUME NEW p \in Proc, Send(p) \/ Misfortune(p)
        PROVE  channel = "EMAIL" \/ (channel = "TELEGRAM" /\ n \notin configured)
    <2>1. CASE FailUnconfigured(p)
      BY <1>s, <2>1 DEF FailUnconfigured, MarkFailed
    <2>2. CASE EmailRefused(p)
      BY <2>2 DEF EmailRefused
    <2>3. CASE ClaimKey(p) \/ CountService(p) \/ CommitSent(p)
      BY <1>s, <2>3 DEF ClaimKey, CountService, MarkSuppressed, CommitSent, db
    <2>4. CASE \/ LockRow(p) \/ CheckCircuit(p) \/ CheckRate(p) \/ ProviderAccepts(p)
               \/ ResetFailures(p) \/ Misfortune(p)
               \/ \E e \in Errors : ProviderRaises(p, e)
      BY <2>4 DEF LockRow, CheckCircuit, CheckRate, ProviderAccepts, ResetFailures,
         Misfortune, ResponseLost, CommitFails, Crash, ProviderRaises, db
    <2> QED BY <1>1, <2>1, <2>2, <2>3, <2>4 DEF Send, Exchange
  <1>2. ASSUME NEW t \in Task, Recover(t) \/ PolicyLookupFails(t) \/ TaskFailureBlind(t)
        PROVE  Kept(n)'
    <2>1. CASE RecordFinalFailure(t)
      <3>1. row[t] = n /\ status[n] \notin Terminal
        BY <1>s, <2>1 DEF RecordFinalFailure, MarkFailed, db
      <3>2. t \in Proc
        BY DEF Proc
      <3>3. Kept(n)
        BY <2>1, <3>1, <3>2 DEF RecordFinalFailure, TInv, Told
      <3>4. UNCHANGED <<dlq, dropped, trimmed>>
        BY <2>1 DEF RecordFinalFailure
      <3> QED BY <3>3, <3>4 DEF Kept
    <2>2. CASE \/ Retry(t) \/ GiveUp(t) \/ TaskFailure(t) \/ PolicyLookupFails(t)
               \/ TaskFailureBlind(t)
      BY <2>2 DEF Retry, GiveUp, TaskFailure, PolicyLookupFails, TaskFailureBlind,
         Signal, db
    <2> QED BY <1>2, <2>1, <2>2 DEF Recover
  <1>3. ~ \E m \in Notification : Answer(m)
    BY <1>s DEF Answer
  <1>4. ~ \/ Expiry \/ OthersTrim
          \/ \E t \in Task, m \in Notification : Submit(t, m)
          \/ \E r \in Replayer : \/ \E m \in Notification : Replay(r, m) \/ ReplayDrops(r, m)
                                 \/ Unlist(r)
    BY DEF db, Expiry, CircuitExpires, RateWindowRolls, DedupeExpires,
       ServiceWindowExpires, Submit, Replay, ReplayDrops, Unlist, OthersTrim
  <1>5. UNCHANGED <<channel, configured>>
    BY <1>c DEF Next, setting
  <1>6. channel = "EMAIL" \/ (channel = "TELEGRAM" /\ n \notin configured) \/ Kept(n)'
    BY <1>c, <1>1, <1>2, <1>3, <1>4 DEF Next, Step
  <1> QED BY <1>5, <1>6 DEF Traceable

-----------------------------------------------------------------------------
(***************************************************************************)
(* What a process's position tells stays true while others work ...        *)
(***************************************************************************)
LEMMA TheSetting == ASSUME [Next]_vars PROVE UNCHANGED <<channel, configured>>
  BY DEF Next, vars, setting

Rests(p) ==
  /\ pc'[p] = pc[p] /\ row'[p] = row[p]
  /\ p \in Task => result'[p] = result[p]

LEMMA RestingTold ==
  ASSUME TInv, [Next]_vars, NEW p \in Proc, Rests(p) PROVE Told(p)'
  <1> USE DEF Rests
  <1>1. channel' = channel /\ Told(p)
    BY TheSetting DEF TInv
  <1>2. CASE pc[p] = "idle"
    BY <1>1, <1>2 DEF Told, ReportTrue
  <1>3. CASE pc[p] # "idle"
    <2>1. row[p] \in Notification
      BY <1>3 DEF TInv, IInv, Core, RowKnown
    <2>2. RowMoves(row[p])
      BY <2>1, RowStep DEF TInv
    <2>3. Kept(row[p]) => Kept(row[p])' \/ status[row[p]] \in Terminal
      BY <2>1, KeptStays
    <2>4. Kept(row[p])' <=> row'[p] \in dropped' \cup trimmed' \/ \E e \in Errors : dlq'[row'[p]][e] > 0
      BY DEF Kept
    <2>5. Kept(row[p]) => row'[p] \in dropped' \cup trimmed' \/ (\E e \in Errors : dlq'[row'[p]][e] > 0)
                            \/ status[row[p]] \in Terminal
      BY <2>3, <2>4
    <2>6. /\ status[row[p]] \in {"SENT", "ANSWERED_VOICE"} =>
               status'[row[p]] \in {"SENT", "ANSWERED_VOICE"}
          /\ status[row[p]] \in Terminal => status'[row[p]] \in Terminal
          /\ status[row[p]] = "DELIVERED" /\ channel = "TELEGRAM" =>
               status'[row[p]] = "DELIVERED"
          /\ status[row[p]] # "PENDING" => status'[row[p]] # "PENDING"
      BY <2>2 DEF RowMoves, Terminal
    <2>7. p \in Task => ReportTrue(p)'
      BY <1>1, <2>6 DEF Told, ReportTrue
    <2> QED BY <1>1, <2>5, <2>6, <2>7 DEF Told, Kept
  <1> QED BY <1>2, <1>3

-----------------------------------------------------------------------------
(***************************************************************************)
(* ... and becomes true by the process's own steps.                        *)
(***************************************************************************)
\* A step to a position that tells nothing.
LEMMA MovesTold ==
  ASSUME TInv, NEW p \in Proc, pc[p] # "done",
         NEW to \in {"idle", "queued", "raised", "exhausted"} \cup Holding,
         pc' = [pc EXCEPT ![p] = to], UNCHANGED <<channel, result>>,
         to = "claimed" => channel = "TELEGRAM"
  PROVE  Told(p)'
  <1>1. pc'[p] = to /\ (p \in Task => result'[p] = "none")
    BY DEF TInv, IInv, Typed, CeleryOK, Told
  <1> QED BY <1>1 DEF Told, ReportTrue, Holding

\* The implementation returns, and its report is true of the row.
LEMMA ReturnTold ==
  ASSUME TInv, NEW p \in Proc, NEW r, Return(p, r), channel' = channel,
         NEW s, s = status'[row[p]],
         r = "sent" => s \in {"SENT", "ANSWERED_VOICE"},
         r = "suppressed" => s = "DELIVERED" /\ channel = "TELEGRAM",
         r = "already_terminal" => s \in Terminal,
         r \in {"failed", "dead"} => s # "PENDING"
  PROVE  Told(p)'
  <1> USE DEF TInv, IInv, Typed, CeleryOK, Return, Goto
  <1>1. CASE p \in Task
    <2>1. pc'[p] = "done" /\ row'[p] = row[p] /\ result'[p] = r
      BY <1>1
    <2>2. p \notin Replayer
      BY <1>1, DeliveryAssumption DEF DeliveryAssumption
    <2> QED BY <2>1, <2>2 DEF Told, ReportTrue
  <1>2. CASE p \notin Task
    <2>1. CASE r \in {"sent", "already_terminal"}
      BY <1>2, <2>1 DEF Told, Terminal
    <2>2. CASE r \notin {"sent", "already_terminal"}
      BY <1>2, <2>2 DEF Told
    <2> QED BY <2>1, <2>2
  <1> QED BY <1>1, <1>2

LEMMA RaiseTold ==
  ASSUME TInv, NEW p \in Proc, pc[p] # "done", NEW e, Raise(p, e), channel' = channel
  PROVE  Told(p)'
  <1>1. PICK to \in {"raised", "idle"} : pc' = [pc EXCEPT ![p] = to]
    BY DEF Raise, Goto
  <1> QED BY <1>1, MovesTold DEF Raise

LEMMA SendTold ==
  ASSUME TInv, [Next]_vars, NEW p \in Proc, Send(p) PROVE Told(p)'
  <1>0. /\ channel' = channel
        /\ Told(p)
        /\ status \in [Notification -> Statuses]
    BY TheSetting DEF TInv, IInv, Typed, DbOK
  <1>1. CASE LockRow(p)
    <2>1. CASE Return(p, "already_terminal") /\ status[row[p]] \in Terminal
      BY <1>0, <1>1, <2>1, ReturnTold DEF LockRow
    <2>2. CASE Goto(p, "locked") /\ UNCHANGED result
      BY <1>0, <1>1, <2>2, MovesTold DEF LockRow, Goto, Holding
    <2> QED BY <1>1, <2>1, <2>2 DEF LockRow
  <1>2. CASE CheckCircuit(p) \/ CheckRate(p)
    <2>1. ASSUME NEW r \in {"skipped_circuit", "skipped_rate_limit"}, Return(p, r)
          PROVE  Told(p)'
      BY <1>0, <2>1, ReturnTold
    <2>2. ASSUME NEW to \in {"admitted", "ready"}, Goto(p, to), UNCHANGED result
          PROVE  Told(p)'
      BY <1>0, <1>2, <2>2, MovesTold DEF CheckCircuit, CheckRate, Goto, Holding
    <2> QED BY <1>2, <2>1, <2>2 DEF CheckCircuit, CheckRate
  <1>3. CASE FailUnconfigured(p) \/ EmailRefused(p)
    <2>1. row[p] \in Notification
      BY <1>3, HeldRow DEF FailUnconfigured, EmailRefused, Calling, CallPoint, Holding, TInv
    <2>2. status'[row[p]] = "FAILED" /\ Return(p, "failed")
      BY <1>0, <1>3, <2>1 DEF FailUnconfigured, EmailRefused, MarkFailed
    <2> QED BY <1>0, <2>2, ReturnTold
  <1>4. CASE ClaimKey(p) \/ CountService(p)
    <2>1. row[p] \in Notification /\ channel = "TELEGRAM"
      BY <1>0, <1>4, HeldRow DEF ClaimKey, CountService, Holding, TInv, Told
    <2>2. CASE MarkSuppressed(row[p]) /\ Return(p, "suppressed")
      <3>1. status'[row[p]] = "DELIVERED"
        BY <1>0, <2>1, <2>2 DEF MarkSuppressed
      <3> QED BY <1>0, <2>1, <2>2, <3>1, ReturnTold
    <2>3. ASSUME NEW to \in {"claimed", "cleared"}, Goto(p, to), UNCHANGED result
          PROVE  Told(p)'
      BY <1>0, <1>4, <2>1, <2>3, MovesTold DEF ClaimKey, CountService, Goto, Holding
    <2> QED BY <1>4, <2>2, <2>3 DEF ClaimKey, CountService
  <1>5. CASE ProviderAccepts(p)
    BY <1>0, <1>5, MovesTold
       DEF ProviderAccepts, Calling, CallPoint, Goto, Holding
  <1>6. ASSUME NEW e \in Errors, ProviderRaises(p, e) PROVE Told(p)'
    BY <1>0, <1>6, RaiseTold DEF ProviderRaises, Calling, CallPoint
  <1>7. CASE CommitSent(p)
    <2>1. row[p] \in Notification
      BY <1>7, HeldRow DEF CommitSent, Holding, TInv
    <2>2. /\ pc'[p] = "committed" /\ row'[p] = row[p] /\ status'[row[p]] = "SENT"
          /\ p \in Task => result'[p] = "none"
      BY <1>0, <1>7, <2>1 DEF CommitSent, Goto, Told, TInv, IInv, Typed, CeleryOK
    <2> QED BY <2>2 DEF Told, ReportTrue
  <1>8. CASE ResetFailures(p)
    BY <1>0, <1>8, ReturnTold DEF ResetFailures, Told, db
  <1> QED BY <1>1, <1>2, <1>3, <1>4, <1>5, <1>6, <1>7, <1>8 DEF Send, Exchange

LEMMA MisfortuneTold ==
  ASSUME TInv, [Next]_vars, NEW p \in Proc, Misfortune(p) PROVE Told(p)'
  <1>0. channel' = channel
    BY TheSetting
  <1>1. CASE ResponseLost(p) \/ CommitFails(p)
    BY <1>0, <1>1, RaiseTold DEF ResponseLost, CommitFails, Calling, CallPoint
  <1>2. CASE Crash(p)
    <2> DEFINE to == IF p \in Task THEN "queued" ELSE "idle"
    <2>1. pc[p] # "done" /\ Goto(p, to) /\ result' = result
      BY <1>2 DEF Crash, Running, Holding
    <2>2. to \in {"queued", "idle"}
      OBVIOUS
    <2> HIDE DEF to
    <2> QED BY <1>0, <2>1, <2>2, MovesTold DEF Goto
  <1> QED BY <1>1, <1>2 DEF Misfortune

LEMMA TaskTold ==
  ASSUME TInv, [Next]_vars, NEW t \in Task,
         \/ \E n \in Notification : Submit(t, n)
         \/ Recover(t) \/ PolicyLookupFails(t) \/ TaskFailureBlind(t)
  PROVE  Told(t)'
  <1>0. /\ channel' = channel
        /\ t \in Proc /\ t \notin Replayer
        /\ Told(t)
    BY TheSetting, DeliveryAssumption DEF DeliveryAssumption, TInv, Proc
  <1>1. ASSUME NEW n \in Notification, Submit(t, n) PROVE Told(t)'
    BY <1>0, <1>1, MovesTold DEF Submit, Goto
  <1>2. CASE Retry(t) \/ GiveUp(t) \/ PolicyLookupFails(t)
    BY <1>0, <1>2, MovesTold DEF Retry, GiveUp, PolicyLookupFails, Goto
  <1>3. ASSUME NEW limit, Signal(t, limit) PROVE Told(t)'
    <2>1. CASE Return(t, "unretried")
      BY <1>0, <2>1, ReturnTold
    <2>2. CASE /\ Push(row[t], error[t])
               /\ Goto(t, "pushed")
               /\ UNCHANGED <<row, result>>
      <3>1. row[t] \in Notification /\ error[t] \in Errors
        BY <1>0, <1>3, RunningRow DEF Signal, Running, TInv, IInv, Typed, CeleryOK
      <3>2. dropped' = dropped
        BY <1>3 DEF Signal
      <3>3. Kept(row[t])'
        <4>1. ASSUME NEW n \in Notification, n = row[t] PROVE Kept(n)'
          BY <2>2, <3>1, <3>2, <4>1, PushKeeps
        <4> QED BY <2>2, <3>1, <4>1 DEF Kept
      <3>4. pc'[t] = "pushed" /\ row'[t] = row[t] /\ result'[t] = "none"
        BY <1>0, <1>3, <2>2 DEF Signal, Goto, Told, TInv, IInv, Typed, CeleryOK
      <3> QED BY <1>0, <3>3, <3>4 DEF Told, ReportTrue, Kept
    <2> QED BY <1>3, <2>1, <2>2 DEF Signal
  <1>4. CASE RecordFinalFailure(t)
    <2>1. row[t] \in Notification
      BY <1>0, <1>4, RunningRow DEF RecordFinalFailure, Running, TInv
    <2>2. status'[row[t]] # "PENDING" /\ Return(t, "dead")
      BY <1>4, <2>1 DEF RecordFinalFailure, MarkFailed, db, Terminal, TInv, IInv,
         Typed, DbOK
    <2> QED BY <1>0, <2>2, ReturnTold
  <1> QED BY <1>1, <1>2, <1>3, <1>4 DEF Recover, TaskFailure, TaskFailureBlind

LEMMA ReplayTold ==
  ASSUME TInv, [Next]_vars, NEW r \in Replayer,
         Unlist(r) \/ \E n \in Notification : Replay(r, n)
  PROVE  Told(r)'
  <1>1. r \in Proc /\ channel' = channel
    BY TheSetting DEF Proc
  <1> QED BY <1>1, MovesTold DEF Unlist, Replay, Goto

\* Every process either takes the step or rests.
LEMMA SomeoneMoves ==
  ASSUME TInv, Step, NEW p \in Proc
  PROVE  \/ Rests(p)
         \/ Send(p) \/ Misfortune(p)
         \/ /\ p \in Task
            /\ \/ \E n \in Notification : Submit(p, n)
               \/ Recover(p) \/ PolicyLookupFails(p) \/ TaskFailureBlind(p)
         \/ /\ p \in Replayer
            /\ Unlist(p) \/ \E n \in Notification : Replay(p, n)
  <1>t. /\ pc \in [Proc -> {"idle", "queued", "done"} \cup Running]
        /\ row \in [Proc -> Notification \cup {NoRow}]
        /\ result \in [Task -> Results]
    BY DEF TInv, IInv, Typed, CeleryOK
  <1>r. ASSUME NEW q \in Proc, q # p, NEW r, Return(q, r) PROVE Rests(p)
    BY <1>t, <1>r DEF Return, Goto, Rests
  <1>x. ASSUME NEW q \in Proc, q # p, NEW e, Raise(q, e) PROVE Rests(p)
    BY <1>t, <1>x DEF Raise, Goto, Rests
  <1>g. ASSUME NEW q \in Proc, q # p, NEW to, Goto(q, to), UNCHANGED <<row, result>>
        PROVE  Rests(p)
    BY <1>t, <1>g DEF Goto, Rests
  <1>1. ASSUME NEW q \in Proc, q # p, Send(q) PROVE Rests(p)
    BY <1>1, <1>r, <1>x, <1>g DEF Send, Exchange, LockRow, CheckCircuit, CheckRate,
       FailUnconfigured, ClaimKey, CountService, ProviderAccepts, ProviderRaises,
       EmailRefused, CommitSent, ResetFailures
  <1>2. ASSUME NEW q \in Proc, q # p, Misfortune(q) PROVE Rests(p)
    <2>1. CASE ResponseLost(q) \/ CommitFails(q)
      BY <1>2, <2>1, <1>x DEF ResponseLost, CommitFails
    <2>2. CASE Crash(q)
      BY <1>t, <1>2, <2>2 DEF Crash, Goto, Rests
    <2> QED BY <1>2, <2>1, <2>2 DEF Misfortune
  <1>3. ASSUME NEW q \in Task, q # p,
               \/ \E n \in Notification : Submit(q, n)
               \/ Recover(q) \/ PolicyLookupFails(q) \/ TaskFailureBlind(q)
        PROVE  Rests(p)
    <2>0. q \in Proc
      BY DEF Proc
    <2>1. CASE \E n \in Notification : Submit(q, n)
      BY <1>t, <1>3, <2>0, <2>1 DEF Submit, Goto, Rests
    <2>2. CASE Retry(q) \/ GiveUp(q) \/ PolicyLookupFails(q)
      BY <1>3, <2>0, <2>2, <1>g DEF Retry, GiveUp, PolicyLookupFails
    <2>3. CASE TaskFailure(q) \/ TaskFailureBlind(q)
      BY <1>3, <2>0, <2>3, <1>g, <1>r DEF TaskFailure, TaskFailureBlind, Signal
    <2>4. CASE RecordFinalFailure(q)
      BY <1>3, <2>0, <2>4, <1>r DEF RecordFinalFailure
    <2> QED BY <1>3, <2>1, <2>2, <2>3, <2>4 DEF Recover
  <1>4. ASSUME NEW q \in Replayer, q # p,
               Unlist(q) \/ \E n \in Notification : Replay(q, n)
        PROVE  Rests(p)
    <2>0. q \in Proc
      BY DEF Proc
    <2> QED BY <1>t, <1>4, <2>0 DEF Unlist, Replay, Goto, Rests
  <1>5. CASE \/ \E r \in Replayer, n \in Notification : ReplayDrops(r, n)
             \/ \E n \in Notification : Answer(n)
             \/ Expiry \/ OthersTrim
    BY <1>5 DEF ReplayDrops, Answer, Expiry, CircuitExpires, RateWindowRolls,
       DedupeExpires, ServiceWindowExpires, OthersTrim, Rests
  <1> QED BY <1>1, <1>2, <1>3, <1>4, <1>5 DEF Step

LEMMA NextTold ==
  ASSUME TInv, [Next]_vars, NEW p \in Proc PROVE Told(p)'
  <1>1. CASE Step
    <2>1. CASE Rests(p)
      BY <2>1, RestingTold
    <2>2. CASE Send(p) \/ Misfortune(p)
      BY <2>2, SendTold, MisfortuneTold
    <2>3. CASE /\ p \in Task
               /\ \/ \E n \in Notification : Submit(p, n)
                  \/ Recover(p) \/ PolicyLookupFails(p) \/ TaskFailureBlind(p)
      BY <2>3, TaskTold
    <2>4. CASE /\ p \in Replayer
               /\ Unlist(p) \/ \E n \in Notification : Replay(p, n)
      BY <2>4, ReplayTold
    <2> QED BY <1>1, <2>1, <2>2, <2>3, <2>4, SomeoneMoves
  <1>2. CASE UNCHANGED vars
    BY <1>2, RestingTold DEF vars, Rests
  <1> QED BY <1>1, <1>2 DEF Next

LEMMA NextTraceable ==
  ASSUME TInv, [Next]_vars, NEW n \in Notification PROVE Traceable(n)'
  <1>1. CASE status[n] # "FAILED"
    BY <1>1, FailedStep DEF Traceable
  <1>2. CASE status[n] = "FAILED"
    <2>1. UNCHANGED <<channel, configured>> /\ Traceable(n)
      BY TheSetting DEF TInv
    <2>2. Kept(n) => Kept(n)'
      BY <1>2, KeptStays DEF Terminal
    <2> QED BY <1>2, <2>1, <2>2 DEF Traceable
  <1> QED BY <1>1, <1>2

LEMMA NextTInv == TInv /\ [Next]_vars => TInv'
  <1> SUFFICES ASSUME TInv, [Next]_vars PROVE TInv'
    OBVIOUS
  <1>1. IInv'
    BY NextKeeps DEF TInv
  <1>2. (\A p \in Proc : Told(p)')
    BY NextTold
  <1>3. (\A n \in Notification : Traceable(n)')
    BY NextTraceable
  <1> QED BY <1>1, <1>2, <1>3 DEF TInv

LEMMA Tracked == Spec => []TInv
  BY InitTInv, NextTInv, PTL DEF Spec

-----------------------------------------------------------------------------
\* What a task reported when it ended is still true of its row at any later
\* time, whatever replays, callbacks and other tasks did to the row since.
THEOREM Reports == Spec => []ReportAgreesWithRow
  <1>1. TInv => ReportAgreesWithRow
    BY DEF TInv, Told, ReportTrue, ReportAgreesWithRow, Proc
  <1> QED BY <1>1, Tracked, PTL

\* A failed row has an entry in the dead-letter queue, or had one dropped as a
\* client error or cut off at the list's limit; only e-mail and missing
\* credentials are left out (_on_task_failure pushes before
\* _record_final_failure writes, the trim of a push or of prune_dlq takes the
\* oldest entries whatever their rows, and replay_dlq removes an entry only once
\* its row is delivered).
THEOREM Failures == Spec => []FailedIsInTheDlq
  <1>1. TInv => FailedIsInTheDlq
    BY DEF TInv, Traceable, Kept, FailedIsInTheDlq
  <1> QED BY <1>1, Tracked, PTL

-----------------------------------------------------------------------------
(***************************************************************************)
(* Delivery implements NotificationPromise: from a state of the inductive  *)
(* invariant, every step of a task, a replay, a callback or an expiry is a *)
(* step of the promise or leaves its variables alone.                      *)
(***************************************************************************)
\* The refinement mapping's only computed part.
Pending == [n \in Notification |-> Outstanding(n)]

PromiseStep == [Promise!Next]_(Promise!vars)

-----------------------------------------------------------------------------
(***************************************************************************)
(* What steps do to the accepted messages that await their commit.         *)
(***************************************************************************)
\* A process that neither has nor gets an accepted message to commit moves, and
\* keeps, takes or gives up the lock of its own row.
LEMMA Elsewhere ==
  ASSUME IInv, NEW p \in Proc, NEW to, pc[p] # "accepted", to # "accepted",
         pc' = [pc EXCEPT ![p] = to],
         \/ lock' = lock
         \/ /\ pc[p] \in Holding
            /\ lock' = [lock EXCEPT ![row[p]] = NoProc]
         \/ /\ row[p] \in Notification
            /\ lock[row[p]] = NoProc
            /\ lock' = [lock EXCEPT ![row[p]] = p]
  PROVE  \A m \in Notification : Outstanding(m)' <=> Outstanding(m)
  <1> USE DEF IInv, Typed, DbOK, CeleryOK, Outstanding
  <1>n. NoProc \notin Proc
    BY DeliveryAssumption DEF DeliveryAssumption
  <1>1. CASE lock' = lock
    BY <1>1
  <1>2. CASE pc[p] \in Holding /\ lock' = [lock EXCEPT ![row[p]] = NoProc]
    <2>1. row[p] \in Notification /\ lock[row[p]] = p
      BY <1>2, HeldRow
    <2> QED BY <1>n, <1>2, <2>1
  <1>3. CASE /\ row[p] \in Notification
             /\ lock[row[p]] = NoProc
             /\ lock' = [lock EXCEPT ![row[p]] = p]
    BY <1>n, <1>3
  <1> QED BY <1>1, <1>2, <1>3

\* A process gives up its row, whether or not its message was accepted: the row
\* awaits no commit any more.
LEMMA GivesUp ==
  ASSUME IInv, NEW p \in Proc, NEW to, NEW n, n = row[p],
         pc[p] \in Holding, to \notin Holding,
         pc' = [pc EXCEPT ![p] = to],
         lock' = [lock EXCEPT ![n] = NoProc]
  PROVE  /\ n \in Notification
         /\ status[n] \notin Terminal
         /\ \A m \in Notification : Outstanding(m)' <=> Outstanding(m) /\ m # n
         /\ pc[p] = "accepted" <=> Outstanding(n)
  <1> USE DEF IInv, Typed, DbOK, CeleryOK, Outstanding
  <1>1. n \in Notification /\ lock[n] = p /\ status[n] \notin Terminal
    BY HeldRow
  <1>2. \A m \in Notification \ {n} : lock[m] # p
    BY DeliveryAssumption DEF DeliveryAssumption, Core, LockAgrees
  <1> QED BY <1>1, <1>2, DeliveryAssumption DEF DeliveryAssumption

LEMMA PendingSame ==
  ASSUME \A m \in Notification : Outstanding(m)' <=> Outstanding(m)
  PROVE  Pending' = Pending
  BY DEF Pending, Outstanding

LEMMA PendingEnds ==
  ASSUME NEW n \in Notification,
         \A m \in Notification : Outstanding(m)' <=> Outstanding(m) /\ m # n
  PROVE  Pending' = [Pending EXCEPT ![n] = FALSE]
  BY DEF Pending, Outstanding

LEMMA PendingBegins ==
  ASSUME NEW n \in Notification,
         \A m \in Notification : Outstanding(m)' <=> Outstanding(m) \/ m = n
  PROVE  Pending' = [Pending EXCEPT ![n] = TRUE]
  BY DEF Pending, Outstanding

-----------------------------------------------------------------------------
(***************************************************************************)
(* The steps of the promise.                                               *)
(***************************************************************************)
LEMMA Stutters ==
  ASSUME UNCHANGED <<status, lost>>,
         \A m \in Notification : Outstanding(m)' <=> Outstanding(m)
  PROVE  PromiseStep
  <1>1. Pending' = Pending
    BY PendingSame
  <1> QED BY <1>1 DEF PromiseStep, Promise!vars, Pending

LEMMA Loses ==
  ASSUME NEW n \in Notification, status[n] \notin Terminal,
         status' = status,
         lost' = [lost EXCEPT ![n] = @ + 1],
         \A m \in Notification : Outstanding(m)' <=> Outstanding(m) /\ m # n
  PROVE  PromiseStep
  <1>1. Pending' = [Pending EXCEPT ![n] = FALSE]
    BY PendingEnds
  <1>2. Promise!Lose(n)
    BY <1>1 DEF Promise!Lose, Promise!Closed, Terminal, Pending
  <1> QED BY <1>2 DEF PromiseStep, Promise!Next

LEMMA Settles ==
  ASSUME NEW n \in Notification, status[n] \notin Terminal, ~ Outstanding(n),
         NEW s \in {"FAILED", "DELIVERED"},
         status' = [status EXCEPT ![n] = s],
         lost' = lost,
         \A m \in Notification : Outstanding(m)' <=> Outstanding(m)
  PROVE  PromiseStep
  <1>1. Pending' = Pending
    BY PendingSame
  <1>2. Promise!Settle(n, s)
    BY <1>1 DEF Promise!Settle, Promise!Closed, Terminal, Pending
  <1> QED BY <1>2 DEF PromiseStep, Promise!Next

-----------------------------------------------------------------------------
(***************************************************************************)
(* One lemma for each way in which an action is a step of the promise.     *)
(***************************************************************************)
\* Steps before, after and between the provider exchanges.
LEMMA MovesStutter ==
  ASSUME IInv, NEW p \in Proc, NEW to, pc[p] # "accepted", to # "accepted",
         pc' = [pc EXCEPT ![p] = to],
         UNCHANGED <<status, lost>>,
         \/ lock' = lock
         \/ /\ pc[p] \in Holding
            /\ lock' = [lock EXCEPT ![row[p]] = NoProc]
         \/ /\ row[p] \in Notification
            /\ lock[row[p]] = NoProc
            /\ lock' = [lock EXCEPT ![row[p]] = p]
  PROVE  PromiseStep
  <1>1. \A m \in Notification : Outstanding(m)' <=> Outstanding(m)
    BY Elsewhere
  <1> QED BY <1>1, Stutters

LEMMA ReturnMoves ==
  ASSUME NEW p \in Proc, NEW r, Return(p, r)
  PROVE  \E to \in {"done", "unlist", "idle"} : pc' = [pc EXCEPT ![p] = to]
  BY DEF Return, Goto

LEMMA RaiseMoves ==
  ASSUME NEW p \in Proc, NEW e, Raise(p, e)
  PROVE  \E to \in {"raised", "idle"} : pc' = [pc EXCEPT ![p] = to]
  BY DEF Raise, Goto

LEMMA LockRowRefines ==
  ASSUME IInv, NEW p \in Proc, LockRow(p) PROVE PromiseStep
  <1>1. row[p] \in Notification /\ UNCHANGED <<status, lost>>
    BY RunningRow DEF LockRow, ghosts
  <1>2. CASE Return(p, "already_terminal") /\ UNCHANGED lock
    BY <1>1, <1>2, ReturnMoves, MovesStutter DEF LockRow
  <1>3. CASE lock' = [lock EXCEPT ![row[p]] = p] /\ Goto(p, "locked")
    BY <1>1, <1>3, MovesStutter DEF LockRow, Goto
  <1> QED BY <1>2, <1>3 DEF LockRow

LEMMA ChecksRefine ==
  ASSUME IInv, NEW p \in Proc, CheckCircuit(p) \/ CheckRate(p) PROVE PromiseStep
  <1>1. /\ pc[p] \in Holding /\ pc[p] # "accepted"
        /\ UNCHANGED <<status, lost>>
    BY DEF CheckCircuit, CheckRate, ghosts, Holding
  <1>2. CASE \E r \in Results : Return(p, r) /\ Unlock(row[p])
    BY <1>1, <1>2, ReturnMoves, MovesStutter DEF Unlock
  <1>3. CASE \E to \in {"admitted", "ready"} : Goto(p, to) /\ UNCHANGED lock
    BY <1>1, <1>3, MovesStutter DEF Goto
  <1> QED BY <1>2, <1>3 DEF CheckCircuit, CheckRate, Results

\* A row is closed without the provider, or marked as failed.
LEMMA ReturnSettles ==
  ASSUME IInv, NEW p \in Proc, NEW r, Return(p, r),
         pc[p] \in Holding, pc[p] # "accepted",
         lock' = [lock EXCEPT ![row[p]] = NoProc],
         NEW s \in {"FAILED", "DELIVERED"},
         status' = [status EXCEPT ![row[p]] = s],
         lost' = lost
  PROVE  PromiseStep
  <1>1. PICK to \in {"done", "unlist", "idle"} : pc' = [pc EXCEPT ![p] = to]
    BY ReturnMoves
  <1>2. to # "accepted" /\ to \notin Holding
    BY DEF Holding
  <1>3. \A m \in Notification : Outstanding(m)' <=> Outstanding(m)
    BY <1>1, <1>2, Elsewhere
  <1>4. row[p] \in Notification /\ status[row[p]] \notin Terminal /\ ~ Outstanding(row[p])
    BY <1>1, <1>2, GivesUp
  <1> QED BY <1>3, <1>4, Settles

LEMMA FailuresRefine ==
  ASSUME IInv, NEW p \in Proc, FailUnconfigured(p) \/ EmailRefused(p)
  PROVE  PromiseStep
  <1>1. pc[p] \in Holding /\ pc[p] # "accepted" /\ lost' = lost
    BY DEF FailUnconfigured, EmailRefused, Calling, CallPoint, Holding, ghosts
  <1>2. MarkFailed(row[p]) /\ Return(p, "failed")
    BY DEF FailUnconfigured, EmailRefused
  <1> QED BY <1>1, <1>2, ReturnSettles DEF MarkFailed, Unlock

LEMMA TelegramRefines ==
  ASSUME IInv, NEW p \in Proc, ClaimKey(p) \/ CountService(p) PROVE PromiseStep
  <1>1. pc[p] \in Holding /\ pc[p] # "accepted" /\ lost' = lost
    BY DEF ClaimKey, CountService, Holding, ghosts
  <1>2. CASE MarkSuppressed(row[p]) /\ Return(p, "suppressed")
    BY <1>1, <1>2, ReturnSettles DEF MarkSuppressed, Unlock
  <1>3. CASE (Goto(p, "claimed") \/ Goto(p, "cleared")) /\ UNCHANGED db
    BY <1>1, <1>3, MovesStutter DEF Goto, db
  <1> QED BY <1>2, <1>3 DEF ClaimKey, CountService

LEMMA AcceptsRefines ==
  ASSUME IInv, NEW p \in Proc, ProviderAccepts(p) PROVE PromiseStep
  <1> DEFINE n == row[p]
  <1>1. pc[p] \in Holding /\ pc[p] # "accepted"
    BY DEF ProviderAccepts, Calling, CallPoint, Holding
  <1>2. n \in Notification /\ lock[n] = p /\ status[n] \notin Terminal
    BY <1>1, HeldRow
  <1>3. ~ Outstanding(n)
    BY <1>1, <1>2 DEF Outstanding
  <1>4. \A m \in Notification \ {n} : lock[m] # p
    BY <1>2, DeliveryAssumption DEF DeliveryAssumption, IInv, Core, LockAgrees
  <1>5. lock' = lock /\ pc' = [pc EXCEPT ![p] = "accepted"] /\ UNCHANGED <<status, lost>>
    BY DEF ProviderAccepts, Goto, db
  <1>6. \A m \in Notification : Outstanding(m)' <=> Outstanding(m) \/ m = n
    BY <1>2, <1>4, <1>5 DEF Outstanding, IInv, Typed, DbOK, CeleryOK
  <1>7. Pending' = [Pending EXCEPT ![n] = TRUE]
    BY <1>2, <1>6, PendingBegins
  <1>8. Promise!Accept(n)
    BY <1>2, <1>3, <1>5, <1>7 DEF Promise!Accept, Promise!Closed, Terminal, Pending
  <1> QED BY <1>2, <1>8 DEF PromiseStep, Promise!Next

LEMMA RaisesRefines ==
  ASSUME IInv, NEW p \in Proc, NEW e \in Errors, ProviderRaises(p, e)
  PROVE  PromiseStep
  <1>1. pc[p] \in Holding /\ pc[p] # "accepted" /\ UNCHANGED <<status, lost>>
    BY DEF ProviderRaises, Calling, CallPoint, Holding, ghosts
  <1>2. Raise(p, e) /\ lock' = [lock EXCEPT ![row[p]] = NoProc]
    BY DEF ProviderRaises, Unlock
  <1> QED BY <1>1, <1>2, RaiseMoves, MovesStutter

LEMMA LossRefines ==
  ASSUME IInv, NEW p \in Proc, ResponseLost(p) \/ CommitFails(p) PROVE PromiseStep
  <1>1. pc[p] \in Holding
    BY DEF ResponseLost, CommitFails, Calling, CallPoint, Holding
  <1>2. /\ Raise(p, "transient")
        /\ lock' = [lock EXCEPT ![row[p]] = NoProc]
        /\ lost' = [lost EXCEPT ![row[p]] = @ + 1]
        /\ status' = status
    BY DEF ResponseLost, CommitFails, Unlock
  <1>3. PICK to \in {"raised", "idle"} : pc' = [pc EXCEPT ![p] = to]
    BY <1>2, RaiseMoves
  <1>4. to \notin Holding
    BY DEF Holding
  <1> QED BY <1>1, <1>2, <1>3, <1>4, GivesUp, Loses

LEMMA CommitRefines ==
  ASSUME IInv, NEW p \in Proc, CommitSent(p) PROVE PromiseStep
  <1> DEFINE n == row[p]
  <1>1. /\ pc[p] = "accepted" /\ pc[p] \in Holding /\ "committed" \notin Holding
        /\ pc' = [pc EXCEPT ![p] = "committed"]
        /\ lock' = [lock EXCEPT ![n] = NoProc]
        /\ status' = [status EXCEPT ![n] = "SENT"]
        /\ lost' = lost
    BY DEF CommitSent, Goto, Unlock, Holding, ghosts
  <1>2. /\ n \in Notification /\ status[n] \notin Terminal /\ Outstanding(n)
        /\ \A m \in Notification : Outstanding(m)' <=> Outstanding(m) /\ m # n
    BY <1>1, GivesUp
  <1>3. Pending' = [Pending EXCEPT ![n] = FALSE]
    BY <1>2, PendingEnds
  <1>4. Promise!Record(n)
    BY <1>1, <1>2, <1>3 DEF Promise!Record, Promise!Closed, Terminal, Pending
  <1> QED BY <1>2, <1>4 DEF PromiseStep, Promise!Next

\* What a process does once its row is released.
LEMMA AfterwardsRefines ==
  ASSUME IInv, NEW p \in Proc,
         \/ ResetFailures(p)
         \/ p \in Replayer /\ Unlist(p)
         \/ p \in Task /\ \/ Retry(p) \/ GiveUp(p) \/ PolicyLookupFails(p)
                          \/ TaskFailure(p) \/ TaskFailureBlind(p)
  PROVE  PromiseStep
  <1> USE DEF db, ghosts
  <1>1. CASE ResetFailures(p)
    BY <1>1, ReturnMoves, MovesStutter DEF ResetFailures
  <1>2. CASE Unlist(p)
    BY <1>2, MovesStutter DEF Unlist, Goto
  <1>3. CASE Retry(p) \/ GiveUp(p) \/ PolicyLookupFails(p)
    BY <1>3, MovesStutter DEF Retry, GiveUp, PolicyLookupFails, Goto
  <1>4. ASSUME NEW limit, Signal(p, limit) PROVE PromiseStep
    <2>1. pc[p] = "exhausted" /\ UNCHANGED <<status, lost, lock>>
      BY <1>4 DEF Signal
    <2>2. CASE Return(p, "unretried")
      BY <2>1, <2>2, ReturnMoves, MovesStutter
    <2>3. CASE Goto(p, "pushed")
      BY <2>1, <2>3, MovesStutter DEF Goto
    <2> QED BY <1>4, <2>2, <2>3 DEF Signal
  <1> QED BY <1>1, <1>2, <1>3, <1>4 DEF TaskFailure, TaskFailureBlind

LEMMA FinalFailureRefines ==
  ASSUME IInv, NEW t \in Task, RecordFinalFailure(t) PROVE PromiseStep
  <1> DEFINE n == row[t]
  <1>0. t \in Proc /\ n \in Notification
    BY RunningRow DEF Proc, RecordFinalFailure, Running
  <1>1. PICK to \in {"done", "unlist", "idle"} : pc' = [pc EXCEPT ![t] = to]
    BY <1>0, ReturnMoves DEF RecordFinalFailure
  <1>2. lock' = lock /\ lost' = lost
    BY <1>0 DEF RecordFinalFailure, MarkFailed, Unlock, db, ghosts, IInv, Typed, DbOK
  <1>3. pc[t] # "accepted"
    BY DEF RecordFinalFailure
  <1>4. CASE status' = status
    BY <1>0, <1>1, <1>2, <1>3, <1>4, MovesStutter
  <1>5. CASE status[n] \notin Terminal /\ status' = [status EXCEPT ![n] = "FAILED"]
    <2>1. \A m \in Notification : Outstanding(m)' <=> Outstanding(m)
      BY <1>0, <1>1, <1>2, <1>3, Elsewhere
    <2>2. ~ Outstanding(n)
      BY DeliveryAssumption DEF DeliveryAssumption, RecordFinalFailure, Outstanding
    <2> QED BY <1>0, <1>2, <1>5, <2>1, <2>2, Settles
  <1> QED BY <1>4, <1>5 DEF RecordFinalFailure, MarkFailed, db

LEMMA CrashRefines ==
  ASSUME IInv, NEW p \in Proc, Crash(p) PROVE PromiseStep
  <1> DEFINE n == row[p]
             to == IF p \in Task THEN "queued" ELSE "idle"
  <1>1. /\ pc' = [pc EXCEPT ![p] = to] /\ to # "accepted" /\ to \notin Holding
        /\ status' = status
    BY DEF Crash, Goto, Holding
  <1>2. CASE lost' = [lost EXCEPT ![n] = @ + 1] /\ pc[p] \in Holding
    <2>1. lock' = [lock EXCEPT ![n] = NoProc]
      BY <1>2 DEF Crash
    <2> HIDE DEF to
    <2> QED BY <1>1, <1>2, <2>1, GivesUp, Loses
  <1>3. CASE lost' = lost /\ pc[p] # "accepted"
    <2>1. \/ lock' = lock
          \/ pc[p] \in Holding /\ lock' = [lock EXCEPT ![n] = NoProc]
      BY DEF Crash
    <2> HIDE DEF to
    <2> QED BY <1>1, <1>3, <2>1, MovesStutter
  <1>4. \/ lost' = [lost EXCEPT ![n] = @ + 1] /\ pc[p] \in Holding
        \/ lost' = lost /\ pc[p] # "accepted"
    BY DEF Crash, Calling, CallPoint, Holding
  <1> QED BY <1>2, <1>3, <1>4

LEMMA AnswerRefines ==
  ASSUME IInv, NEW n \in Notification, Answer(n) PROVE PromiseStep
  <1>1. ~ Outstanding(n)
    BY DeliveryAssumption DEF DeliveryAssumption, Answer, Outstanding
  <1>2. \A m \in Notification : Outstanding(m)' <=> Outstanding(m)
    BY DEF Answer, Outstanding
  <1>3. Pending' = Pending
    BY <1>2, PendingSame
  <1>4. Promise!Answer(n)
    BY <1>1, <1>3 DEF Answer, Promise!Answer, Pending, ghosts
  <1> QED BY <1>4 DEF PromiseStep, Promise!Next

\* Steps that touch neither a row, nor a lock, nor a process at work.
LEMMA OthersStutter ==
  ASSUME UNCHANGED <<status, lost, lock, pc>> PROVE PromiseStep
  <1>1. \A m \in Notification : Outstanding(m)' <=> Outstanding(m)
    BY DEF Outstanding
  <1> QED BY <1>1, Stutters

-----------------------------------------------------------------------------
LEMMA InitRefines == Init => Promise!Init
  <1> SUFFICES ASSUME Init PROVE Promise!Init
    OBVIOUS
  <1>1. \A m \in Notification : ~ Outstanding(m)
    BY DeliveryAssumption DEF DeliveryAssumption, Init, Outstanding
  <1>2. Pending = [m \in Notification |-> FALSE]
    BY <1>1 DEF Pending, Outstanding
  <1> QED BY <1>2 DEF Init, Promise!Init, Pending

LEMMA StepRefines == IInv /\ [Next]_vars => PromiseStep
  <1> SUFFICES ASSUME IInv, [Next]_vars PROVE PromiseStep
    OBVIOUS
  <1>1. ASSUME NEW p \in Proc, Send(p) PROVE PromiseStep
    BY <1>1, LockRowRefines, ChecksRefine, FailuresRefine, TelegramRefines,
       AcceptsRefines, RaisesRefines, CommitRefines, AfterwardsRefines
       DEF Send, Exchange
  <1>2. ASSUME NEW p \in Proc, Misfortune(p) PROVE PromiseStep
    BY <1>2, LossRefines, CrashRefines DEF Misfortune
  <1>3. ASSUME NEW t \in Task, Recover(t) \/ PolicyLookupFails(t) \/ TaskFailureBlind(t)
        PROVE  PromiseStep
    <2>1. t \in Proc
      BY DEF Proc
    <2> QED BY <1>3, <2>1, FinalFailureRefines, AfterwardsRefines DEF Recover
  <1>4. ASSUME NEW r \in Replayer, Unlist(r) PROVE PromiseStep
    <2>1. r \in Proc
      BY DEF Proc
    <2> QED BY <1>4, <2>1, AfterwardsRefines
  <1>5. ASSUME NEW p \in Proc, NEW n \in Notification, Submit(p, n) \/ Replay(p, n)
        PROVE  PromiseStep
    BY <1>5, MovesStutter DEF Submit, Replay, Goto, db, ghosts
  <1>6. CASE \/ UNCHANGED vars \/ Expiry \/ OthersTrim
             \/ \E r \in Replayer, n \in Notification : ReplayDrops(r, n)
    <2>1. UNCHANGED <<status, lost, lock, pc>>
      BY <1>6 DEF vars, db, ghosts, Expiry, CircuitExpires, RateWindowRolls,
         DedupeExpires, ServiceWindowExpires, ReplayDrops, OthersTrim
    <2> QED BY <2>1, OthersStutter
  <1>7. Task \subseteq Proc /\ Replayer \subseteq Proc
    BY DEF Proc
  <1>8. CASE Step
    BY <1>1, <1>2, <1>3, <1>4, <1>5, <1>6, <1>7, <1>8, AnswerRefines DEF Step
  <1> QED BY <1>6, <1>8 DEF Next

\* Delivery keeps the promise of a notification row, for every number of rows,
\* tasks and replays: whatever the tasks, the replays and the callbacks do, the
\* provider is used for an open row only, one use at a time, and a recorded use
\* closes the row (_send_notification_channel_impl and its callers).
THEOREM Refinement == Spec => KeepsPromise
  <1>1. IInv /\ [Next]_vars => [Promise!Next]_(Promise!vars)
    BY StepRefines DEF PromiseStep
  <1> QED BY <1>1, InitRefines, Inductive, PTL DEF Spec, KeepsPromise, Promise!Spec
==============================================================================
