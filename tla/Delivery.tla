------------------------------- MODULE Delivery -------------------------------
(***************************************************************************)
(* One notification channel of the Seriema worker, from the task message   *)
(* in the broker to the row's final status: send_voice_call,               *)
(* send_telegram_message or send_email_message around                      *)
(* _send_notification_channel_impl, the task_failure signal, and the       *)
(* replays of the dead-letter queue that call the same implementation.     *)
(*                                                                         *)
(* A process is a task message (Task) or a replay_dlq run (Replayer).      *)
(* Every step is one transaction, one Redis command or one provider        *)
(* exchange of the code; the row lock is PostgreSQL's SELECT ... FOR       *)
(* UPDATE, held from the read of the row to the commit or the rollback.    *)
(***************************************************************************)
EXTENDS Integers, FiniteSets

CONSTANTS
  Notification,    \* rows of the notifications table, all of this channel
  Task,            \* task messages
  Replayer,        \* entries in the hands of replay_dlq runs at once
  NoProc, NoRow,   \* "nobody holds the lock", "no row"
  Channels,        \* of "VOICE", "TELEGRAM" and "EMAIL", those to consider
  Key, KeyOf,      \* Telegram dedupe keys, and the key of each row
  MaxRetries,      \* max_retries of the rule's channel_retry_policy_json
  DefaultRetries,  \* CELERY_TASK_MAX_RETRIES
  Threshold,       \* CB_FAILURE_THRESHOLD
  RateLimit,       \* CHANNEL_RATE_LIMIT_PER_MINUTE
  ServiceLimit,    \* TELEGRAM_SERVICE_RATE_LIMIT
  MaxFaults        \* bound: crashes, lost outcomes and failed policy lookups

Proc == Task \cup Replayer

\* What the DLQ keeps of an exception: replay_dlq drops an entry whose error
\* text reads like a validation error or an HTTP 400.
Errors == {"transient", "permanent"}

ASSUME DeliveryAssumption ==
  /\ Task \cap Replayer = {}
  /\ NoProc \notin Proc
  /\ NoRow \notin Notification
  /\ Channels \subseteq {"VOICE", "TELEGRAM", "EMAIL"}
  /\ KeyOf \in [Notification -> Key]
  /\ MaxRetries \in Nat
  /\ DefaultRetries \in Nat
  /\ Threshold \in Nat \ {0}
  /\ RateLimit \in Nat \ {0}
  /\ ServiceLimit \in Nat \ {0}
  /\ MaxFaults \in Nat

VARIABLES
  \* fixed before the first step
  channel,     \* the channel of the rows
  configured,  \* the rows for which credentials and a contact address exist
  \* PostgreSQL
  status,    \* notifications.status
  lock,      \* who holds the row FOR UPDATE
  \* Redis
  failures,  \* cb:<channel>:failures
  circuit,   \* cb:<channel>:open exists
  rate,      \* rl:<channel>:<bucket>, kept at RateLimit + 1 once exceeded
  claimed,   \* the Telegram dedupe keys that exist
  service,   \* ratelimit:telegram:<service>, kept at ServiceLimit + 1
  dlq,       \* how many DLQ entries each row has, by kind of error
  \* Celery
  pc, row, retries, error,
  result,    \* what the task reported when it ended
  \* history
  accepted,  \* messages the provider accepted for the row
  lost,      \* accepted messages whose outcome was never committed
  sentLog,   \* NOTIFICATION_SENT audit entries of a real send
  quietLog,  \* NOTIFICATION_SENT audit entries marked suppressed
  digest,    \* rows suppressed into the Telegram digest
  dropped,   \* rows with a DLQ entry removed as a client error
  trimmed,   \* rows with a DLQ entry cut off at the list's limit
  faults

db == <<status, lock, sentLog, quietLog>>
breaker == <<failures, circuit>>
redis == <<rate, claimed, service, digest>>
ghosts == <<accepted, lost>>
setting == <<channel, configured>>
vars == <<setting, db, breaker, redis, dlq, dropped, trimmed, pc, row, retries,
          error, result, ghosts, faults>>

\* Names that begin with Mutant are the faults that the checked properties
\* must notice; nothing else uses them.
MutantTerminal == {"DELIVERED", "ANSWERED_VOICE"}

\* _notification_is_terminal
Terminal == {"SENT", "DELIVERED", "ANSWERED_VOICE"}
Statuses == {"PENDING", "FAILED"} \cup Terminal

\* Where a process holds its row's lock, where it is working at all.
Holding == {"locked", "admitted", "ready", "claimed", "cleared", "accepted"}
Running == Holding \cup {"committed", "raised", "exhausted", "pushed", "unlist"}
Results == {"none", "sent", "already_terminal", "skipped_circuit",
            "skipped_rate_limit", "failed", "suppressed", "unretried", "dead"}

\* The provider request is made from here.
CallPoint == IF channel = "TELEGRAM" THEN "cleared" ELSE "ready"
Calling(p) == pc[p] = CallPoint /\ (channel # "VOICE" => row[p] \in configured)

DbOK ==
  /\ status \in [Notification -> Statuses]
  /\ lock \in [Notification -> Proc \cup {NoProc}]
  /\ sentLog \in [Notification -> Nat]
  /\ quietLog \in [Notification -> Nat]

RedisOK ==
  /\ failures \in 0 .. Threshold - 1
  /\ circuit \in BOOLEAN
  /\ rate \in 0 .. RateLimit + 1
  /\ claimed \subseteq Key
  /\ service \in 0 .. ServiceLimit + 1
  /\ dlq \in [Notification -> [Errors -> Nat]]

CeleryOK ==
  /\ pc \in [Proc -> {"idle", "queued", "done"} \cup Running]
  /\ row \in [Proc -> Notification \cup {NoRow}]
  /\ retries \in [Task -> Nat]
  /\ error \in [Proc -> Errors]
  /\ result \in [Task -> Results]

HistoryOK ==
  /\ digest \subseteq Notification
  /\ dropped \subseteq Notification
  /\ trimmed \subseteq Notification
  /\ accepted \in [Notification -> Nat]
  /\ lost \in [Notification -> Nat]
  /\ faults \in 0 .. MaxFaults

Typed == DbOK /\ RedisOK /\ CeleryOK /\ HistoryOK

SettingOK == channel \in Channels /\ configured \subseteq Notification

TypeOK == SettingOK /\ Typed

Init ==
  /\ channel \in Channels
  /\ configured \in SUBSET Notification
  /\ status = [n \in Notification |-> "PENDING"]
  /\ lock = [n \in Notification |-> NoProc]
  /\ sentLog = [n \in Notification |-> 0]
  /\ quietLog = [n \in Notification |-> 0]
  /\ failures = 0
  /\ circuit = FALSE
  /\ rate = 0
  /\ claimed = {}
  /\ service = 0
  /\ digest = {}
  /\ dlq = [n \in Notification |-> [e \in Errors |-> 0]]
  /\ dropped = {}
  /\ trimmed = {}
  /\ pc = [p \in Proc |-> "idle"]
  /\ row = [p \in Proc |-> NoRow]
  /\ retries = [t \in Task |-> 0]
  /\ error = [p \in Proc |-> "transient"]
  /\ result = [t \in Task |-> "none"]
  /\ accepted = [n \in Notification |-> 0]
  /\ lost = [n \in Notification |-> 0]
  /\ faults = 0

-----------------------------------------------------------------------------
Goto(p, where) == pc' = [pc EXCEPT ![p] = where]
MutantUnlock(n) == UNCHANGED lock
Unlock(n) == lock' = [lock EXCEPT ![n] = NoProc]

\* A replay removes the entry whatever the implementation returned.
MutantReturn(p, r) ==
  /\ Goto(p, IF p \in Task THEN "done" ELSE "unlist")
  /\ result' = IF p \in Task THEN [result EXCEPT ![p] = r] ELSE result
  /\ UNCHANGED <<row, retries, error>>

\* The implementation returns r.  A task message is then acknowledged; a
\* replay goes on to remove the entry when r is a delivery, and otherwise
\* leaves the entry where it is.
Return(p, r) ==
  /\ Goto(p, IF p \in Task THEN "done"
             ELSE IF r \in {"sent", "already_terminal"} THEN "unlist" ELSE "idle")
  /\ row' = IF p \in Task \/ r \in {"sent", "already_terminal"}
            THEN row ELSE [row EXCEPT ![p] = NoRow]
  /\ result' = IF p \in Task THEN [result EXCEPT ![p] = r] ELSE result
  /\ UNCHANGED <<retries, error>>

\* The implementation raises e and its transaction is rolled back.  A task
\* goes to its except clause, a replay swallows the exception.
Raise(p, e) ==
  /\ Goto(p, IF p \in Task THEN "raised" ELSE "idle")
  /\ row' = IF p \in Task THEN row ELSE [row EXCEPT ![p] = NoRow]
  /\ error' = [error EXCEPT ![p] = IF p \in Task THEN e ELSE @]
  /\ UNCHANGED <<retries, result>>

Fault == faults < MaxFaults /\ faults' = faults + 1

\* The breaker opens one failure late.
MutantRecordChannelFailure ==
  IF failures + 1 > Threshold
  THEN failures' = 0 /\ circuit' = TRUE
  ELSE failures' = failures + 1 /\ UNCHANGED circuit

\* _record_channel_failure
RecordChannelFailure ==
  IF failures + 1 >= Threshold
  THEN failures' = 0 /\ circuit' = TRUE
  ELSE failures' = failures + 1 /\ UNCHANGED circuit

\* _mark_notification_failed
MarkFailed(n) ==
  /\ status' = [status EXCEPT ![n] = "FAILED"]
  /\ Unlock(n)
  /\ RecordChannelFailure
  /\ UNCHANGED <<sentLog, quietLog>>

\* _mark_notification_suppressed
MarkSuppressed(n) ==
  /\ status' = [status EXCEPT ![n] = "DELIVERED"]
  /\ quietLog' = [quietLog EXCEPT ![n] = @ + 1]
  /\ Unlock(n)
  /\ UNCHANGED sentLog

-----------------------------------------------------------------------------
\* dispatch_incident, the escalation and a retriggered event queue a send.
\* The status they read may be stale by the time the message is delivered.
Submit(t, n) ==
  /\ pc[t] = "idle"
  /\ Goto(t, "queued")
  /\ row' = [row EXCEPT ![t] = n]
  /\ UNCHANGED <<db, breaker, redis, dlq, dropped, trimmed, retries, error,
                 result, ghosts, faults>>

\* replay_dlq has read an entry whose error does not look permanent.
Replay(r, n) ==
  /\ pc[r] = "idle"
  /\ dlq[n]["transient"] > 0
  /\ Goto(r, "queued")
  /\ row' = [row EXCEPT ![r] = n]
  /\ UNCHANGED <<db, breaker, redis, dlq, dropped, trimmed, retries, error,
                 result, ghosts, faults>>

\* replay_dlq drops an entry whose error looks permanent.
ReplayDrops(r, n) ==
  /\ pc[r] = "idle"
  /\ dlq[n]["permanent"] > 0
  /\ dlq' = [dlq EXCEPT ![n]["permanent"] = @ - 1]
  /\ dropped' = dropped \cup {n}
  /\ UNCHANGED <<db, breaker, redis, trimmed, pc, row, retries, error, result,
                 ghosts, faults>>

\* LREM of the replayed entry; another run or a trim may have taken it.
Unlist(r) ==
  LET n == row[r] IN
  /\ pc[r] = "unlist"
  /\ \/ /\ dlq[n]["transient"] > 0
        /\ dlq' = [dlq EXCEPT ![n]["transient"] = @ - 1]
     \/ /\ dlq[n]["transient"] = 0 \/ n \in trimmed
        /\ UNCHANGED dlq
  /\ Goto(r, "idle")
  /\ row' = [row EXCEPT ![r] = NoRow]
  /\ UNCHANGED <<db, breaker, redis, dropped, trimmed, retries, error, result,
                 ghosts, faults>>

\* A push of another channel or of the escalation, or prune_dlq, cuts the
\* list to its limit and one of these rows' entries is among the oldest.
OthersTrim ==
  /\ \E n \in Notification, e \in Errors :
       /\ dlq[n][e] > 0
       /\ dlq' = [dlq EXCEPT ![n][e] = @ - 1]
       /\ trimmed' = trimmed \cup {n}
  /\ UNCHANGED <<db, breaker, redis, dropped, pc, row, retries, error, result,
                 ghosts, faults>>

-----------------------------------------------------------------------------
\* The row is read without FOR UPDATE.
MutantLockRow(p) ==
  /\ pc[p] = "queued"
  /\ status[row[p]] \notin Terminal
  /\ lock' = [lock EXCEPT ![row[p]] = p]
  /\ Goto(p, "locked")
  /\ UNCHANGED <<status, sentLog, quietLog, breaker, redis, dlq, dropped,
                 trimmed, row, retries, error, result, ghosts, faults>>

\* SELECT ... FOR UPDATE and the terminal check.
LockRow(p) ==
  LET n == row[p] IN
  /\ pc[p] = "queued"
  /\ lock[n] = NoProc
  /\ \/ /\ status[n] \in Terminal
        /\ Return(p, "already_terminal")
        /\ UNCHANGED lock
     \/ /\ status[n] \notin Terminal
        /\ lock' = [lock EXCEPT ![n] = p]
        /\ Goto(p, "locked")
        /\ UNCHANGED <<row, retries, error, result>>
  /\ UNCHANGED <<status, sentLog, quietLog, breaker, redis, dlq, dropped,
                 trimmed, ghosts, faults>>

\* _channel_is_circuit_open
CheckCircuit(p) ==
  /\ pc[p] = "locked"
  /\ \/ /\ circuit
        /\ Return(p, "skipped_circuit")
        /\ Unlock(row[p])
     \/ /\ ~circuit
        /\ Goto(p, "admitted")
        /\ UNCHANGED <<lock, row, retries, error, result>>
  /\ UNCHANGED <<status, sentLog, quietLog, breaker, redis, dlq, dropped,
                 trimmed, ghosts, faults>>

\* _channel_rate_limit_exceeded; the FAILED audit entry leaves the row as is.
CheckRate(p) ==
  LET count == rate + 1 IN
  /\ pc[p] = "admitted"
  /\ rate' = IF count > RateLimit THEN RateLimit + 1 ELSE count
  /\ \/ /\ count > RateLimit
        /\ Return(p, "skipped_rate_limit")
        /\ Unlock(row[p])
     \/ /\ count <= RateLimit
        /\ Goto(p, "ready")
        /\ UNCHANGED <<lock, row, retries, error, result>>
  /\ UNCHANGED <<status, sentLog, quietLog, breaker, claimed, service, digest,
                 dlq, dropped, trimmed, ghosts, faults>>

\* No bot token, no e-mail address or no Resend key: FAILED without a retry.
\* The voice channel raises instead (ProviderRaises).
FailUnconfigured(p) ==
  /\ pc[p] = "ready"
  /\ channel \in {"TELEGRAM", "EMAIL"}
  /\ row[p] \notin configured
  /\ MarkFailed(row[p])
  /\ Return(p, "failed")
  /\ UNCHANGED <<redis, dlq, dropped, trimmed, ghosts, faults>>

\* Telegram: SET NX of the dedupe key, before anything is sent.
ClaimKey(p) ==
  LET n == row[p] IN
  /\ pc[p] = "ready"
  /\ channel = "TELEGRAM"
  /\ n \in configured
  /\ \/ /\ KeyOf[n] \in claimed
        /\ MarkSuppressed(n)
        /\ Return(p, "suppressed")
        /\ UNCHANGED claimed
     \/ /\ KeyOf[n] \notin claimed
        /\ claimed' = claimed \cup {KeyOf[n]}
        /\ Goto(p, "claimed")
        /\ UNCHANGED <<db, row, retries, error, result>>
  /\ UNCHANGED <<breaker, rate, service, digest, dlq, dropped, trimmed, ghosts,
                 faults>>

\* Telegram: the per-service throttle, which diverts to the hourly digest.
CountService(p) ==
  LET n == row[p]
      count == service + 1 IN
  /\ pc[p] = "claimed"
  /\ service' = IF count > ServiceLimit THEN ServiceLimit + 1 ELSE count
  /\ \/ /\ count > ServiceLimit
        /\ digest' = digest \cup {n}
        /\ MarkSuppressed(n)
        /\ Return(p, "suppressed")
     \/ /\ count <= ServiceLimit
        /\ Goto(p, "cleared")
        /\ UNCHANGED <<db, digest, row, retries, error, result>>
  /\ UNCHANGED <<breaker, rate, claimed, dlq, dropped, trimmed, ghosts, faults>>

-----------------------------------------------------------------------------
\* The provider takes the message and its answer arrives.  The mock voice
\* provider accepts by doing nothing.
ProviderAccepts(p) ==
  /\ Calling(p)
  /\ row[p] \in configured
  /\ accepted' = [accepted EXCEPT ![row[p]] = @ + 1]
  /\ Goto(p, "accepted")
  /\ UNCHANGED <<db, breaker, redis, dlq, dropped, trimmed, row, retries, error,
                 result, lost, faults>>

\* The exchange raises and the provider did not take the message.
ProviderRaises(p, e) ==
  /\ Calling(p)
  /\ channel = "EMAIL" => e = "transient"
  /\ Raise(p, e)
  /\ Unlock(row[p])
  /\ UNCHANGED <<status, sentLog, quietLog, breaker, redis, dlq, dropped,
                 trimmed, ghosts, faults>>

\* Resend answers with an error status: RuntimeError, FAILED, no retry.
EmailRefused(p) ==
  /\ channel = "EMAIL"
  /\ Calling(p)
  /\ MarkFailed(row[p])
  /\ Return(p, "failed")
  /\ UNCHANGED <<redis, dlq, dropped, trimmed, ghosts, faults>>

\* The provider took the message but the exchange raised (a timeout, a
\* truncated answer).
ResponseLost(p) ==
  /\ Calling(p)
  /\ row[p] \in configured
  /\ Fault
  /\ accepted' = [accepted EXCEPT ![row[p]] = @ + 1]
  /\ lost' = [lost EXCEPT ![row[p]] = @ + 1]
  /\ Raise(p, "transient")
  /\ Unlock(row[p])
  /\ UNCHANGED <<status, sentLog, quietLog, breaker, redis, dlq, dropped,
                 trimmed>>

\* _mark_notification_sent up to its commit.
CommitSent(p) ==
  LET n == row[p] IN
  /\ pc[p] = "accepted"
  /\ status' = [status EXCEPT ![n] = "SENT"]
  /\ sentLog' = [sentLog EXCEPT ![n] = @ + 1]
  /\ Unlock(n)
  /\ Goto(p, "committed")
  /\ UNCHANGED <<quietLog, breaker, redis, dlq, dropped, trimmed, row, retries,
                 error, result, ghosts, faults>>

\* That commit fails.
CommitFails(p) ==
  /\ pc[p] = "accepted"
  /\ Fault
  /\ lost' = [lost EXCEPT ![row[p]] = @ + 1]
  /\ Raise(p, "transient")
  /\ Unlock(row[p])
  /\ UNCHANGED <<status, sentLog, quietLog, breaker, redis, dlq, dropped,
                 trimmed, accepted>>

\* _reset_channel_circuit_state, after the commit.
ResetFailures(p) ==
  /\ pc[p] = "committed"
  /\ failures' = 0
  /\ Return(p, "sent")
  /\ UNCHANGED <<db, circuit, redis, dlq, dropped, trimmed, ghosts, faults>>

-----------------------------------------------------------------------------
\* Nothing asks for the exception again: the new message of a retry is without it.
Forget(t) == error' = [error EXCEPT ![t] = "transient"]

\* The except clause of the task, with the policy read from the database.
Retry(t) ==
  /\ pc[t] = "raised"
  /\ retries[t] < MaxRetries
  /\ retries' = [retries EXCEPT ![t] = @ + 1]
  /\ Forget(t)
  /\ Goto(t, "queued")
  /\ UNCHANGED <<db, breaker, redis, dlq, dropped, trimmed, row, result, ghosts,
                 faults>>

GiveUp(t) ==
  /\ pc[t] = "raised"
  /\ retries[t] >= MaxRetries
  /\ Goto(t, "exhausted")
  /\ UNCHANGED <<db, breaker, redis, dlq, dropped, trimmed, row, retries, error,
                 result, ghosts, faults>>

\* Reading the policy raises inside the except clause: the task fails with
\* that exception instead of asking for a retry.
PolicyLookupFails(t) ==
  /\ pc[t] = "raised"
  /\ Fault
  /\ error' = [error EXCEPT ![t] = "transient"]
  /\ Goto(t, "exhausted")
  /\ UNCHANGED <<db, breaker, redis, dlq, dropped, trimmed, row, retries, result,
                 ghosts>>

\* _push_dlq_entry: RPUSH and the trim to DLQ_MAX_ITEMS, which may cut off an
\* older entry.  The other channels' entries are in the same list, so the room
\* left in it and which entry is the oldest are open here (see DeadLetters).
Push(n, e) ==
  LET pushed == [dlq EXCEPT ![n][e] = @ + 1] IN
  \/ dlq' = pushed /\ UNCHANGED trimmed
  \/ \E m \in Notification, f \in Errors :
       /\ dlq[m][f] > 0
       /\ dlq' = [pushed EXCEPT ![m][f] = @ - 1]
       /\ trimmed' = trimmed \cup {m}

\* _on_task_failure: below the limit it takes the failure for a retry and
\* returns; otherwise it pushes the DLQ entry.
Signal(t, limit) ==
  /\ pc[t] = "exhausted"
  /\ \/ /\ retries[t] < limit
        /\ Return(t, "unretried")
        /\ UNCHANGED <<dlq, trimmed>>
     \/ /\ retries[t] >= limit
        /\ Push(row[t], error[t])
        /\ Forget(t)
        /\ Goto(t, "pushed")
        /\ UNCHANGED <<row, retries, result>>
  /\ UNCHANGED <<db, breaker, redis, dropped, ghosts>>

TaskFailure(t) == Signal(t, MaxRetries) /\ UNCHANGED faults

\* The handler's own policy lookup fails and it falls back to the default.
TaskFailureBlind(t) == Signal(t, DefaultRetries) /\ Fault

\* The final failure overwrites whatever status the row has by now.
MutantRecordFinalFailure(t) ==
  /\ pc[t] = "pushed"
  /\ lock[row[t]] = NoProc
  /\ MarkFailed(row[t])
  /\ Return(t, "dead")
  /\ UNCHANGED <<redis, dlq, dropped, trimmed, ghosts, faults>>

\* _record_final_failure, in a transaction of its own.
RecordFinalFailure(t) ==
  LET n == row[t] IN
  /\ pc[t] = "pushed"
  /\ lock[n] = NoProc
  /\ \/ /\ status[n] \in Terminal
        /\ UNCHANGED <<db, breaker>>
     \/ /\ status[n] \notin Terminal
        /\ MarkFailed(n)
  /\ Return(t, "dead")
  /\ UNCHANGED <<redis, dlq, dropped, trimmed, ghosts, faults>>

-----------------------------------------------------------------------------
\* The worker running p dies; its transaction is rolled back and, the message
\* being acknowledged late, the broker delivers it again with the same retry
\* count.  A request in flight may have reached the provider.
Crash(p) ==
  LET n == row[p] IN
  /\ pc[p] \in Running
  /\ Fault
  /\ \E reached \in BOOLEAN :
       /\ reached => Calling(p) /\ n \in configured
       /\ accepted' = IF reached THEN [accepted EXCEPT ![n] = @ + 1] ELSE accepted
       /\ lost' = IF reached \/ pc[p] = "accepted"
                  THEN [lost EXCEPT ![n] = @ + 1] ELSE lost
  /\ lock' = IF pc[p] \in Holding THEN [lock EXCEPT ![n] = NoProc] ELSE lock
  /\ Goto(p, IF p \in Task THEN "queued" ELSE "idle")
  /\ row' = IF p \in Task THEN row ELSE [row EXCEPT ![p] = NoRow]
  /\ UNCHANGED <<status, sentLog, quietLog, breaker, redis, dlq, dropped,
                 trimmed, retries, error, result>>

\* handle_voice_callback writes the row of a call that was placed; the UPDATE
\* waits for the row lock.
Answer(n) ==
  /\ channel = "VOICE"
  /\ accepted[n] > 0
  /\ lock[n] = NoProc
  /\ status' = [status EXCEPT ![n] = "ANSWERED_VOICE"]
  /\ UNCHANGED <<lock, sentLog, quietLog, breaker, redis, dlq, dropped, trimmed,
                 pc, row, retries, error, result, ghosts, faults>>

\* Redis expiries: the open circuit, the rate window, a dedupe key, the
\* service throttle.
CircuitExpires ==
  /\ circuit
  /\ circuit' = FALSE
  /\ UNCHANGED <<db, failures, redis, dlq, dropped, trimmed, pc, row, retries,
                 error, result, ghosts, faults>>

RateWindowRolls ==
  /\ rate > 0
  /\ rate' = 0
  /\ UNCHANGED <<db, breaker, claimed, service, digest, dlq, dropped, trimmed,
                 pc, row, retries, error, result, ghosts, faults>>

DedupeExpires(k) ==
  /\ k \in claimed
  /\ claimed' = claimed \ {k}
  /\ UNCHANGED <<db, breaker, rate, service, digest, dlq, dropped, trimmed, pc,
                 row, retries, error, result, ghosts, faults>>

ServiceWindowExpires ==
  /\ service > 0
  /\ service' = 0
  /\ UNCHANGED <<db, breaker, rate, claimed, digest, dlq, dropped, trimmed, pc,
                 row, retries, error, result, ghosts, faults>>

-----------------------------------------------------------------------------
\* The steps of the shared implementation, for a task and for a replay alike.
Exchange(p) == \/ ProviderAccepts(p)
               \/ \E e \in Errors : ProviderRaises(p, e)
               \/ EmailRefused(p)

Send(p) == \/ LockRow(p) \/ CheckCircuit(p) \/ CheckRate(p)
           \/ FailUnconfigured(p) \/ ClaimKey(p) \/ CountService(p)
           \/ Exchange(p) \/ CommitSent(p) \/ ResetFailures(p)

Recover(t) == Retry(t) \/ GiveUp(t) \/ TaskFailure(t) \/ RecordFinalFailure(t)

Misfortune(p) == ResponseLost(p) \/ CommitFails(p) \/ Crash(p)

Expiry == \/ CircuitExpires \/ RateWindowRolls \/ ServiceWindowExpires
          \/ \E k \in Key : DedupeExpires(k)

Step ==
  \/ \E t \in Task : \/ \E n \in Notification : Submit(t, n)
                     \/ Recover(t) \/ PolicyLookupFails(t) \/ TaskFailureBlind(t)
  \/ \E r \in Replayer : \/ \E n \in Notification : Replay(r, n) \/ ReplayDrops(r, n)
                         \/ Unlist(r)
  \/ \E p \in Proc : Send(p) \/ Misfortune(p)
  \/ \E n \in Notification : Answer(n)
  \/ Expiry
  \/ OthersTrim

Next == Step /\ UNCHANGED setting

Spec == Init /\ [][Next]_vars

(***************************************************************************)
(* Properties                                                              *)
(***************************************************************************)
\* A recipient is messaged more than once only when an outcome was lost: every
\* accepted message of a row but one had its response, its commit or its worker
\* lost.  Tasks, replays, retries and redeliveries of the same row cannot add a
\* second send of their own (_send_notification_channel_impl, lines 1487-1504).
SendsOnceUpToLoss == \A n \in Notification : accepted[n] <= 1 + lost[n]

\* The audit trail and the row agree: exactly one NOTIFICATION_SENT entry when
\* the row is SENT or DELIVERED, none while it is PENDING or FAILED, at most one
\* once the call was answered, whatever raced with the commit.
RowAudited(n) ==
  LET entries == sentLog[n] + quietLog[n] IN
  /\ entries <= 1
  /\ status[n] \notin Terminal => entries = 0
  /\ status[n] \in {"SENT", "DELIVERED"} => entries = 1

AuditAgreesWithRow == \A n \in Notification : RowAudited(n)

\* A delivered row is never reopened or marked FAILED, by a late retry, a final
\* failure recorded after a replay delivered it, or a second task.
TerminalIsFinal ==
  [][\A n \in Notification : status[n] \in Terminal => status'[n] \in Terminal]_vars

\* A FAILED row can still be found, unless it is an e-mail or its failure was no
\* exception but a missing address or credential: an entry for it is in the DLQ,
\* or one was dropped because its error read like a client error, or one was cut
\* off at the limit of the list.  No replay, and no failure recorded after it,
\* loses the entry in another way.
FailedIsInTheDlq ==
  \A n \in Notification :
    status[n] = "FAILED" /\ channel # "EMAIL" /\ (channel = "VOICE" \/ n \in configured) =>
      n \in dropped \cup trimmed \/ \E e \in Errors : dlq[n][e] > 0

\* What a task reported is still true of its row at any later time; only a
\* skipped or an unretried task may leave a row PENDING behind it.
ReportAgreesWithRow ==
  \A t \in Task :
    LET s == status[row[t]] IN
    /\ result[t] = "sent" => s \in {"SENT", "ANSWERED_VOICE"}
    /\ result[t] = "suppressed" => s = "DELIVERED"
    /\ result[t] = "already_terminal" => s \in Terminal
    /\ result[t] \in {"failed", "dead"} => s # "PENDING"

\* The row keeps its promise to the rest of the system.
Outstanding(n) == lock[n] \in Proc /\ pc[lock[n]] = "accepted"

Promise == INSTANCE NotificationPromise
             WITH row <- status,
                  pending <- [n \in Notification |-> Outstanding(n)],
                  lost <- lost

KeepsPromise == Promise!Spec

\* What the documents say of the code, and the runs refute.

\* "Falha transitoria do canal segue politica de retry": once nobody is at
\* work on it, a row closed as a duplicate has the key of a row whose message
\* reached the provider.
SuppressedAfterASend ==
  (\A p \in Proc : pc[p] \in {"idle", "done"}) =>
    \A n \in Notification :
      status[n] = "DELIVERED" /\ n \notin digest =>
        \E m \in Notification : KeyOf[m] = KeyOf[n] /\ accepted[m] > 0
==============================================================================
