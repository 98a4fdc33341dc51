# Seriema in TLA+

Seriema turns events into incidents and incidents into notifications. A FastAPI
service (`main.py`) takes events in and exposes the incidents; Celery workers
(`worker.py`) send the notifications by voice call, Telegram and e-mail, and poll
outside sources. PostgreSQL holds the rows, Redis the counters, claims, locks and
cursors, and the dead-letter queue (DLQ); the broker holds the task messages.

This directory models the parts of that program in which order, failure and
concurrency decide whether it is correct. TLC checks every module on small
instances. TLAPS proves, for every value of the constants, every safety property that
a passing run checks, and that `Delivery` refines `NotificationPromise`; liveness is
TLC's alone. Line numbers below are those of `src/main.py` and `src/worker.py`;
`PROJECT.json` maps each definition to the lines it models.

Contents: [inventory](#inventory), [modules](#modules), [runs](#runs),
[fairness](#fairness), [proofs](#proofs),
[where the code departs from its documents](#where-the-code-departs-from-its-documents),
[limits](#what-the-models-assume-and-leave-out), [plan](#plan).

## Inventory

### Components, their state and their operations

| Component | State it keeps | Operations | What makes it correct |
|---|---|---|---|
| Channel delivery (`worker.py` 293-573, 627-758, 1243-1476, 1479-1927) | `notifications.status`, its row lock, `NOTIFICATION_SENT` audit entries; Redis: failures and open key of the circuit breaker, rate window, Telegram dedupe keys, service throttle, digest; Celery: message, retries | send, retry, final failure, replay, provider answer | one send per row unless an outcome was lost; delivered is final; audit, row and task report agree; a failed row can be found in the DLQ; queued tasks end unless the thread is stuck |
| Incident life cycle (`main.py` 1794-1904, 2497-2596; `worker.py` 1952-2117) | `incidents.status`, notification status, `audit_logs` | acknowledge, resolve, voice callback, escalate, sweep | one voice acknowledgement; the audit trail explains the status; legal transitions |
| Event ingestion (`main.py` 67-102, 229-263, 896-1085) | `incidents`, `occurrences`, dedupe keys in Redis | ingest an event, fold it into an open incident, audit, dispatch | one open incident for each key; the opening and each milestone of a matched event are dispatched; a duplicate has an original |
| Dispatcher and escalation fan-out (`worker.py` 1196-1240, 1754-1831, 1956-2079) | notification rows, `TASK_QUEUED` entries, channel messages | plan targets, find or create rows, queue messages, fall back | every target whose channel has a task reached, also after a redelivery; no message without its entry; the fallback queued once |
| Dead-letter queue (`worker.py` 1143-1193, 1243-1284, 2131-2306) | Redis list, replay lock | push, trim, prune, replay | entries leave for a reason; bounded; replays exclude each other; recoverable entries leave |
| Log pull (`main.py` 628-702, 1104-1228) | cursor, claim keys | fetch from Loki, claim a line, ingest it, move the cursor | a line is handed on no more often than its key's life time allows; no line skipped without a reason |
| Sentry pull (`worker.py` 839-853, 929-983) | one id cursor for all projects | ask each project, ingest newer issues, move the cursor | no issue skipped without a reason; every other is ingested |
| Telegram throttle and digest (`worker.py` 856-926) | a counter and a hash field for each service | count a message, buffer a suppressed one, report and delete | suppressed messages are reported; a full throttle opens again |
| Langfuse pull (`worker.py` 802-822, 986-1056) | time cursor | one page of observations, ingest the faulty ones, move the cursor | no faulty observation passed without a reason; every other is ingested |
| Directory: contacts, groups, members (`main.py` 1366-1670) | three tables | CRUD; a delete is refused while references exist | no dangling reference; a request alone never meets a constraint; a dispatch reaches the members it read |
| Rules (`main.py` 1238-1364), rule engine (`engine.py`) | rules table; none | CRUD, toggle, simulate; first match | first matching active rule; the simulation predicts it |
| Log classifier (`classifier.py`) | none | the service of a line, then ordered patterns, levels and words | an alarm is not taken for noise |
| Readiness, metrics, SLA, alerts (`main.py` 313-534, 1951-2395; `worker.py` 761-778, 1059-1140) | metrics hash and replay report in Redis; aggregates over the tables | write heartbeats and list sizes; answer readiness, SLA and alerts | green when all is well; a number in an alert was true |
| TwiML, schemas, configuration, observability, migrations, deployment | none of their own | wording, validation, logging, tables | see [limits](#what-the-models-assume-and-leave-out) |

### How they interact

* A source (HTTP client, log pull, Sentry pull, Langfuse pull) calls
  `ingest_event`. It commits the incident and then sends `dispatch_incident`. A log
  line gets its severity from the classifier; INFO is dropped. The engine gives the
  event its rule.
* The rule names a group of the directory. `dispatch_incident` reads its members
  while the endpoints may be changing them.
* `dispatch_incident` and `handle_escalation` create one notification row for each
  (contact, channel) pair and send one channel message for each of them.
* A channel task locks its row with `SELECT ... FOR UPDATE`, passes the circuit
  breaker, the rate limit and, for Telegram, the dedupe key and the throttle, calls
  the provider and commits the status with its audit entry. An exception is retried
  by Celery; the last one fires the `task_failure` signal, which appends to the DLQ,
  and then marks the row as failed.
* `replay_dlq` (beat) takes a batch of DLQ entries under a Redis lock and calls the
  same channel implementation directly.
* A contact who presses 1 reaches `handle_voice_callback`, which locks the incident
  and then the notification. The sender locks the notification and then, through
  the foreign key of its audit entry, the incident.
* Messages that the Telegram throttle suppresses go into a Redis hash which
  `telegram_digest_worker` reports every hour.
* Workers leave heartbeats, counters and the size of the dead-letter list in one
  Redis hash; the API reads it together with PostgreSQL for readiness and alerts.

### What is hard to get right

Interleavings of tasks, replays, callbacks and requests on one row; late
acknowledgement, so that a message whose worker dies runs again from its start;
effects outside the transaction (provider, Redis, broker) next to a commit that may
fail; decisions on rows that were read without a lock; two locks taken in opposite
orders; locks and claims in Redis that expire under their holder; lists trimmed
under their readers; cursors that pass what was not there yet; one thread for all
tasks of a worker, which a wait for PostgreSQL stops. `PROJECT.json` lists
each of these hazards at the line where it bites, with the property that watches it.

## Modules

| Module | Models | Composed with |
|---|---|---|
| `NotificationPromise` | what a notification row promises to the rest of the system (abstract) | implemented by `Delivery` |
| `Delivery` | one channel, from the task message to the row's final status | `NotificationPromise` by `INSTANCE ... WITH` |
| `Greenlets` | the same channel in the worker as it is deployed: one thread, the gevent pool, a psycopg2 that blocks it | extends `Delivery` |
| `IncidentLifecycle` | every writer of an incident's status, and the locks each takes | |
| `Ingest` | `ingest_event` | |
| `Dispatch` | `dispatch_incident` and the escalation down to channel messages | |
| `DeadLetters` | the DLQ list and its replays | |
| `RadarPull` | the log pull, up to the unique constraint on external ids | `Endpoints` |
| `SentryPull`, `LangfusePull` | the other two pulls | `Pulls` |
| `Pulls` | the two side by side | `SentryPull`, `LangfusePull` by `INSTANCE` |
| `TelegramDigest` | the per-service throttle and the digest of what it suppresses | |
| `LogClassifier` | `classify_log_line`, as operators | extended by `Matching` |
| `RuleEngine` | `evaluate_rules` and the simulation, as operators | extended by `Matching` |
| `Matching` | a log line on its way through classifier, INFO filter and engine | `Endpoints` |
| `Directory` | the CRUD endpoints of contacts, groups, members and rules, next to dispatchers | extended by `Endpoints` |
| `Readiness` | `/ops/readiness`, next to the writers of what it reads | `Endpoints`, `MCReadiness` |
| `Alerts` | `/alerts/ops`, next to the writers of what it reads | `Endpoints` |
| `Endpoints` | these five side by side | `RadarPull`, `Matching`, `Readiness` and `Alerts` by `INSTANCE` |
| `DeliveryProofs` | theorems about `Delivery`, its refinement of `NotificationPromise` included | extends `Delivery` |
| `LifecycleProofs` | theorems about `IncidentLifecycle` | extends `IncidentLifecycle` |
| `IngestProofs` | theorems about `Ingest` | extends `Ingest` |
| `DispatchProofs` | theorems about `Dispatch` | extends `Dispatch` |
| `DeadLettersProofs` | theorems about `DeadLetters` | extends `DeadLetters` |
| `DigestProofs` | theorems about `TelegramDigest` | extends `TelegramDigest` |
| `PullsProofs` | theorems about the two pulls | extends `Pulls` |
| `EndpointProofs` | theorems about the five components of `Endpoints` | extends `Endpoints` |
| `MC...` | the instance of each for TLC | |

Each module is the state of its component as variables, one action for each
transaction, Redis command or exchange with the outside, and the properties at the
end. Definitions whose name begins with `Mutant` are plausible bugs, each the
mutated form of one definition; no action refers to them. They show that each
property notices a bug of the code: with `Mutant...` in the place of the definition
it is a variant of, TLC finds the property violated.

### `Delivery`

| State | Code |
|---|---|
| `channel`, `configured` | which of `send_voice_call`, `send_telegram_message`, `send_email_message` runs; whether credentials and an address exist. Chosen by `Init`, then fixed |
| `status`, `lock` | `notifications.status`; the holder of `FOR UPDATE` (1487) |
| `failures`, `circuit` | `cb:<channel>:failures`, `cb:<channel>:open` |
| `rate`, `claimed`, `service` | the rate window, the dedupe keys, the service throttle |
| `dlq`, `dropped`, `trimmed` | entries in the DLQ by row and kind of error; rows an entry of which the replay dropped, or a trim cut off |
| `pc`, `row`, `retries`, `error`, `result` | a Celery message or a replay: where it is, its row, `request.retries`, the exception, what it returned |
| `sentLog`, `quietLog` | `NOTIFICATION_SENT` entries of a send, and of a suppression |
| `accepted`, `lost`, `digest`, `faults` | history: messages the provider took, those whose outcome was never committed, rows suppressed into the digest; the fault bound |

A process goes `queued` -> `locked` -> `admitted` -> `ready` (-> `claimed` ->
`cleared` for Telegram) -> `accepted` -> `committed` -> `done`. `LockRow` is the
`SELECT ... FOR UPDATE` with the terminal check, `CheckCircuit` and `CheckRate` the
two early returns, `FailUnconfigured` the missing credentials, `ClaimKey` and
`CountService` the Telegram steps, `ProviderAccepts`, `ProviderRaises`,
`EmailRefused` and `ResponseLost` the exchange, `CommitSent` and `CommitFails` the
commit, `ResetFailures` what follows it. An exception leads to `raised`; from there
`Retry` or `GiveUp`, then `TaskFailure` (the signal, which pushes to the DLQ) and
`RecordFinalFailure`. A push trims the list (`Push`); so do the pushes of other
channels and the prune (`OthersTrim`). How full the list is, and whose entry is the
oldest, depends on them, so any entry may be the one that is cut off. `PolicyLookupFails` and `TaskFailureBlind` are the paths on
which the lookup of the retry policy raises. `Crash` is a worker that dies anywhere;
its message is delivered again.

### The other modules

* `Greenlets`. The steps are those of `Delivery`, and each needs the thread: a task or
  replay `Runs` if nobody waits inside libpq, or if it is the one who does. Who asks
  for a row that is held (`Waits`) keeps the thread until it has the row. `WorkerDies`
  ends all greenlets at once, `Strays` is what may befall one, `Elsewhere` what happens
  outside the process.
* `IncidentLifecycle`. A request without `FOR UPDATE` is two actions, the read and
  the commit of what it decided then (`OperatorReads`, `OperatorAcks`,
  `OperatorResolves`; `SweeperReads`, `SweeperCommits`). A callback locks the
  incident (`CallbackLocks`) and commits incident and notification together
  (`CallbackAcks`), or notes another digit (`CallbackNotes`). A sender locks the
  notification and needs the incident's key share to commit. `DeadlockDetector` is
  PostgreSQL's: it cancels one of the two transactions of a cycle.
* `Ingest`. A request is `Arrive`, `Look` (open incident with the key), `Refresh`
  (fold the event, retrigger on a milestone or after silence), `Claim` (SETNX),
  `Insert` (unique constraint), `Audit` (second transaction) and `Dispatch`
  (`apply_async`); `Fail` may come before any of these. A request has a key of its own
  (`KeysOf` says which are possible): it is given with the request or built from the
  rule and the time bucket, so one external event may come with several. A request
  whose event is there already under another key ends at the unique constraint and
  leaves the key it claimed (answer "conflict"). `Close` stands for what
  other components do to the incident, `KeyExpires` for the key's time to live.
* `Dispatch`. A message plans its targets, looks for a row of each, inserts it if
  there is none, notes `TASK_QUEUED` and sends, unless the channel is WHATSAPP or
  CALENDAR (`Mute`), for which there is no task; `Crash` redelivers it, `Raise` ends
  it. `Deliver` is all that it needs to know of `Delivery`, `Close` of
  `IncidentLifecycle`.
* `DeadLetters`. A push is RPUSH, LLEN, LTRIM; a prune is LLEN, LTRIM; a replay is
  SET NX EX of the lock, LRANGE, LREM for each entry, then GET and DELETE of the
  lock. `Expire` is the lock of a dead run, `Lapse` the lock of a live one.
* `RadarPull`. A pull reads the cursor and fetches the newer lines up to the limit,
  claims and hands on each, then moves the cursor. The lookback is the caller's, so each
  pull chooses one. Time is a clock that all keys and
  the lookback refer to; `Store` is a line that reaches Loki, perhaps late.
  `IdOf` is the external id, service and time stamp: of two lines that share it only
  the first one gets an event (`filed`).
* `SentryPull`. A run reads the cursor, asks each project in turn, ingests newer
  issues, saves the highest id. `Create` is an issue filed at any moment.
* `LangfusePull`. A run notes the time and reads the cursor (`Begin`), gets one page
  of what started since (`Ask`), ingests the faulty ones (`IngestOne`) and saves the
  time it began (`SaveSince`). An observation is filed under the time it started, but
  only when it has ended (`File`): that may be behind the cursor.
* `TelegramDigest`. `Count` is INCR, `SetExpiry` the EXPIRE by the first message of a
  window, `Buffer` HSET of a message beyond the limit, `Collect` HGETALL, `Report` one
  text, `Clear` DELETE. `SenderDies` is a death between two of a sender's commands.
* `LogClassifier`. A line is the form it has (text, object, object without a message,
  text with an object at its end, which may have a message of its own), the level it
  declares, its prefix and the patterns that occur in it, or in the message of the
  object at its end (`inner`): veredas searches only the latter when there is one.
  `LevelSeverity` has one level for each way in which the tables tell levels apart. `Patterns` lists the expressions of each service in the order they
  are tried, `Classify` the order in which levels, patterns and words decide.
* `RuleEngine`. A condition is a set of entries; a pattern is the set of texts it
  matches. Python's `None` and a missing field are two values, because a pattern is
  matched with "None" for the one and "" for the other, while an exact value cannot
  tell them apart.
* `Directory`. A request is `Receive`, one `Pass` or `Refuse` for each query before
  the write, then `Commit`, `Break` (a constraint refuses it: 500), `NameTaken` or
  `Fail`. `Checks` lists the queries of each endpoint, `Breaks` what PostgreSQL
  refuses. A dispatcher is `ReadRule`, `ReadMembers`, then `Take` and `Keep` or
  `Insert` for each member and channel, and `Queue`, `Raise`, or `Abort` when PostgreSQL fails it.
* `Readiness`. The endpoint is three queries (`Ask`) and the answer; `EscalationGuard`,
  `AckFlow`, `Heartbeats` and `Verdict` are the formulas of the code. Each of the
  writers is one commit; their own rules are those of `IncidentLifecycle`.
* `Alerts`. A worker changes the list, asks for its length (`Count`) and writes that
  into the metrics (`Refresh`); the endpoint reads field, list, incidents and
  acknowledgements one after the other.

## Runs

Every run ends in less than four minutes on two workers. All configurations set
`CHECK_DEADLOCK FALSE`: task messages and requests are finite in number, and when
all have ended the system has nothing left to do. Bounds are
named constants; with one fault more than zero every fault action happens, alone, at
each point of every interleaving, and the property that bounds an effect by the
number of faults (`SendsOnceUpToLoss`) says so in its formula.

Components that share no state are checked side by side: in `Pulls` and `Endpoints`,
which `pulls_all` and `api_all` instantiate, a behaviour belongs to one component,
chosen at the start, and its properties are those of that component's module. The
state graphs are explored one next to the other, not multiplied.

| Run | Instance | Checks |
|---|---|---|
| `delivery_all` | any of the three channels, any subset of two rows configured, both rows with one dedupe key; two tasks, one replay; 1 retry by the rule, 2 by default; breaker opens at 2 failures; rate limit and throttle 1; 1 fault. 1.55 million states | `SendsOnceUpToLoss`, `AuditAgreesWithRow`, `FailedIsInTheDlq`, `ReportAgreesWithRow`, and the refinement `KeepsPromise` |
| `greenlets_live` | voice, one row, two tasks, one replay, breaker opens at 1, 1 retry by the rule, 2 by default, 1 fault, `GreenSpec` | `EndsUnlessStuck` |
| `greenlets_stuck` | the same; TLC finds the violation | `EveryTaskEnds` |
| `delivery_suppress` | Telegram, no fault; TLC finds the violation | `SuppressedAfterASend` |
| `lifecycle_all` | one incident, two notifications, two operators, two callbacks, two senders, an escalation, a sweeper, 1 death. 1.02 million states | `VoiceAckOnce`, `AuditExplainsStatus`, `LegalTransitions` |
| `ingest_all` | four events: two of one kind and a rule, each request for which carries one of two keys, one without a key, one INFO; four requests, milestones 1 and 3, 1 failure. 0.44 million states | `OneOpenPerKey`, `MilestonesDispatched`, `DuplicateHasOriginal` |
| `dispatch_all` | a dispatcher and two escalations, three targets: one that is also the fallback, one on a channel without a task, one that is not let through; at most three rows; valid and invalid fallback policy, 2 crashes or exceptions, `FairSpec`. 0.52 million states | `DoneReachesAll`, `QueuedIsNoted`, `FallbackOnce`, `OneRowPerMessage`, `MessageReachesAll` |
| `dlq_all` | three entries (one client error, one hopeless), a list of two, batches of two, two runs, 1 death or lapse, `FairSpec` | `TypeOK`, `ListBounded`, `OverlapBounded`, `LeavesForAReason`, `RecoverableLeaves` |
| `pulls_all` | Sentry: three issues of two projects, answers of one. Langfuse: three observations, one of them faulty, two of one time, pages of one, clock to 2. Two runs and 1 failure each, `FairSpec` | `TypeOK`, `PassedForAReason`, `FiledIsIngested` |
| `digest_all` | five messages of two services, throttle 1, 2 faults, `FairSpec` | `TypeOK`, `GoneForAReason`, `BufferedIsReported`, `ThrottleReopens` |
| `api_all` | radar: three lines, two of them with one time and one external id, two pulls, batches of two, lookback 1 or 2, key 2, pull at most 1, clock to 4, 1 failure. matching: the seven service names, up to two of them in a line, all forms, levels and prefixes, up to two patterns, all lists of up to two rules with up to two entries each. directory: one contact, two groups, one rule, two channels, two requests and a dispatcher of which two are at work at once. readiness: two incidents, four commits. alerts: one incident, two workers, a list of one, two changes, 1 failure. 1.65 million states | `ApiTypeOK`; radar `HandedBounded`, `SkippedForAReason`, `DuplicateWasHanded`; matching `AlarmIsHeard`, `SimulationPredicts`; directory `ErrorOnlyFromARace`, `DispatchReachesMembers`; readiness `GuardOnlyFromTornRead`; alerts `AlertIsReal` |
| `readiness_green` | the readiness part of `api_all`; TLC finds the violation | `HealthyIsGreen` |

Why these bounds are enough to be interesting. A race on a row needs two processes
that want it, and a third (the replay) to come after a failure was recorded: two
tasks and a replay. A thread gets stuck with two greenlets. The breaker, the rate limit and the throttle matter when they
are exceeded: limits of one or two, with more sends than that. A trim matters when
there are more entries than the list holds, a cursor when lines share a time and the
batch is too small for them, a milestone when the count reaches it: 3 in place of 10.
A key burnt at the unique constraint takes two keys and a third request. The lookback
and the key of the log pull are of one length, as in the code's defaults (300 s), so
that a line is handed on twice.
Two patterns in a line are enough for one to be tried before another, two rules for
one to hide another, two channels for a dispatcher to commit one row and then find
the member of the next gone. What is symmetric in these instances is declared so,
except in runs with liveness.

The bounds also limit what a run shows, and time limits what it asks: the type
invariants of `Delivery`, `IncidentLifecycle`, `Ingest` and `Dispatch` are in no run,
because they are theorems.

## Fairness

* `Greenlets`: weak fairness of each greenlet's `Runs`. gevent runs every greenlet that
  can run; PostgreSQL grants a row that is free to whoever asks; Redis and the
  providers answer or time out. Nothing is assumed of a greenlet while the thread
  waits for another one, and the time limit of a task, which is a timer of the same
  thread, is none of its steps. Nothing is assumed of deaths, expiries, replays or new
  messages either. `EndsUnlessStuck` has to name its exception therefore, and
  `greenlets_stuck` shows that it happens.
* `Dispatch`: weak fairness of each message's steps.
* `DeadLetters`: beat sends `replay_dlq` again and again (`Acquire`), a run that has
  begun goes on, the key of a dead run expires, and a replay that can succeed is not
  refused for ever (strong fairness of `Deliver`, for entries that are neither
  hopeless nor client errors).
* `SentryPull`, `LangfusePull`: beat sends the task again and again, and a run that
  has begun goes on.
* `TelegramDigest`: beat sends the digest, a live sender goes on from its INCR to its
  EXPIRE, and Redis expires a counter that has a time to live.
* `Delivery`, `IncidentLifecycle`, `Ingest`, `RadarPull`, `Matching`, `Directory`,
  `Readiness`, `Alerts`: no liveness is claimed, so no fairness is stated. (What waits
  for a row in the life cycle is partly a greenlet too, see `Greenlets`.)

## Proofs

Each module is proved from the named assumption about its constants alone. Sets are
finite only where the assumption says so.

* `DeliveryAssumption`: tasks and replays differ, the two "nobody" values are no
  process and no row, limits are natural numbers, thresholds positive. The proofs
  hold for each channel.
* `LifecycleAssumption`: every notification has an incident, no process is of two
  kinds, the "nobody" values are no process, incident or notification.
* `IngestAssumption`: `NoKey` is no key and `NoEvent` no event, the requests for an
  event carry keys or `NoKey`, matched and informational events are events. Milestones
  are any set of positive numbers.
* `DispatchAssumption`: recipient, fallback, enabled and mute targets are targets,
  dispatchers and escalations differ and are finite in number, `NoTarget` is no target,
  the limits are natural numbers.
* `DeadLettersAssumption`: the entries are finite in number, `NoRun` is no replay, the
  list and the batch have room for an entry.
* `TelegramDigestAssumption`: every message has a service, the threshold is positive.
* `PullsAssumption`: every issue has a project; observations are finite in number, the
  faulty ones are observations and each starts at a time; pages and interval are
  positive.
* `EndpointsAssumption`, one conjunct for each component. Log pull: lines and pulls are
  finite in number, limits and times are natural numbers, and two with one external id have one time, since the id contains it. Rules:
  a list of rules is a sequence. Directory: `None` is nothing else, and the identifiers
  of contacts are not those of groups (both are UUIDs). Readiness: registered tasks are
  tasks. Alerts: incidents are finite in number.

| Module | Theorem | States |
|---|---|---|
| `DeliveryProofs` | `Inductive` | `Spec => []IInv` |
| | `TypeCorrect` | `Spec => []TypeOK` |
| | `SendsOnce` | `Spec => []SendsOnceUpToLoss` |
| | `AuditAligned` | `Spec => []AuditAgreesWithRow` |
| | `Final` | `Spec => TerminalIsFinal` |
| | `Reports` | `Spec => []ReportAgreesWithRow` |
| | `Failures` | `Spec => []FailedIsInTheDlq` |
| | `Refinement` | `Spec => KeepsPromise` |
| `LifecycleProofs` | `Inductive` | `Spec => []IInv` |
| | `TypeCorrect` | `Spec => []TypeOK` |
| | `VoiceOnce` | `Spec => []VoiceAckOnce` |
| | `Explained` | `Spec => []AuditExplainsStatus` |
| | `Legal` | `Spec => LegalTransitions` |
| `IngestProofs` | `Inductive` | `Spec => []IInv` |
| | `TypeCorrect` | `Spec => []TypeOK` |
| | `OneOpen` | `Spec => []OneOpenPerKey` |
| | `Occurrences` | `Spec => []OccurrencesBounded` |
| | `Dispatched` | `Spec => []MilestonesDispatched` |
| | `Originals` | `Spec => []DuplicateHasOriginal` |
| `DispatchProofs` | `Inductive` | `Spec => []IInv` |
| | `TypeCorrect` | `Spec => []TypeOK` |
| | `NotesComeFirst` | `Spec => []QueuedIsNoted` |
| | `DispatchComplete` | `Spec => []DoneReachesAll` |
| | `FallbackUnique` | `Spec => []FallbackOnce` |
| | `MessageCreatesOne` | `Spec => []OneRowPerMessage` |
| `DeadLettersProofs` | `Inductive` | `Spec => []IInv` |
| | `TypeCorrect` | `Spec => []TypeOK` |
| | `Bounded` | `Spec => []ListBounded` |
| | `Overlaps` | `Spec => []OverlapBounded` |
| | `Leaving` | `Spec => LeavesForAReason` |
| `DigestProofs` | `Inductive` | `Spec => []IInv` |
| | `TypeCorrect` | `Spec => []TypeOK` |
| | `SuppressedIsAccountedFor` | `Spec => []GoneForAReason` |
| | `OnlyDeathSilences` | `Spec => []CounterIsMortal` |
| `PullsProofs` | `Inductive` | `Spec => []IInv` |
| | `TypeCorrect` | `Spec => []TypeOK` |
| | `CursorPassesForAReason` | `Spec => []PassedForAReason` |
| `EndpointProofs` | `DirectoryInductive` | `Spec => []DirectoryInv` |
| | `Races` | `Spec => ErrorOnlyFromARace` |
| | `Reached` | `Spec => DispatchReachesMembers` |
| | `ApiInductive` | `ApiSpec => []ApiInv` |
| | `Directed` | `ApiSpec => Spec` |
| | `ApiTyped` | `ApiSpec => []ApiTypeOK` |
| | `HandedFewTimes` | `ApiSpec => []HandedBounded` |
| | `LossesAreKnown` | `ApiSpec => []SkippedForAReason` |
| | `DuplicatesWereClaimed` | `ApiSpec => []DuplicateWasHanded` |
| | `AlarmsAreHeard` | `ApiSpec => []AlarmIsHeard` |
| | `SimulationIsSound` | `ApiSpec => []SimulationPredicts` |
| | `GuardIsHonest` | `ApiSpec => []GuardOnlyFromTornRead` |
| | `AlertsAreReal` | `ApiSpec => []AlertIsReal` |

In `EndpointProofs`, `Spec` is that of `Directory`, which `Endpoints` extends, and
`ApiSpec` that of the five components. TLC has checked the invariants that the
inductive ones are made of on the instances of the runs, before they were proved.

### `Delivery`

`SendsOnceUpToLoss` is not inductive: a second send is impossible because whoever
could make it would have to hold the lock of a row that is not terminal, and no one
who holds the lock has an acceptance behind him that the row does not show. `IInv`
says that in five parts: `RowKnown` (a process past the broker has a row),
`LockAgrees` (the lock and the positions of the processes tell the same story),
`OpenWhileLocked` (a locked row is not terminal), `Ledger` (every accepted message
is recorded, lost, or about to be committed by the holder of the lock) and
`AuditAgreesWithRow`. `AuditAgreesWithRow` bounds the recorded ones by one, and the
ledger turns that into `SendsOnceUpToLoss`.

Most actions disturb `IInv` in one of two ways, and each way is one lemma: `Moves`
(a process changes position, the database stays as it is) and `Releases` (it gives
up the lock together with what it wrote to the row). There is one lemma for each
action, and `Next` is their case split. `RowStep` says what any step may do to the
status of a row; `Final` follows from it.

The refinement maps a row to its status and to whether an accepted message awaits
its commit (`Outstanding`). `Elsewhere` and `GivesUp` say what a step does to that
second part, `Stutters`, `Loses` and `Settles` turn it into a step of the promise,
and each action is one of these, an acceptance, a record or an answer.

The reports need to know what the position of a process tells about its row
(`Told`): past the commit the row is sent; a replay about to remove an entry has a
delivered row; a task that has pushed its entry has a row that is delivered or
still has an entry, or had one that was dropped or trimmed (`Kept`). Otherwise an
entry cannot vanish between the push and the final failure: only a replay of a
delivered row removes it (`KeptStays`), and then the final failure finds the row
delivered and leaves it. A trim marks the row whose entry it cuts off (`CutKeeps`). `RestingTold`
carries `Told` over the steps of others, `SendTold`, `MisfortuneTold`, `TaskTold`
and `ReplayTold` over a process's own.

### `IncidentLifecycle`

`VoiceAckOnce` follows from what a process may rely on under its lock. `IncidentHeld`
and `RowHeld` say that the locks and the positions of callbacks and senders agree;
`StillOpen`, that the incident of a callback that is about to acknowledge is open
(everyone else who writes a status waits for the callback's lock);
`StillUndelivered`, that the row a sender holds is not delivered, so that its commit
cannot overwrite ANSWERED_VOICE (`SenderAnswersNone`). An open incident has no
acknowledgement in its audit trail (`AuditExplainsStatus`), so the one of
`CallbackAcks` is the first (`FirstAnswer`). This holds through the deadlocks of
callbacks and senders because the victim gives its lock up without a commit.

`AuditExplainsStatus` needs `Resolvable`: an operator who is about to resolve has
read a status that has its audit entry already, and entries are never taken back.
The same fact makes `LegalTransitions` true of a resolution that commits long after
it was decided (`StatusSteps`): the incident cannot be open again.

### `Ingest`

What keeps two requests from inserting incidents with one key is the key in Redis,
together with its life time: `Excluded` says that a request at the insert has claimed
its key, alone, while no incident with it is open, and that a request which found no
open incident before one was committed will find the key claimed. `KeyExpires`
waits for the requests with that key, which is the assumption the section on
limits names. `Counts` bounds occurrences by what was folded in, also for the
requests that have read a count and not written it back yet. `Pursued` and
`Duplicates` are the two end-of-work properties, stated for the time when requests are
still under way. A count is reached by the request that writes it, once or, when an older
count is written back, again, but never leapt over: each count up to the present one was
`Brought` by some request (`Passed`), and a request that has brought a milestone has
sent the message, is about to, matches no rule or failed (`Settled`). A claimed key has
an incident, or the request that will insert one, or one that left it burnt (`Backed`).

### `Dispatch`

`DoneReachesAll` needs what a dispatcher owes while it works (`Covered`): each of its
targets on a channel with a task (`Audible`) is still before it, or in a row that it has collected, or reached. It holds
although rows and messages of other dispatchers appear meanwhile because no step takes
a row, a message or a delivery away (`RowsKept`, `PendingKept`), and because a redelivered
message begins with all its targets again. `QueuedIsNoted` counts (`Noted`): a row has
an entry for each message and one more for each process that is between the entry and
the message; a process that dies there leaves a surplus, never a debt. `FallbackOnce`
follows from `Alone`: only an open incident lets an escalation in, and the commit that
lets it in closes the door for all others and for its own redelivery; a row it has not
noted yet has no entry (`Fresh`).

`OneRowPerMessage` compares the rows of a target with the messages that have it in
their plan, and a step of one of these messages may add a row. `Counted` adds the
messages that are about to insert one (`Inserters`): the sum never exceeds the messages
with the target in their plan. A message becomes an inserter only when it has found no
row, and then it was not one of them before; an insert turns an inserter into a row; a
crash leaves an inserter out. A message inserts only what it has planned (`Planned`).

### `DeadLetters`

`OverlapBounded` is a matter of debts. A run that works without the key, or is about
to delete a key that is not its own, is `Keyless`. A lapse makes one run keyless. The
DELETE of a keyless run makes the owner of the key keyless, but ends its own debt
(`NextIndebted`), so the keyless runs are never more than the lapses, and at work are
they and the owner. `ListBounded` is inductive with the types: a push adds an entry and
owes a trim, a trim pays for every push before it. `LeavesForAReason` needs
that a run about to remove an entry has delivered it (`Unlisting`), and two facts about
lists: LREM of an entry leaves the others (`Removal`), LTRIM leaves the newest
(`Trimming`).

### `TelegramDigest`

`GoneForAReason` has to say what a run may delete: while one is at work, what the hash
holds of a service is what the run has read and is still to send, or was sent, or came
in after the run had read the hash (`HashOK`). What takes the place of another in the
hash is a later message of the service (`replaced`). Type correctness is not free: the
counter of a service is bounded because its messages arrive in order (`Ordered`,
`CountOK`). `CounterIsMortal` is the safety half of `ThrottleReopens`: a counter has a
time to live, or the one sender that found it at zero is about to set it (`Firsts`), or
that sender died.

### The pulls

`PassedForAReason` says what the cursor has passed. The step that moves the cursor is
the last of a run, so the invariant says of each run at work what it vouches for. A run
of the Sentry pull (`Vouched`): every issue up to the cursor it read, and every issue
of the projects it has asked, was ingested or is excused, or is yet to be looked at in
the last answer. A run of the Langfuse pull (`Answered`): the faulty observations before
its window; and when it has its page, those that started before it began, but for what it
has yet to ingest. An overlapping run may set the Langfuse cursor back, which is harmless
here: whoever reads it vouches for less. The lemmas the two need are that the least
element of a set of numbers exists (`MinIsMember`) and that a page that is not full
contains everything.

### `Directory`

`ErrorOnlyFromARace`: what a request has found still holds unless a session has
committed since (`Held`), and checks that all hold leave no constraint to break
(`ChecksSuffice`, endpoint by endpoint). `DispatchReachesMembers`: a dispatcher
accounts for every member it has read (`Planned`), and a membership it has read is
there or was removed. A dispatcher that PostgreSQL fails ends at a place of its own
(`Abort`). Both ways to raise then come from a removal: a membership that is
gone directly, a contact that is gone because the foreign keys (`References`) allow its
deletion only without memberships. The type invariant says that no identifier of a
deleted row comes back, which needs to be known of requests under way: what one is about
to create is not there and never was, and no two are about to create the same; what one
is about to delete is there, or another has deleted it (`Formed`).

### `Readiness` and `Alerts`

`GuardOnlyFromTornRead`: an incident with an ESCALATED entry is not open, because
every writer takes it out of OPEN in the commit that logs the escalation; what the
endpoint has read of an incident is still so unless the incident was written meanwhile
(`ReadinessInv`). `AlertIsReal`: while no refresh is on its way, was lost or came late,
the field is the length of the list or missing, and a worker whom nobody has overtaken
was told the length (`AlertsInv`); the incidents that are acknowledged are some of those
that there are now, and those that there were at the first query have been counted.

### `RadarPull`

`HandedBounded` counts the claims of a line, those that `ingest_event` answered and those
in hand (`Claims`). A claim is made only when the key is gone, and sets it anew; the first
is made later than the line's time, since no line is stored before that. So after n
claims the key expires later than the line's time plus n times `KeyTTL` (`Paced`). A
batch contains no line older than `since - LookbackMax`, and a pull is at work for at most
`Span` (`InTime`), so the last claim was made within `LookbackMax + Span` of the line's
time, later than the key of the claim before it. With 300 s for key and lookback, and
pulls shorter than that, a line is handed on at most twice; with the 3600 s that the
endpoint accepts, at most thirteen times. `SkippedForAReason`: every line not newer
than one of a batch is settled or still to come in that batch (`Batch`), so that the
cursor passes settled lines only (`Passed`); a batch that is cut off at the limit is the
case that needs the order of lines by time. `Filed` says that of lines with one external
id one has the event, and `Keyed` that a key, or a duplicate, comes from a claim.

### Rule engine and classifier

`evaluate_rules` is a recursive function over the number of the rule it has come to. It
is defined only by its equation, so the proof first gives a function that satisfies it,
the one that answers with the first rule that matches (`First`, `Hits`); then the
`CHOOSE` that defines the loop satisfies the equation as well, and the greatest number
at which it does not answer with the first match would contradict it
(`EvaluateFindsTheFirst`). `SimulationPredicts` is then a matter of one rule: without
patterns the simulation's matcher and the engine's agree, and where it has patterns the
simulation matches less.

`AlarmIsHeard` is a property of tables. `PatternTables` and `WordTable` say of each
table that all its entries stand for alarms, but for those of redis and loki that
`Noise` names, and for "warn", the last of the words; `LevelsGrade` says which levels are
alarms, and which of them are words. A table then answers with an alarm whenever an alarm
occurs in the text and no noise comes before it (`Hears`; `BothHear` for two tables one
after the other, `SearchHears` for the service's own). What is not searched is what
`Muffled` names: a level that is no word (`WithoutLevel`: the line would be an alarm
without its level too), and for veredas a pattern before an object with a message
(`WithoutBefore`). `VeredasHears` is the case of veredas, which asks the prefix and the
object at the end of a line before its patterns, and then searches the message for
patterns and the whole text for words; a pattern in the message, or a word, is heard
(`VeredasNoWord`). `ClassifyHears` is the case split on the service and the form of the
line.

### `Pulls` and `Endpoints`

In a composition side by side the invariant is that of the component the behaviour
belongs to (`IInv` of `PullsProofs`, `ApiInv`). `Directed` says that each behaviour of
`Endpoints` is one of `Directory`, so that what is proved of `Spec` holds of all.

### What is only model-checked

Liveness: `EndsUnlessStuck`, `MessageReachesAll`, `RecoverableLeaves`, `FiledIsIngested`, `BufferedIsReported` and `ThrottleReopens`. The
prover does not reason about fairness and `ENABLED`. What the state has to be for them is
proved where it is safety: `CounterIsMortal`, and the invariants of the locks.

The three properties that runs find violated have no theorem, of course.

## Where the code departs from its documents

Three departures are runs that TLC finds violated:

* `delivery_suppress`: a Telegram send that fails leaves its dedupe key behind (1599),
  so that its own retry is suppressed and the row closed as DELIVERED, although
  `plans/agente-b-assincrono-notificacao.md:31` promises a retry. Nothing was sent.
* `greenlets_stuck`: two tasks for one row, or a task and a replay, can stop the whole
  worker. The one that holds the row waits for its provider and lets the other run; that
  one asks for the row (1487), and psycopg2 waits inside libpq without letting anybody
  run, the holder included. PostgreSQL sees one waiter and no cycle. The time limit
  (docker-compose.yml:108, worker.py:1838) is a timer of the same thread.
* `readiness_green`: `/ops/readiness` is never green, although `tests/test_api.py:1282`
  expects it of a healthy system. It waits for the heartbeat of
  `stale_incident_sweeper` (main.py:2335), which no worker is given to run
  (worker.py:2082), and its guard wants every incident with an ESCALATED entry to be
  OPEN (main.py:2169), although the escalation commits both together
  (worker.py:1963-1978). The test writes both by hand.

The others are part of the models, and the properties name them as exceptions:

| Behaviour | Where | In the models |
|---|---|---|
| A refusal of the e-mail provider ends as FAILED, with neither retry nor DLQ entry | worker.py:1699 | `EmailRefused`; exception of `FailedIsInTheDlq` |
| A failed lookup of the retry policy ends a task below its retry limit | worker.py:1846 | `PolicyLookupFails`; result "unretried" in `ReportAgreesWithRow` |
| An acknowledgement by the API decides on a status read without a lock and may overwrite RESOLVED or ESCALATED | main.py:1810 | exception of `LegalTransitions` |
| The sweeper may overwrite an acknowledgement | worker.py:2104 | exception of `LegalTransitions` |
| A callback that PostgreSQL chooses as the victim of a deadlock loses the digit, and the contact hears the confirmation all the same | main.py:2592, 2595 | `DeadlockDetector`; the wording is not modelled |
| A matched event folded into an incident nobody was notified of is not dispatched before a milestone or a silence; a milestone brought by a request without a rule is not dispatched | main.py:968 | `Refresh`; exception of `MilestonesDispatched` |
| Two requests that read one count bring the same milestone, and both dispatch | main.py:942 | `Refresh`; `MilestonesDispatched` says at least once |
| A failure between the commit and `apply_async` loses the dispatch | main.py:1079 | exception of `MilestonesDispatched` |
| The dedupe key is set before the incident is committed; a failure in between makes the client's retry a duplicate of nothing | main.py:981 | exception of `DuplicateHasOriginal` |
| A resent external event under a new key claims the key, meets the unique constraint and leaves the key burnt: the next event with it is a duplicate of nothing, though no request failed | main.py:981, 1029 | answer "conflict"; exception of `DuplicateHasOriginal` |
| The duplicate found by the unique constraint leaves no audit entry | main.py:1030 | audit entries are not kept in `Ingest` |
| Two messages of one incident may create two rows for a target | worker.py:1202 | `OneRowPerMessage` counts rows by message |
| A target on WHATSAPP or CALENDAR gets a row and a TASK_QUEUED entry, and no message | worker.py:1233 | `Mute`; `DoneReachesAll` and `MessageReachesAll` speak of the other targets (`Audible`) |
| The trim that follows a push, and the prune, may cut off the only DLQ entry of a failed row | worker.py:1282, 2297 | `Push`, `OthersTrim`; `trimmed`, exception of `FailedIsInTheDlq` |
| A dispatcher that raises has no retry and no DLQ entry | worker.py:1361 | `Raise`; exception of `MessageReachesAll` |
| A redelivered escalation returns at the status check and creates no fallback | worker.py:1976 | `FallbackOnce` is at most once, not exactly once |
| As many hopeless DLQ entries as a batch holds starve all others | worker.py:2191 | condition of `RecoverableLeaves` |
| The replay lock is released by GET and then DELETE | worker.py:1191 | `OverlapBounded` |
| A log line that was claimed when its pull failed counts as a duplicate for ever | main.py:1186 | `burnt`, exception of `DuplicateWasHanded` |
| Loki's lookback (300 s, up to 3600 s on request) is no shorter than the claim key's time to live (300 s), so a line may be handed on twice, or more often | main.py:649, 1105, 1186 | `HandedBounded` |
| A line older than the lookback when the pull comes is passed | main.py:649 | `aged`, exception of `SkippedForAReason` |
| A throttle counter whose sender dies between INCR and EXPIRE never expires: the service is silenced until somebody deletes the key | worker.py:883 | `SenderDies`; exception of `ThrottleReopens` |
| SETNX and EXPIRE of a claim are two commands; a claim without a time to live makes every later event a duplicate | redis_client.py:12 | `Ingest.KeyExpires` need not happen |
| The Langfuse cursor is the time of the request: observations that end late, or beyond the page of 50, are passed | worker.py:1050 | exceptions of `PassedForAReason` |
| Of two log lines of one service and one nanosecond the second is answered as a duplicate, and counted as accepted | main.py:1196 | `filed`, exception of `SkippedForAReason` |
| A dispatcher whose member is removed under it raises after it has committed rows, and queues none of them; so does one whose query or commit PostgreSQL fails | worker.py:1773 | `Raise`, `Abort`; exceptions of `DispatchReachesMembers` |
| A race between a delete and what comes to refer to the row is answered with a 500 instead of a 409; so is a new rule for an unknown group | main.py:1418, 1238 | `Break`; exceptions of `ErrorOnlyFromARace` |
| Two toggles of a rule at once may count as one | main.py:1341 | `Write` with the flag as read |
| The simulation of a rule knows no patterns | main.py:271 | condition `plain` of `SimulationPredicts` |
| The level inside a JSON line of seriema's own is ignored; elsewhere a declared INFO or WARN, and some patterns of noise, come before those of alarms | classifier.py:396 | `Muffled`, exception of `AlarmIsHeard` |
| For veredas, what stands before an object with a message is not searched for patterns | classifier.py:322 | `Muffled` |
| The levels alert, emergency and err, where a level is only searched for, are no words of the table, and the line ends as INFO | classifier.py:9, 358 | `Muffled` |
| The size of the dead-letter list in the metrics may be of another time, or of none | main.py:463, worker.py:1068 | exceptions of `AlertIsReal` |

## What the models assume and leave out

* In `Delivery`, tasks and replays wait for a row lock independently of each other, as
  in a prefork pool: it has every interleaving that a greenlet could take part in, and
  more, so that its safety properties hold of both. `Greenlets` has the pool of the
  compose file (docker-compose.yml:83) for the tasks and replays of one channel; that a
  dispatcher, an escalation or a pull of the same process stops it, or is stopped by it,
  is not modelled.
* `handle_escalation` and `stale_incident_sweeper` are modelled although nothing
  registers them with Celery or beat today.
* `Delivery` counts DLQ entries by row and kind and lets a trim come at any time, of any
  entry; order, length and the limit are those of `DeadLetters`. A push that is delivered twice is, there, another entry.
* The replay's dry run (the default of the compose file) moves no entry and is left
  out; the models take `dry_run` as false. The replay's report is in `Readiness`.
* `Readiness` never compares a heartbeat's `last_run_at` with the clock, as the code
  does not, and every write to the hash renews its time to live: the heartbeat of a
  dead task stays "ok" as long as others write theirs. The replay's report lives as
  long as the replay's interval (120 s), so that it may be gone when it is read.
* `self.retry` publishes the new message before the old one is acknowledged; a
  crash between the two, which leaves two messages, is not a state of its own.
  Two tasks for the same row are.
* In `Delivery`, INCR and EXPIRE of a counter are one step; `TelegramDigest` takes
  them as two, and the death between them (worker.py:883) as `SenderDies`.
* `Ingest.KeyExpires` assumes that the dedupe key outlives a request (300 s).
* Group membership and rules are fixed while a dispatcher of `Dispatch` runs;
  `Directory` lets the members and contacts change under one.
* `RadarPull` reads the cursor and queries Loki in one step, and takes one pull of
  each kind for the worker and the operator.
* `SentryPull` does not model issues that are resolved in Sentry while unread.
* `LogClassifier` takes the classifier's regular expressions as patterns that occur
  in a line or do not; the expressions themselves are data. It keeps their order, and
  takes the message of an object to contain no object itself.
* Not modelled: message texts and TwiML (wording), request encoding of the
  providers, schema validation (declarative), health endpoints, the failure counter
  of the log pull (worker.py:575-625), the alerts on failure rate and backlog, the
  SLA averages and queue counters (arithmetic on one read), observability (swallows
  its errors and changes no state), migrations, deployment.

## Plan

Done so far: all modules above and their runs, from the channel delivery and
the pool it runs in, the life cycle, ingestion, dispatch, the DLQ and the pulls to the directory, the rules, the
classifier, readiness and alerts; and a theorem for every safety property that a
passing run checks.

Next, models:

1. `Pipeline`: `Ingest`, `Dispatch` and `NotificationPromise` composed, from the
   event to the row, with the promise in the place of `Delivery`. It replaces
   assumptions (`Deliver`, `Close`) by the components that make them true.
2. `RadarPull` with `Ingest`: the line handed on and the dedupe key of the event
   are two layers of the same protection.
3. The queue snapshot and the counters behind the SLA report.
4. `Greenlets` with a dispatcher and an escalation: whose wait for PostgreSQL stops whom
   in one worker.

Next, proofs:

1. What a delivery does to a row in `Dispatch`, and a closing to an incident in
   `Ingest` and `Dispatch`, follows from `NotificationPromise` and
   `IncidentLifecycle`.
2. Abstract specifications of the dead-letter list and of the cursors, and that
   `DeadLetters` and the pulls implement them.
3. When a cursor may move back: only by a run or a pull that read it before another
   one moved it.

Liveness under fairness stays out of the prover's reach. So does induction over data as
a principle; where a recursive function has to be reasoned about, the proof goes by a
function with its values and by a greatest counterexample.
