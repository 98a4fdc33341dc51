------------------------------ MODULE DeadLetters ------------------------------
(***************************************************************************)
(* The dead-letter queue: a Redis list that final failures append to, that *)
(* every append and prune_dlq trim to its newest DLQ_MAX_ITEMS entries,    *)
(* and that replay_dlq reads a batch of from its old end.                  *)
(*                                                                         *)
(* Replays exclude each other with a Redis key that has a time to live and *)
(* the run's token as its value.  Nothing renews the key, so it may expire *)
(* under a run that is still at work, and the release reads the token and  *)
(* deletes the key in two commands.                                        *)
(***************************************************************************)
EXTENDS Integers, Sequences, FiniteSets, SequencesExt

CONSTANTS
  Entry,         \* raw entries; each carries a fresh failed_at
  ClientError,   \* entries whose error reads like a validation error or a 400
  Hopeless,      \* entries whose replay never succeeds
  Run,           \* replay_dlq tasks that may be active at once
  NoRun,
  MaxItems,      \* DLQ_MAX_ITEMS
  Batch,         \* DLQ_REPLAY_BATCH_SIZE
  MaxFaults      \* bound: workers that die, refused LREMs and keys that expire
                 \* under their run

ASSUME DeadLettersAssumption ==
  /\ IsFiniteSet(Entry)
  /\ ClientError \subseteq Entry /\ Hopeless \subseteq Entry
  /\ NoRun \notin Run
  /\ MaxItems \in Nat \ {0}
  /\ Batch \in Nat \ {0}
  /\ MaxFaults \in Nat

VARIABLES
  dlq,        \* the list, oldest entry first
  push,       \* how far the push of each entry is
  pruning,    \* prune_dlq has found the list too long
  lockKey,    \* the token in the lock key
  pc, batch,  \* each run: where it is, and the entries it still has to replay
  lapsed,     \* runs whose key expired under them
  delivered,  \* entries whose replay delivered, or found their row delivered
  faults,
  lapses      \* history: how many of the faults were keys that expired

producer == <<push, pruning>>
runs == <<pc, batch, lapsed>>
vars == <<dlq, producer, lockKey, runs, delivered, faults, lapses>>

\* The pushes that have not trimmed the list yet, and the runs that rely on the
\* lock.
Untrimmed == {e \in Entry : push[e] \in {"appended", "over", "orphan"}}
Replaying == {r \in Run : pc[r] \in {"locked", "replaying", "unlist"}}

TypeOK ==
  /\ dlq \in Seq(Entry)
  /\ push \in [Entry -> {"new", "appended", "over", "in", "orphan"}]
  /\ pruning \in BOOLEAN
  /\ lockKey \in Run \cup {NoRun}
  /\ pc \in [Run -> {"idle", "locked", "replaying", "unlist", "releasing", "deleting"}]
  /\ batch \in [Run -> Seq(Entry)] /\ \A r \in Run : Len(batch[r]) <= Batch
  /\ lapsed \subseteq Run
  /\ delivered \subseteq Entry
  /\ faults \in 0 .. MaxFaults /\ lapses \in 0 .. faults

Init ==
  /\ dlq = <<>>
  /\ push = [e \in Entry |-> "new"]
  /\ pruning = FALSE
  /\ lockKey = NoRun
  /\ pc = [r \in Run |-> "idle"]
  /\ batch = [r \in Run |-> <<>>]
  /\ lapsed = {}
  /\ delivered = {}
  /\ faults = 0 /\ lapses = 0

-----------------------------------------------------------------------------
Listed(e) == \E i \in 1 .. Len(dlq) : dlq[i] = e

\* Names that begin with Mutant are the faults that the checked properties
\* must notice; nothing else uses them.
MutantNewest(s) == IF Len(s) <= MaxItems + 1 THEN s ELSE SubSeq(s, Len(s) - MaxItems, Len(s))

\* LTRIM -limit -1
Newest(s) == IF Len(s) <= MaxItems THEN s ELSE SubSeq(s, Len(s) - MaxItems + 1, Len(s))

\* _push_dlq_entry: RPUSH, then _trim_dlq_to_limit, which is LLEN and LTRIM.
AppendEntry(e) ==
  /\ push[e] = "new"
  /\ dlq' = Append(dlq, e)
  /\ push' = [push EXCEPT ![e] = "appended"]
  /\ UNCHANGED <<pruning, lockKey, runs, delivered, faults, lapses>>

Measure(e) ==
  /\ push[e] = "appended"
  /\ push' = [push EXCEPT ![e] = IF Len(dlq) > MaxItems THEN "over" ELSE "in"]
  /\ UNCHANGED <<dlq, pruning, lockKey, runs, delivered, faults, lapses>>

\* A trim also makes up for the pushes whose worker died.
Settled == [e \in Entry |-> IF push[e] = "orphan" THEN "in" ELSE push[e]]

Trim(e) ==
  /\ push[e] = "over"
  /\ dlq' = Newest(dlq)
  /\ push' = [Settled EXCEPT ![e] = "in"]
  /\ UNCHANGED <<pruning, lockKey, runs, delivered, faults, lapses>>

\* prune_dlq: LLEN, then LTRIM.
Prune ==
  /\ ~pruning
  /\ Len(dlq) > MaxItems
  /\ pruning' = TRUE
  /\ UNCHANGED <<dlq, push, lockKey, runs, delivered, faults, lapses>>

PruneTrims ==
  /\ pruning
  /\ dlq' = Newest(dlq)
  /\ push' = Settled
  /\ pruning' = FALSE
  /\ UNCHANGED <<lockKey, runs, delivered, faults, lapses>>

-----------------------------------------------------------------------------
Goto(r, place) == pc' = [pc EXCEPT ![r] = place]
Advance(r) == batch' = [batch EXCEPT ![r] = Tail(@)]
AtEntry(r, e) == pc[r] = "replaying" /\ batch[r] # <<>> /\ e = Head(batch[r])

\* SET without NX.
MutantAcquire(r) ==
  /\ pc[r] = "idle"
  /\ lockKey' = r
  /\ lapsed' = lapsed \ {r}
  /\ Goto(r, "locked")
  /\ UNCHANGED <<dlq, producer, batch, delivered, faults, lapses>>

\* SET NX EX of the lock key; a run that finds it set reports "locked".
Acquire(r) ==
  /\ pc[r] = "idle"
  /\ lockKey = NoRun
  /\ lockKey' = r
  /\ lapsed' = lapsed \ {r}
  /\ Goto(r, "locked")
  /\ UNCHANGED <<dlq, producer, batch, delivered, faults, lapses>>

\* LRANGE 0 limit, whose end is inclusive.
MutantFetch(r) ==
  /\ pc[r] = "locked"
  /\ batch' = [batch EXCEPT ![r] = IF Len(dlq) <= Batch THEN dlq ELSE SubSeq(dlq, 1, Batch + 1)]
  /\ Goto(r, "replaying")
  /\ UNCHANGED <<dlq, producer, lockKey, lapsed, delivered, faults, lapses>>

\* LRANGE 0 limit-1
Fetch(r) ==
  /\ pc[r] = "locked"
  /\ batch' = [batch EXCEPT ![r] = IF Len(dlq) <= Batch THEN dlq ELSE SubSeq(dlq, 1, Batch)]
  /\ Goto(r, "replaying")
  /\ UNCHANGED <<dlq, producer, lockKey, lapsed, delivered, faults, lapses>>

\* An entry that looks permanent is dropped.
Drop(r, e) ==
  /\ AtEntry(r, e)
  /\ e \in ClientError
  /\ dlq' = RemoveFirst(dlq, e)
  /\ Advance(r)
  /\ UNCHANGED <<producer, lockKey, pc, lapsed, delivered, faults, lapses>>

\* _replay_entry returns true: the row was delivered, now or before.
Deliver(r, e) ==
  /\ AtEntry(r, e)
  /\ e \notin ClientError \cup Hopeless
  /\ delivered' = delivered \cup {e}
  /\ Goto(r, "unlist")
  /\ UNCHANGED <<dlq, producer, lockKey, batch, lapsed, faults, lapses>>

\* The entry is removed whatever _replay_entry returned.
MutantSkip(r, e) ==
  /\ AtEntry(r, e)
  /\ e \notin ClientError \cup delivered
  /\ Goto(r, "unlist")
  /\ UNCHANGED <<dlq, producer, lockKey, batch, lapsed, delivered, faults, lapses>>

\* An entry that raises ends the whole run.
MutantStop(r, e) ==
  /\ AtEntry(r, e)
  /\ e \notin ClientError \cup delivered
  /\ batch' = [batch EXCEPT ![r] = <<>>]
  /\ UNCHANGED <<dlq, producer, lockKey, pc, lapsed, delivered, faults, lapses>>

\* It returns false or raises, and the entry stays where it is.
Skip(r, e) ==
  /\ AtEntry(r, e)
  /\ e \notin ClientError \cup delivered
  /\ Advance(r)
  /\ UNCHANGED <<dlq, producer, lockKey, pc, lapsed, delivered, faults, lapses>>

\* LREM of the replayed entry.
Unlist(r) ==
  /\ pc[r] = "unlist"
  /\ dlq' = RemoveFirst(dlq, Head(batch[r]))
  /\ Advance(r)
  /\ Goto(r, "replaying")
  /\ UNCHANGED <<producer, lockKey, lapsed, delivered, faults, lapses>>

\* _release_dlq_replay_lock: GET and compare ...
Release(r) ==
  /\ pc[r] = "replaying"
  /\ batch[r] = <<>>
  /\ Goto(r, IF lockKey = r THEN "deleting" ELSE "idle")
  /\ UNCHANGED <<dlq, producer, lockKey, batch, lapsed, delivered, faults, lapses>>

\* ... and DELETE, of whatever the key holds by then.
Delete(r) ==
  /\ pc[r] = "deleting"
  /\ lockKey' = NoRun
  /\ Goto(r, "idle")
  /\ UNCHANGED <<dlq, producer, batch, lapsed, delivered, faults, lapses>>

-----------------------------------------------------------------------------
Fault == faults < MaxFaults /\ faults' = faults + 1

\* The key of a run that died expires ...
Expire ==
  /\ lockKey # NoRun
  /\ pc[lockKey] = "idle"
  /\ lockKey' = NoRun
  /\ UNCHANGED <<dlq, producer, runs, delivered, faults, lapses>>

\* ... and so may the key of a run that takes longer than its time to live.
Lapse ==
  /\ lockKey # NoRun
  /\ pc[lockKey] # "idle"
  /\ Fault
  /\ lapses' = lapses + 1
  /\ lapsed' = lapsed \cup {lockKey}
  /\ lockKey' = NoRun
  /\ UNCHANGED <<dlq, producer, pc, batch, delivered>>

\* The worker of a run dies, or that of a push before its trim.
RunDies(r) ==
  /\ pc[r] # "idle"
  /\ Fault
  /\ Goto(r, "idle")
  /\ batch' = [batch EXCEPT ![r] = <<>>]
  /\ UNCHANGED <<dlq, producer, lockKey, lapsed, delivered, lapses>>

PushDies(e) ==
  /\ push[e] \in {"appended", "over"}
  /\ Fault
  /\ push' = [push EXCEPT ![e] = "orphan"]
  /\ UNCHANGED <<dlq, pruning, lockKey, runs, delivered, lapses>>

\* Redis refuses the LREM: the exception is swallowed and the loop goes on.
UnlistFails(r) ==
  /\ pc[r] = "unlist"
  /\ Fault
  /\ Advance(r)
  /\ Goto(r, "replaying")
  /\ UNCHANGED <<dlq, producer, lockKey, lapsed, delivered, lapses>>

-----------------------------------------------------------------------------
Proceed(r) ==
  \/ Fetch(r) \/ Unlist(r) \/ Release(r) \/ Delete(r)
  \/ \E e \in Entry : Drop(r, e) \/ Deliver(r, e) \/ Skip(r, e)

Next ==
  \/ \E e \in Entry : AppendEntry(e) \/ Measure(e) \/ Trim(e) \/ PushDies(e)
  \/ Prune \/ PruneTrims
  \/ \E r \in Run : Acquire(r) \/ Proceed(r) \/ RunDies(r) \/ UnlistFails(r)
  \/ Expire \/ Lapse

Spec == Init /\ [][Next]_vars

\* Beat sends replay_dlq again and again, a run that has begun goes on, the key
\* of a dead run expires, and a replay that can succeed does so in the end.
Fairness ==
  /\ WF_vars(\E r \in Run : Acquire(r))
  /\ \A r \in Run : WF_vars(Proceed(r))
  /\ WF_vars(Expire)
  /\ \A e \in Entry \ (Hopeless \cup ClientError) : SF_vars(\E r \in Run : Deliver(r, e))

FairSpec == Spec /\ Fairness

(***************************************************************************)
(* Properties                                                              *)
(***************************************************************************)
\* An entry leaves the list only because its row was delivered, because its
\* error looks permanent, or because MaxItems newer entries came after it;
\* overlapping runs, trims and deaths included.
LeavesForAReason ==
  [][\A e \in Entry :
       Listed(e) /\ ~ Listed(e)' =>
         \/ e \in delivered \cup ClientError
         \/ \E i \in 1 .. Len(dlq) - MaxItems : dlq[i] = e]_vars

\* The list is longer than MaxItems only by entries whose push has not trimmed
\* it yet, or died before it could.
ListBounded == Len(dlq) <= MaxItems + Cardinality(Untrimmed)

\* Every lapse of the key lets in at most one run more.
OverlapBounded == Cardinality(Replaying) <= 1 + lapses

\* With fewer hopeless entries than the batch has room for, an entry whose
\* replay can succeed leaves the list in the end.  (With more of them it need
\* not: every run reads the same oldest entries.)
RecoverableLeaves ==
  Cardinality(Hopeless) < Batch => \A e \in Entry \ Hopeless : Listed(e) ~> ~ Listed(e)
==============================================================================
