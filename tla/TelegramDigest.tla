---------------------------- MODULE TelegramDigest ----------------------------
(***************************************************************************)
(* The per-service throttle of Telegram messages, and the hourly digest of *)
(* what it suppressed.                                                     *)
(*                                                                         *)
(* The throttle is a Redis counter that the first message of a window      *)
(* creates (INCR) and gives a time to live (EXPIRE).  The rows of the      *)
(* messages beyond its limit are closed as DELIVERED: the buffer, a Redis  *)
(* hash with the last suppressed message of each service, is all that is   *)
(* left of them.  telegram_digest_worker reads the whole hash, sends one   *)
(* text for each service, and deletes the whole hash.                      *)
(***************************************************************************)
EXTENDS Integers, FiniteSets

CONSTANTS
  MaxMessage, ServiceOf, Service,   \* bound: messages, numbered in the order
                                    \* they reach the throttle of their service
  Threshold,                        \* TELEGRAM_SERVICE_RATE_LIMIT
  MaxFaults                         \* bound: deaths, runs that fail, and expiries

Message == 1 .. MaxMessage
NoMessage == 0

ASSUME TelegramDigestAssumption ==
  /\ MaxMessage \in Nat /\ ServiceOf \in [Message -> Service]
  /\ Threshold \in Nat \ {0}
  /\ MaxFaults \in Nat

VARIABLES
  at,          \* where the sender of each message is
  count, ttl,  \* the counter of each service (0: no key), and whether it expires
  orphaned,    \* history: services whose first sender died before its EXPIRE
  buffer,      \* TELEGRAM_DIGEST_BUFFER_KEY, by service
  digest, taken,   \* the run, and what is left of the hash it has read
  sent,        \* how many digests reported the message
  replaced,    \* history: suppressed messages that a later one of their service replaced
  behind,      \* history: ... that were buffered after the run had read the hash
  expired,     \* history: ... whose hash expired
  faults

throttle == <<at, count, ttl, orphaned>>
history == <<replaced, behind, expired>>
vars == <<throttle, buffer, digest, taken, sent, history, faults>>

Hash == [Service -> Message \cup {NoMessage}]
Empty == [s \in Service |-> NoMessage]
Held(h) == {h[s] : s \in Service} \ {NoMessage}

\* The messages that the buffer was given.
Buffered == {m \in Message : at[m] = "buffered"}

TypeOK ==
  /\ at \in [Message -> {"new", "first", "through", "over", "buffered", "lost"}]
  /\ count \in [Service -> 0 .. MaxMessage]
  /\ ttl \in [Service -> BOOLEAN]
  /\ orphaned \subseteq Service
  /\ \A s \in Service : ttl[s] => count[s] > 0 /\ s \notin orphaned
  /\ buffer \in Hash
  /\ digest \in {"idle", "sending"}
  /\ taken \in Hash
  /\ \A s \in Service : buffer[s] # NoMessage => ServiceOf[buffer[s]] = s
  /\ digest = "idle" => taken = Empty
  /\ sent \in [Message -> Nat]
  /\ replaced \subseteq Buffered /\ behind \subseteq Buffered /\ expired \subseteq Buffered
  /\ Held(buffer) \cap replaced = {}
  /\ faults \in 0 .. MaxFaults

Init ==
  /\ at = [m \in Message |-> "new"]
  /\ count = [s \in Service |-> 0]
  /\ ttl = [s \in Service |-> FALSE]
  /\ orphaned = {}
  /\ buffer = Empty
  /\ digest = "idle"
  /\ taken = Empty
  /\ sent = [m \in Message |-> 0]
  /\ replaced = {} /\ behind = {} /\ expired = {}
  /\ faults = 0

-----------------------------------------------------------------------------
\* Names that begin with Mutant are the faults that the checked properties
\* must notice; nothing else uses them.

Move(m, place) == at' = [at EXCEPT ![m] = place]

\* The message is one too many for the window.
Beyond(n) == n > Threshold

\* The expiry is left to the first message that is suppressed.
MutantCount(m) ==
  LET s == ServiceOf[m]
      n == count[s] + 1 IN
  /\ at[m] = "new"
  /\ \A k \in 1 .. m - 1 : ServiceOf[k] = s => at[k] # "new"
  /\ count' = [count EXCEPT ![s] = n]
  /\ Move(m, IF Beyond(n) THEN "over" ELSE "through")
  /\ UNCHANGED <<ttl, orphaned, buffer, digest, taken, sent, history, faults>>

\* _telegram_service_rate_limit_state: INCR ...
Count(m) ==
  LET s == ServiceOf[m]
      n == count[s] + 1 IN
  /\ at[m] = "new"
  /\ \A k \in 1 .. m - 1 : ServiceOf[k] = s => at[k] # "new"
  /\ count' = [count EXCEPT ![s] = n]
  /\ Move(m, IF n = 1 THEN "first" ELSE IF Beyond(n) THEN "over" ELSE "through")
  /\ UNCHANGED <<ttl, orphaned, buffer, digest, taken, sent, history, faults>>

\* ... and, by the message that created the counter, EXPIRE.
SetExpiry(m) ==
  /\ at[m] = "first"
  /\ ttl' = [ttl EXCEPT ![ServiceOf[m]] = TRUE]
  /\ Move(m, "through")
  /\ UNCHANGED <<count, orphaned, buffer, digest, taken, sent, history, faults>>

\* The window of a service ends.
WindowEnds(s) ==
  /\ ttl[s]
  /\ ttl' = [ttl EXCEPT ![s] = FALSE]
  /\ count' = [count EXCEPT ![s] = 0]
  /\ UNCHANGED <<at, orphaned, buffer, digest, taken, sent, history, faults>>

\* All services share one field.
MutantBuffer(m) ==
  /\ at[m] = "over"
  /\ Move(m, "buffered")
  /\ replaced' = replaced \cup Held(buffer)
  /\ buffer' = [s \in Service |-> m]
  /\ behind' = IF digest = "sending" THEN behind \cup {m} ELSE behind
  /\ UNCHANGED <<count, ttl, orphaned, digest, taken, sent, expired, faults>>

\* _buffer_telegram_digest: HSET of the service's field.
Buffer(m) ==
  LET s == ServiceOf[m] IN
  /\ at[m] = "over"
  /\ Move(m, "buffered")
  /\ replaced' = replaced \cup ({buffer[s]} \ {NoMessage})
  /\ buffer' = [buffer EXCEPT ![s] = m]
  /\ behind' = IF digest = "sending" THEN behind \cup {m} ELSE behind
  /\ UNCHANGED <<count, ttl, orphaned, digest, taken, sent, expired, faults>>

\* HGETALL; an empty hash ends the run.
Collect ==
  /\ digest = "idle"
  /\ Held(buffer) # {}
  /\ taken' = buffer
  /\ digest' = "sending"
  /\ UNCHANGED <<throttle, buffer, sent, history, faults>>

\* One text for one service.
Report(s) ==
  /\ digest = "sending"
  /\ taken[s] # NoMessage
  /\ sent' = [sent EXCEPT ![taken[s]] = @ + 1]
  /\ taken' = [taken EXCEPT ![s] = NoMessage]
  /\ UNCHANGED <<throttle, buffer, digest, history, faults>>

\* The hash is deleted after the first text.
MutantClear ==
  /\ digest = "sending"
  /\ \E s \in Service : buffer[s] # NoMessage /\ taken[s] = NoMessage
  /\ buffer' = Empty
  /\ taken' = Empty
  /\ digest' = "idle"
  /\ UNCHANGED <<throttle, sent, history, faults>>

\* DELETE of the hash, with what was added to it since.
Clear ==
  /\ digest = "sending"
  /\ taken = Empty
  /\ buffer' = Empty
  /\ digest' = "idle"
  /\ UNCHANGED <<throttle, taken, sent, history, faults>>

Fault == faults < MaxFaults /\ faults' = faults + 1

\* Telegram refuses a text or the worker dies: the hash stays as it is and the
\* next run begins with the first service again.
Fail ==
  /\ digest = "sending"
  /\ Fault
  /\ taken' = Empty
  /\ digest' = "idle"
  /\ UNCHANGED <<throttle, buffer, sent, history>>

\* No run for two hours after the last message.
Expire ==
  /\ digest = "idle"
  /\ Held(buffer) # {}
  /\ Fault
  /\ expired' = expired \cup Held(buffer)
  /\ buffer' = Empty
  /\ UNCHANGED <<throttle, digest, taken, sent, replaced, behind>>

\* The worker of a message dies (or Redis refuses it) before the EXPIRE or the
\* HSET.  The task is not run again to any effect: its dedupe key is set.
SenderDies(m) ==
  /\ at[m] \in {"first", "over"}
  /\ Fault
  /\ orphaned' = IF at[m] = "first" THEN orphaned \cup {ServiceOf[m]} ELSE orphaned
  /\ Move(m, "lost")
  /\ UNCHANGED <<count, ttl, buffer, digest, taken, sent, history>>

Digest == Collect \/ (\E s \in Service : Report(s)) \/ Clear

Next ==
  \/ \E m \in Message : Count(m) \/ SetExpiry(m) \/ Buffer(m) \/ SenderDies(m)
  \/ \E s \in Service : WindowEnds(s)
  \/ Digest \/ Fail \/ Expire

Spec == Init /\ [][Next]_vars

\* Beat sends the task every hour, a sender that has counted goes on or dies,
\* and Redis expires the keys that have a time to live.
Fairness ==
  /\ WF_vars(Digest)
  /\ \A m \in Message : WF_vars(SetExpiry(m))
  /\ \A s \in Service : WF_vars(WindowEnds(s))

FairSpec == Spec /\ Fairness

(***************************************************************************)
(* Properties                                                              *)
(***************************************************************************)
\* A suppressed message is in the buffer or was reported, unless a later one of
\* its service took its place, it came between the HGETALL and the DELETE of a
\* run, or no run came before the hash expired.
GoneForAReason ==
  \A m \in Buffered :
    m \in Held(buffer) \/ sent[m] > 0 \/ m \in replaced \cup behind \cup expired

\* A buffered message is reported in the end, with the same exceptions.
BufferedIsReported ==
  \A m \in Message :
    m \in Held(buffer) ~> sent[m] > 0 \/ m \in replaced \cup behind \cup expired

\* A throttle that is full opens again, unless the worker of the message that
\* created its counter died before the EXPIRE: then the service stays mute.
ThrottleReopens ==
  \A s \in Service : count[s] >= Threshold ~> count[s] = 0 \/ s \in orphaned
==============================================================================
