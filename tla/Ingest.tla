-------------------------------- MODULE Ingest --------------------------------
(***************************************************************************)
(* ingest_event: how concurrent and retried POST /events/incoming requests *)
(* become incidents and dispatcher messages.                               *)
(*                                                                         *)
(* Deduplication has three layers that are not one transaction: a query    *)
(* for an open incident with the event's dedupe key, SETNX of the key in   *)
(* Redis, and the unique constraint on (source, external_event_id).  The   *)
(* request commits the incident, then its audit entries, and only then     *)
(* sends the dispatcher message; it can fail between any two of them, and  *)
(* the client, answered an error, may send the event again.                *)
(***************************************************************************)
EXTENDS Integers

CONSTANTS
  Event,           \* events, by (source, external_event_id); so are incidents
  Request,         \* POST requests, retries included
  Key, NoKey,      \* dedupe keys, and "no key"
  KeysOf,          \* the keys that requests with an event may carry
  Matched,         \* events for which evaluate_rules finds a rule
  Informational,   \* events of severity INFO
  Milestones,      \* occurrences that retrigger: {1, 10, 50, 100, 500}
  NoEvent,
  MaxFaults        \* bound: requests that fail half way

ASSUME IngestAssumption ==
  /\ NoKey \notin Key
  /\ KeysOf \in [Event -> SUBSET (Key \cup {NoKey})]
  /\ Matched \subseteq Event
  /\ Informational \subseteq Event
  /\ Milestones \subseteq Nat \ {0}
  /\ NoEvent \notin Event
  /\ MaxFaults \in Nat

VARIABLES
  incident,      \* the incidents table: status by external event
  dedupeKey,     \* incidents.dedupe_key
  occurrences,   \* incidents.occurrences
  merges,        \* history: events folded into the incident
  claimed,       \* dedupe keys in Redis
  dispatched,    \* history: the occurrences at which a dispatcher message was sent
  pc, event,
  key,           \* effective_dedupe_key of the request
  found,         \* the incident the request works on
  read,          \* the occurrences it read
  answer, faults

store == <<incident, dedupeKey, occurrences, merges>>
vars == <<store, claimed, dispatched, pc, event, key, found, read, answer,
          faults>>

Answers == {"none", "info", "accepted", "duplicate", "conflict", "error"}
Places == {"idle", "looking", "refreshing", "claiming", "inserting", "auditing",
           "dispatching", "done"}

TypeOK ==
  /\ incident \in [Event -> {"absent", "OPEN", "CLOSED"}]
  /\ dedupeKey \in [Event -> Key \cup {NoKey}]
  /\ occurrences \in [Event -> Nat]
  /\ merges \in [Event -> Nat]
  /\ claimed \subseteq Key
  /\ dispatched \in [Event -> SUBSET Nat]
  /\ pc \in [Request -> Places]
  /\ event \in [Request -> Event \cup {NoEvent}]
  /\ key \in [Request -> Key \cup {NoKey}]
  /\ found \in [Request -> Event \cup {NoEvent}]
  /\ read \in [Request -> Nat]
  /\ answer \in [Request -> Answers]
  /\ faults \in 0 .. MaxFaults

Init ==
  /\ incident = [x \in Event |-> "absent"]
  /\ dedupeKey = [x \in Event |-> NoKey]
  /\ occurrences = [x \in Event |-> 0]
  /\ merges = [x \in Event |-> 0]
  /\ claimed = {}
  /\ dispatched = [x \in Event |-> {}]
  /\ pc = [r \in Request |-> "idle"]
  /\ event = [r \in Request |-> NoEvent]
  /\ key = [r \in Request |-> NoKey]
  /\ found = [r \in Request |-> NoEvent]
  /\ read = [r \in Request |-> 0]
  /\ answer = [r \in Request |-> "none"]
  /\ faults = 0

-----------------------------------------------------------------------------
Goto(r, place) == pc' = [pc EXCEPT ![r] = place] /\ UNCHANGED answer
Reply(r, a) == pc' = [pc EXCEPT ![r] = "done"] /\ answer' = [answer EXCEPT ![r] = a]

\* The open incidents that an event with this key is folded into.
OpenWith(k) == {x \in Event : k # NoKey /\ dedupeKey[x] = k /\ incident[x] = "OPEN"}

-----------------------------------------------------------------------------
\* Names that begin with Mutant are the faults that the checked properties
\* must notice; nothing else uses them.

\* Events of severity INFO are answered at once.  The key is the request's own
\* or, built from the matched rule, the event's fields and the rule's current
\* time bucket (_build_rule_dedupe_key), so a resent event may carry another one.
Arrive(r, x) ==
  /\ pc[r] = "idle"
  /\ event' = [event EXCEPT ![r] = x]
  /\ \E k \in KeysOf[x] : key' = [key EXCEPT ![r] = k]
  /\ IF x \in Informational THEN Reply(r, "info") ELSE Goto(r, "looking")
  /\ UNCHANGED <<store, claimed, dispatched, found, read, faults>>

\* The query for an open incident, which takes no lock.
Look(r) ==
  /\ pc[r] = "looking"
  /\ \/ \E x \in OpenWith(key[r]) :
          /\ found' = [found EXCEPT ![r] = x]
          /\ read' = [read EXCEPT ![r] = occurrences[x]]
          /\ Goto(r, "refreshing")
     \/ /\ OpenWith(key[r]) = {}
        /\ Goto(r, IF key[r] = NoKey THEN "inserting" ELSE "claiming")
        /\ UNCHANGED <<found, read>>
  /\ UNCHANGED <<store, claimed, dispatched, event, key, faults>>

\* A retrigger needs a matching rule and a milestone, or an hour of silence.
Retriggers(r, count, silent) == event[r] \in Matched /\ (count \in Milestones \/ silent)

\* The database adds one to the count, the retrigger goes by the one read before.
MutantRefresh(r, silent) ==
  LET x == found[r] IN
  /\ pc[r] = "refreshing"
  /\ occurrences' = [occurrences EXCEPT ![x] = @ + 1]
  /\ merges' = [merges EXCEPT ![x] = @ + 1]
  /\ IF Retriggers(r, read[r] + 1, silent)
     THEN Goto(r, "dispatching")
     ELSE Reply(r, "accepted")
  /\ UNCHANGED <<incident, dedupeKey, claimed, dispatched, event, key, found,
                 read, faults>>

\* _refresh_existing_incident and its commit, from the values read before.
Refresh(r, silent) ==
  LET x == found[r]
      count == read[r] + 1 IN
  /\ pc[r] = "refreshing"
  /\ occurrences' = [occurrences EXCEPT ![x] = count]
  /\ merges' = [merges EXCEPT ![x] = @ + 1]
  /\ IF Retriggers(r, count, silent)
     THEN Goto(r, "dispatching")
     ELSE Reply(r, "accepted")
  /\ UNCHANGED <<incident, dedupeKey, claimed, dispatched, event, key, found,
                 read, faults>>

\* The key is claimed and its answer read the wrong way round.
MutantInvertedClaim(r) ==
  /\ pc[r] = "claiming"
  /\ claimed' = claimed \cup {key[r]}
  /\ IF key[r] \in claimed THEN Goto(r, "inserting") ELSE Reply(r, "duplicate")
  /\ UNCHANGED <<store, dispatched, event, key, found, read, faults>>

\* The key is looked up and not claimed.
MutantClaim(r) ==
  /\ pc[r] = "claiming"
  /\ key[r] \notin claimed
  /\ Goto(r, "inserting")
  /\ UNCHANGED <<store, claimed, dispatched, event, key, found, read, faults>>

\* is_duplicate: SETNX; a key that exists makes the event a duplicate.
Claim(r) ==
  /\ pc[r] = "claiming"
  /\ \/ /\ key[r] \in claimed
        /\ Reply(r, "duplicate")
        /\ UNCHANGED claimed
     \/ /\ key[r] \notin claimed
        /\ claimed' = claimed \cup {key[r]}
        /\ Goto(r, "inserting")
  /\ UNCHANGED <<store, dispatched, event, key, found, read, faults>>

\* INSERT and commit; the unique constraint answers for an event that has an
\* incident already, whatever its status.
Insert(r) ==
  LET x == event[r] IN
  /\ pc[r] = "inserting"
  /\ \/ /\ incident[x] # "absent"
        /\ Reply(r, "conflict")
        /\ UNCHANGED <<store, found>>
     \/ /\ incident[x] = "absent"
        /\ incident' = [incident EXCEPT ![x] = "OPEN"]
        /\ dedupeKey' = [dedupeKey EXCEPT ![x] = key[r]]
        /\ occurrences' = [occurrences EXCEPT ![x] = 1]
        /\ found' = [found EXCEPT ![r] = x]
        /\ Goto(r, "auditing")
        /\ UNCHANGED merges
  /\ UNCHANGED <<claimed, dispatched, event, key, read, faults>>

\* The EVENT_RECEIVED and RULE_MATCHED entries, in a second transaction.
Audit(r) ==
  /\ pc[r] = "auditing"
  /\ IF event[r] \in Matched THEN Goto(r, "dispatching") ELSE Reply(r, "accepted")
  /\ UNCHANGED <<store, claimed, dispatched, event, key, found, read, faults>>

\* dispatch_incident.apply_async, after the commits.
Dispatch(r) ==
  /\ pc[r] = "dispatching"
  /\ dispatched' = [dispatched EXCEPT ![found[r]] = @ \cup {read[r] + 1}]
  /\ Reply(r, "accepted")
  /\ UNCHANGED <<store, claimed, event, key, found, read, faults>>

\* PostgreSQL, Redis or the broker refuses the next call, or the API process
\* dies: the client is answered an error, what was done before stays done.
Fail(r) ==
  /\ pc[r] \notin {"idle", "done"}
  /\ faults < MaxFaults
  /\ faults' = faults + 1
  /\ Reply(r, "error")
  /\ UNCHANGED <<store, claimed, dispatched, event, key, found, read>>

\* The incident is acknowledged, escalated or resolved.
Close(x) ==
  /\ incident[x] = "OPEN"
  /\ incident' = [incident EXCEPT ![x] = "CLOSED"]
  /\ UNCHANGED <<dedupeKey, occurrences, merges, claimed, dispatched, pc, event,
                 key, found, read, answer, faults>>

\* The key's time to live (300 s) is longer than a request takes.
KeyExpires(k) ==
  /\ k \in claimed
  /\ \A r \in Request : pc[r] \in {"claiming", "inserting"} => key[r] # k
  /\ claimed' = claimed \ {k}
  /\ UNCHANGED <<store, dispatched, pc, event, key, found, read, answer,
                 faults>>

Handle(r) ==
  \/ Look(r) \/ Claim(r) \/ Insert(r) \/ Audit(r) \/ Dispatch(r)
  \/ \E silent \in BOOLEAN : Refresh(r, silent)

Next ==
  \/ \E r \in Request : \/ \E x \in Event : Arrive(r, x)
                        \/ Handle(r) \/ Fail(r)
  \/ \E x \in Event : Close(x)
  \/ \E k \in Key : KeyExpires(k)

Spec == Init /\ [][Next]_vars

(***************************************************************************)
(* Properties                                                              *)
(***************************************************************************)
\* However requests with the same dedupe key interleave, fail and are sent
\* again, at most one incident with that key is open.
OneOpenPerKey ==
  \A x, y \in Event :
    x # y /\ dedupeKey[x] = dedupeKey[y] /\ dedupeKey[x] # NoKey =>
      ~ (incident[x] = "OPEN" /\ incident[y] = "OPEN")

\* Folding events may lose a count to a concurrent request, but never invents
\* one and never falls back to a fresh incident.
OccurrencesBounded ==
  \A x \in Event :
    /\ occurrences[x] <= 1 + merges[x]
    /\ merges[x] > 0 => occurrences[x] > 1

\* No request is at work.
Quiet == \A r \in Request : pc[r] \in {"idle", "done"}

\* A milestone may be passed twice, when a concurrent request writes an older
\* count, but never missed: once nobody is at work, a dispatcher message was sent
\* for the opening of an incident and for every milestone its count has passed,
\* unless the request that brought it there failed or matched no rule.
MilestonesDispatched ==
  Quiet => \A x \in Event, m \in Milestones \cup {1} :
             m <= occurrences[x] =>
               \/ m \in dispatched[x]
               \/ \E r \in Request :
                    /\ found[r] = x /\ read[r] + 1 = m
                    /\ event[r] \notin Matched \/ answer[r] = "error"

\* Once nobody is at work, an event answered as a duplicate has an incident
\* with its key, unless a request had claimed the key and then left it without
\* one: it failed, or it met the unique constraint because its event has an
\* incident under another key.
DuplicateHasOriginal ==
  Quiet => \A r \in Request :
             answer[r] = "duplicate" =>
               \/ \E x \in Event : dedupeKey[x] = key[r] /\ incident[x] # "absent"
               \/ \E q \in Request : key[q] = key[r] /\ answer[q] \in {"error", "conflict"}
==============================================================================
