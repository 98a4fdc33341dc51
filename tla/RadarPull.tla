------------------------------- MODULE RadarPull -------------------------------
(***************************************************************************)
(* The pull of log lines from Loki (oasis_radar_pull_worker and the        *)
(* endpoint it calls): every line that is newer than the cursor and not    *)
(* older than the lookback is claimed with a Redis key, handed to          *)
(* ingest_event, and the cursor is moved to the newest line of the batch.  *)
(*                                                                         *)
(* Pulls may overlap: the worker gives up after 20 seconds while the API   *)
(* goes on, and an operator may call the endpoint.  A key is never given   *)
(* back, so a pull that fails between the claim and ingest_event leaves a  *)
(* line that the next pull takes for a duplicate.                          *)
(***************************************************************************)
EXTENDS Integers, FiniteSets, FiniteSetsExt

CONSTANTS
  Line, At,    \* log lines, and the time stamp of each
  IdOf,        \* the external id of the line's event: its service and time stamp
  Pull,        \* pulls that may be active at once
  NoLine,
  Limit,       \* OASIS_RADAR_PULL_LIMIT
  LookbackMin, LookbackMax,  \* what the endpoint takes for a pull's lookback
  KeyTTL,      \* ttl_seconds of is_duplicate
  Span,        \* how long a pull takes at most
  MaxTime,     \* bound of the clock
  MaxFaults    \* bound: pulls that fail half way

RadarPullAssumption ==
  /\ IsFiniteSet(Line)
  /\ At \in [Line -> Nat \ {0}]
  /\ \A l, m \in Line : IdOf[l] = IdOf[m] => At[l] = At[m]
  /\ NoLine \notin Line
  /\ Limit \in Nat \ {0}
  /\ IsFiniteSet(Pull)
  /\ LookbackMin \in Nat /\ LookbackMax \in Nat /\ KeyTTL \in Nat /\ Span \in Nat
  /\ MaxTime \in Nat /\ MaxFaults \in Nat

VARIABLES
  clock,
  stored,      \* lines that have reached Loki
  cursor,      \* OASIS_RADAR_CURSOR_KEY, 0 if unset
  keyUntil,    \* when the Redis key of a line expires, 0 if it was never set
  pc, got, left, current, since,  \* each pull: its batch, what is left of it, the
                                  \* line in hand, and when it began
  filed,       \* lines that ingest_event took for an event of their own
  handed,      \* history: how often ingest_event returned for the line
  duplicates,  \* history: lines that a pull counted as duplicates
  burnt,       \* history: lines whose pull failed with the line in hand
  late,        \* history: lines stored after a line at least as new was fetched
  cut,         \* history: lines left out by a batch that ended with others of their time
  aged,        \* history: lines that a batch left out as older than its lookback
  faults

loki == <<clock, stored>>
redis == <<cursor, keyUntil>>
pulls == <<pc, got, left, current, since>>
history == <<filed, handed, duplicates, burnt, late, cut, aged>>
vars == <<loki, redis, pulls, history, faults>>

TypeOK ==
  /\ clock \in 0 .. MaxTime
  /\ stored \subseteq Line
  /\ cursor \in {0} \cup {At[l] : l \in stored}
  /\ keyUntil \in [Line -> 0 .. MaxTime + KeyTTL]
  /\ pc \in [Pull -> {"idle", "reading", "ingesting"}]
  /\ got \in [Pull -> SUBSET stored] /\ left \in [Pull -> SUBSET stored]
  /\ \A p \in Pull : left[p] \subseteq got[p] /\ Cardinality(got[p]) <= Limit
  /\ current \in [Pull -> Line \cup {NoLine}]
  /\ since \in [Pull -> 0 .. MaxTime]
  /\ handed \in [Line -> Nat] /\ filed \subseteq {l \in Line : handed[l] > 0}
  /\ duplicates \subseteq Line /\ burnt \subseteq Line /\ late \cup cut \cup aged \subseteq stored
  /\ faults \in 0 .. MaxFaults

Init ==
  /\ clock = 0
  /\ stored = {}
  /\ cursor = 0
  /\ keyUntil = [l \in Line |-> 0]
  /\ pc = [p \in Pull |-> "idle"]
  /\ got = [p \in Pull |-> {}]
  /\ left = [p \in Pull |-> {}]
  /\ current = [p \in Pull |-> NoLine]
  /\ since = [p \in Pull |-> 0]
  /\ handed = [l \in Line |-> 0]
  /\ duplicates = {} /\ burnt = {} /\ late = {} /\ cut = {} /\ aged = {} /\ filed = {}
  /\ faults = 0

-----------------------------------------------------------------------------
Goto(p, place) == pc' = [pc EXCEPT ![p] = place]
KeyExists(l) == clock < keyUntil[l]
Working(p) == pc[p] # "idle"
InHand(l) == \E p \in Pull : l \in left[p] \/ current[p] = l

\* Time passes, but no pull takes longer than Span.
Tick ==
  /\ clock < MaxTime
  /\ \A p \in Pull : Working(p) => clock - since[p] < Span
  /\ clock' = clock + 1
  /\ UNCHANGED <<stored, redis, pulls, history, faults>>

\* A line reaches Loki some time after it was written.
Store(l) ==
  /\ l \notin stored
  /\ At[l] < clock
  /\ stored' = stored \cup {l}
  /\ late' = IF At[l] <= cursor \/ \E p \in Pull : \E m \in got[p] : At[l] <= At[m]
             THEN late \cup {l} ELSE late
  /\ UNCHANGED <<clock, redis, pulls, filed, handed, duplicates, burnt, cut, aged, faults>>

\* Names that begin with Mutant are the faults that the checked properties
\* must notice; nothing else uses them.

\* The lines a query may return: start is the later of now - lookback and
\* cursor + 1, end is now.
Window(lookback) == {l \in stored : At[l] >= clock - lookback /\ At[l] >= cursor + 1}

Newest(S) == Max({At[l] : l \in S})

\* No more than the limit is not asked for.
MutantFetch(p, S, lookback) ==
  /\ pc[p] = "idle"
  /\ S \subseteq Window(lookback)
  /\ S # {}
  /\ got' = [got EXCEPT ![p] = S]
  /\ left' = [left EXCEPT ![p] = S]
  /\ since' = [since EXCEPT ![p] = clock]
  /\ Goto(p, "reading")
  /\ UNCHANGED <<loki, redis, current, history, faults>>

\* _fetch_oasis_radar_entries: direction forward, so that a full batch has the
\* oldest lines.  With no line the pull is over.
Fetch(p, S, lookback) ==
  LET W == Window(lookback) IN
  /\ pc[p] = "idle"
  /\ S \subseteq W
  /\ S # {}
  /\ S = W \/ Cardinality(S) = Limit
  /\ Cardinality(S) <= Limit
  /\ \A l \in S, m \in W \ S : At[l] <= At[m]
  /\ got' = [got EXCEPT ![p] = S]
  /\ left' = [left EXCEPT ![p] = S]
  /\ since' = [since EXCEPT ![p] = clock]
  /\ Goto(p, "reading")
  /\ cut' = cut \cup {l \in W \ S : At[l] = Newest(S)}
  /\ aged' = aged \cup {l \in stored : cursor < At[l] /\ At[l] < clock - lookback}
  /\ UNCHANGED <<loki, redis, current, filed, handed, duplicates, burnt, late, faults>>

\* The keys of the whole batch are set with the first one.
MutantClaim(p, l) ==
  /\ pc[p] = "reading"
  /\ l \in left[p]
  /\ left' = [left EXCEPT ![p] = @ \ {l}]
  /\ \/ /\ KeyExists(l)
        /\ duplicates' = duplicates \cup {l}
        /\ UNCHANGED <<keyUntil, pc, current>>
     \/ /\ ~ KeyExists(l)
        /\ keyUntil' = [m \in Line |-> IF m \in left[p] THEN clock + KeyTTL ELSE keyUntil[m]]
        /\ current' = [current EXCEPT ![p] = l]
        /\ Goto(p, "ingesting")
        /\ UNCHANGED duplicates
  /\ UNCHANGED <<loki, cursor, got, since, filed, handed, burnt, late, cut, aged, faults>>

\* The key is not looked at.
MutantForget(p, l) ==
  /\ pc[p] = "reading"
  /\ l \in left[p]
  /\ left' = [left EXCEPT ![p] = @ \ {l}]
  /\ keyUntil' = [keyUntil EXCEPT ![l] = clock + KeyTTL]
  /\ current' = [current EXCEPT ![p] = l]
  /\ Goto(p, "ingesting")
  /\ UNCHANGED <<loki, cursor, got, since, filed, handed, duplicates, burnt, late, cut, aged, faults>>

\* is_duplicate: SETNX of the line's key; a key that exists makes the line a
\* duplicate.
Claim(p, l) ==
  /\ pc[p] = "reading"
  /\ l \in left[p]
  /\ left' = [left EXCEPT ![p] = @ \ {l}]
  /\ \/ /\ KeyExists(l)
        /\ duplicates' = duplicates \cup {l}
        /\ UNCHANGED <<keyUntil, pc, current>>
     \/ /\ ~ KeyExists(l)
        /\ keyUntil' = [keyUntil EXCEPT ![l] = clock + KeyTTL]
        /\ current' = [current EXCEPT ![p] = l]
        /\ Goto(p, "ingesting")
        /\ UNCHANGED duplicates
  /\ UNCHANGED <<loki, cursor, got, since, filed, handed, burnt, late, cut, aged, faults>>

\* ingest_event returns.  (All lines are graver than INFO.)  The unique constraint
\* on source and external id makes a line with the id of another a duplicate event;
\* the pull counts it as accepted all the same.
Hand(p) ==
  /\ pc[p] = "ingesting"
  /\ filed' = filed \cup {l \in {current[p]} : \A m \in filed : IdOf[m] # IdOf[l]}
  /\ handed' = [handed EXCEPT ![current[p]] = @ + 1]
  /\ current' = [current EXCEPT ![p] = NoLine]
  /\ Goto(p, "reading")
  /\ UNCHANGED <<loki, redis, got, left, since, duplicates, burnt, late, cut, aged, faults>>

\* The cursor is saved as soon as a line has been read.
MutantSaveCursor(p) ==
  /\ pc[p] = "reading"
  /\ cursor' = Newest(got[p])
  /\ got' = [got EXCEPT ![p] = {}]
  /\ left' = [left EXCEPT ![p] = {}]
  /\ since' = [since EXCEPT ![p] = 0]
  /\ Goto(p, "idle")
  /\ UNCHANGED <<loki, keyUntil, current, history, faults>>

\* After the last line the cursor is set, even back to an older line.
SaveCursor(p) ==
  /\ pc[p] = "reading"
  /\ left[p] = {}
  /\ cursor' = Newest(got[p])
  /\ got' = [got EXCEPT ![p] = {}]
  /\ since' = [since EXCEPT ![p] = 0]
  /\ Goto(p, "idle")
  /\ UNCHANGED <<loki, keyUntil, left, current, history, faults>>

\* The pull raises or its process dies; nothing is undone.
Fail(p) ==
  /\ Working(p)
  /\ faults < MaxFaults
  /\ faults' = faults + 1
  /\ burnt' = burnt \cup ({current[p]} \cap Line)
  /\ got' = [got EXCEPT ![p] = {}]
  /\ left' = [left EXCEPT ![p] = {}]
  /\ current' = [current EXCEPT ![p] = NoLine]
  /\ since' = [since EXCEPT ![p] = 0]
  /\ Goto(p, "idle")
  /\ UNCHANGED <<loki, redis, filed, handed, duplicates, late, cut, aged>>

\* pull_oasis_radar; an error from Loki ends it before it has begun.
Proceed(p) ==
  \/ \E S \in SUBSET stored, lookback \in LookbackMin .. LookbackMax : Fetch(p, S, lookback)
  \/ \E l \in Line : Claim(p, l)
  \/ Hand(p) \/ SaveCursor(p)

Next ==
  \/ Tick
  \/ \E l \in Line : Store(l)
  \/ \E p \in Pull : Proceed(p) \/ Fail(p)

Spec == Init /\ [][Next]_vars

(***************************************************************************)
(* Properties                                                              *)
(***************************************************************************)
\* Overlapping, repeated and failing pulls hand a line to ingest_event at most
\* once for each lifetime of its key within the time a pull may come to it: twice
\* with the default lookback, which is as long as the key.
HandedBounded ==
  \A l \in Line : handed[l] > 0 => (handed[l] - 1) * KeyTTL < LookbackMax + Span

\* The cursor passes a line that got no event of its own only if its pull failed
\* with the line in hand, if it reached Loki too late, if a batch found it older
\* than its lookback, if a full batch ended between it and a line of the same
\* time, or if another line has its external id.
Shadowed(l) == \E m \in filed \ {l} : IdOf[m] = IdOf[l]

SkippedForAReason ==
  \A l \in stored :
    At[l] <= cursor /\ l \notin filed /\ ~ InHand(l) =>
      \/ l \in burnt \cup late \cup cut \cup aged
      \/ handed[l] > 0 /\ Shadowed(l)

\* A line that a pull counts as a duplicate has been handed on, or is about to
\* be, unless the pull that claimed it failed with the line in hand.
DuplicateWasHanded ==
  \A l \in duplicates : handed[l] > 0 \/ InHand(l) \/ l \in burnt
==============================================================================
