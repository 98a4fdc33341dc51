----------------------------- MODULE IngestProofs -----------------------------
(***************************************************************************)
(* Proofs about Ingest, for every number of events and requests, every     *)
(* assignment of dedupe keys, all milestones and sets of matched events.   *)
(***************************************************************************)
EXTENDS Ingest, TLAPS

\* A request that has begun has an event, one that is at the Redis key has a key,
\* and only a request that has ended has an answer.
Begun ==
  \A r \in Request :
    /\ pc[r] # "idle" => event[r] \in Event
    /\ pc[r] = "idle" => read[r] = 0 /\ found[r] = NoEvent
    /\ pc[r] = "claiming" => key[r] # NoKey
    /\ pc[r] # "done" => answer[r] = "none"
    /\ pc[r] = "auditing" => found[r] = event[r]
    /\ pc[r] = "refreshing" => found[r] \in Event

\* An incident counts itself and some of the events folded into it, and a request
\* that folds one has read such a count.
Counted(x) ==
  /\ incident[x] = "absent" => occurrences[x] = 0 /\ merges[x] = 0
  /\ incident[x] # "absent" => occurrences[x] >= 1
  /\ occurrences[x] <= 1 + merges[x]
  /\ merges[x] > 0 => occurrences[x] > 1

CountRead(r) ==
  pc[r] = "refreshing" =>
    /\ incident[found[r]] # "absent"
    /\ read[r] >= 1 /\ read[r] <= 1 + merges[found[r]]

Counts == (\A x \in Event : Counted(x)) /\ \A r \in Request : CountRead(r)

\* The key in Redis is what requests exclude each other with: whoever is at the
\* insert has claimed it while no incident was open, and nobody can get there
\* once one is.
Opened(k) == \E x \in Event : dedupeKey[x] = k /\ incident[x] = "OPEN"

Excluded ==
  \A r \in Request :
    /\ pc[r] = "claiming" /\ Opened(key[r]) => key[r] \in claimed
    /\ pc[r] = "inserting" /\ key[r] # NoKey =>
         /\ key[r] \in claimed
         /\ ~ Opened(key[r])
         /\ \A q \in Request : pc[q] = "inserting" /\ key[q] = key[r] => q = r

\* The request has brought the count of incident x to c.
Brought(r, x, c) ==
  /\ pc[r] \in {"auditing", "dispatching", "done"}
  /\ found[r] = x
  /\ read[r] + 1 = c

\* Every count up to c was reached, by a request of its own.
Passed(x, c) == \A d \in 1 .. c : \E r \in Request : Brought(r, x, d)

\* A request that has brought an incident to a milestone has sent the message, is
\* about to, matches no rule, or failed.
Settled(r) ==
  LET c == read[r] + 1 IN
  /\ pc[r] \in {"looking", "claiming", "inserting"} => read[r] = 0
  /\ pc[r] = "auditing" => c = 1
  /\ pc[r] \in {"looking", "claiming", "inserting"} => found[r] = NoEvent
  /\ pc[r] = "refreshing" => c > 1
  /\ pc[r] = "dispatching" => found[r] \in Event
  /\ pc[r] = "done" /\ found[r] \in Event /\ c \in Milestones \cup {1} =>
       c \in dispatched[found[r]] \/ event[r] \notin Matched \/ answer[r] = "error"

Pursued ==
  /\ \A x \in Event : Passed(x, occurrences[x])
  /\ \A r \in Request : pc[r] = "refreshing" => Passed(found[r], read[r])
  /\ \A r \in Request : Settled(r)

\* A claimed key, and the key of an event answered as a duplicate, has an incident,
\* a request that failed or met the unique constraint, or one about to insert.
Backed(k) ==
  \/ \E x \in Event : dedupeKey[x] = k /\ incident[x] # "absent"
  \/ \E r \in Request : answer[r] \in {"error", "conflict"} /\ key[r] = k
  \/ \E r \in Request : pc[r] = "inserting" /\ key[r] = k

Duplicates ==
  /\ \A k \in claimed : Backed(k)
  /\ \A r \in Request : answer[r] = "duplicate" => Backed(key[r])

IInv == TypeOK /\ Begun /\ Counts /\ Excluded /\ OneOpenPerKey /\ Pursued /\ Duplicates

-----------------------------------------------------------------------------
LEMMA InitIInv == Init => IInv
  <1> SUFFICES ASSUME Init PROVE IInv
    OBVIOUS
  <1> USE DEF Init
  <1>1. TypeOK
    BY IngestAssumption DEF IngestAssumption, TypeOK, Answers, Places
  <1>2. Begun /\ Excluded /\ OneOpenPerKey
    BY DEF Begun, Excluded, OneOpenPerKey
  <1>3. Counts /\ Duplicates
    BY IngestAssumption DEF IngestAssumption, Counts, Counted, CountRead, Duplicates
  <1>4. Pursued
    <2>1. ASSUME NEW x \in Event PROVE Passed(x, occurrences[x])
      BY DEF Passed
    <2>2. \A r \in Request : Settled(r)
      BY DEF Settled
    <2> QED BY <2>1, <2>2 DEF Pursued
  <1> QED BY <1>1, <1>2, <1>3, <1>4 DEF IInv

LEMMA NextTyped ==
  ASSUME TypeOK, Begun, [Next]_vars PROVE TypeOK'
  <1> USE IngestAssumption DEF IngestAssumption, TypeOK, Answers, Places, store
  <1>1. ASSUME NEW r \in Request, NEW x \in Event, Arrive(r, x) PROVE TypeOK'
    BY <1>1 DEF Arrive, Goto, Reply
  <1>2. ASSUME NEW r \in Request, Look(r) PROVE TypeOK'
    <2>1. ASSUME NEW x \in OpenWith(key[r]),
                 found' = [found EXCEPT ![r] = x],
                 read' = [read EXCEPT ![r] = occurrences[x]],
                 Goto(r, "refreshing")
          PROVE  TypeOK'
      <3>1. x \in Event
        BY DEF OpenWith
      <3> QED BY <1>2, <2>1, <3>1 DEF Look, Goto
    <2>2. ASSUME NEW to \in {"inserting", "claiming"}, Goto(r, to), UNCHANGED <<found, read>>
          PROVE  TypeOK'
      BY <1>2, <2>2 DEF Look, Goto
    <2>3. CASE OpenWith(key[r]) = {}
      BY <1>2, <2>2, <2>3 DEF Look
    <2>4. CASE OpenWith(key[r]) # {}
      BY <1>2, <2>1, <2>4 DEF Look
    <2> QED BY <2>3, <2>4
  <1>3. ASSUME NEW r \in Request, Claim(r) PROVE TypeOK'
    BY <1>3 DEF Claim, Goto, Reply, Begun
  <1>4. ASSUME NEW r \in Request, Insert(r) PROVE TypeOK'
    <2>1. event[r] \in Event
      BY <1>4 DEF Insert, Begun
    <2>2. CASE UNCHANGED <<store, found>> /\ Reply(r, "conflict")
      BY <1>4, <2>2 DEF Insert, Reply
    <2>3. CASE /\ incident' = [incident EXCEPT ![event[r]] = "OPEN"]
               /\ dedupeKey' = [dedupeKey EXCEPT ![event[r]] = key[r]]
               /\ occurrences' = [occurrences EXCEPT ![event[r]] = 1]
               /\ found' = [found EXCEPT ![r] = event[r]]
               /\ Goto(r, "auditing")
               /\ UNCHANGED merges
      BY <1>4, <2>1, <2>3 DEF Insert, Goto
    <2> QED BY <1>4, <2>2, <2>3 DEF Insert
  <1>5. ASSUME NEW r \in Request, Audit(r) \/ Dispatch(r) \/ Fail(r) PROVE TypeOK'
    BY <1>5 DEF Audit, Dispatch, Fail, Goto, Reply
  <1>6. ASSUME NEW r \in Request, NEW silent, Refresh(r, silent) PROVE TypeOK'
    <2>1. /\ occurrences' \in [Event -> Nat] /\ merges' \in [Event -> Nat]
          /\ UNCHANGED <<incident, dedupeKey, claimed, dispatched, event, key, found, read, faults>>
      BY <1>6 DEF Refresh, Begun
    <2>2. Goto(r, "dispatching") \/ Reply(r, "accepted")
      BY <1>6 DEF Refresh
    <2>3. pc' \in [Request -> Places] /\ answer' \in [Request -> Answers]
      BY <2>2 DEF Goto, Reply
    <2> QED BY <2>1, <2>3
  <1>7. CASE \/ \E x \in Event : Close(x)
             \/ \E k \in Key : KeyExpires(k)
             \/ UNCHANGED vars
    BY <1>7 DEF Close, KeyExpires, vars
  <1> QED BY <1>1, <1>2, <1>3, <1>4, <1>5, <1>6, <1>7 DEF Next, Handle

LEMMA NextBegun ==
  ASSUME TypeOK, Begun, [Next]_vars PROVE Begun'
  <1> USE DEF TypeOK, Begun, store
  <1>1. ASSUME NEW r \in Request, NEW x \in Event, Arrive(r, x) PROVE Begun'
    BY <1>1 DEF Arrive, Goto, Reply
  <1>2. ASSUME NEW r \in Request, Look(r) PROVE Begun'
    BY <1>2 DEF Look, Goto, OpenWith
  <1>3. ASSUME NEW r \in Request, Claim(r) \/ Insert(r) PROVE Begun'
    BY <1>3 DEF Claim, Insert, Goto, Reply
  <1>5. ASSUME NEW r \in Request, Audit(r) \/ Dispatch(r) \/ Fail(r) PROVE Begun'
    BY <1>5 DEF Audit, Dispatch, Fail, Goto, Reply
  <1>6. ASSUME NEW r \in Request, NEW silent, Refresh(r, silent) PROVE Begun'
    BY <1>6 DEF Refresh, Goto, Reply
  <1>7. CASE \/ \E x \in Event : Close(x)
             \/ \E k \in Key : KeyExpires(k)
             \/ UNCHANGED vars
    BY <1>7 DEF Close, KeyExpires, vars
  <1> QED BY <1>1, <1>2, <1>3, <1>5, <1>6, <1>7 DEF Next, Handle

-----------------------------------------------------------------------------
LEMMA NextCounts ==
  ASSUME TypeOK, Begun, Counts, [Next]_vars PROVE Counts'
  <1> USE DEF TypeOK, Counts, Counted, CountRead, store
  <1>1. ASSUME NEW r \in Request, NEW x \in Event, Arrive(r, x) PROVE Counts'
    BY <1>1 DEF Arrive, Goto, Reply
  <1>2. ASSUME NEW r \in Request, Look(r) PROVE Counts'
    BY <1>2 DEF Look, Goto, OpenWith
  <1>3. ASSUME NEW r \in Request, Claim(r) \/ Audit(r) \/ Dispatch(r) \/ Fail(r)
        PROVE  Counts'
    BY <1>3 DEF Claim, Audit, Dispatch, Fail, Goto, Reply
  <1>4. ASSUME NEW r \in Request, Insert(r) PROVE Counts'
    <2>1. event[r] \in Event
      BY <1>4 DEF Insert, Begun
    <2>2. CASE UNCHANGED store
      BY <1>4, <2>2 DEF Insert, Goto, Reply
    <2>3. CASE /\ incident[event[r]] = "absent"
               /\ incident' = [incident EXCEPT ![event[r]] = "OPEN"]
               /\ occurrences' = [occurrences EXCEPT ![event[r]] = 1]
               /\ Goto(r, "auditing")
               /\ UNCHANGED merges
      <3>1. \A x \in Event : Counted(x)'
        BY <2>1, <2>3
      <3>2. ASSUME NEW q \in Request PROVE CountRead(q)'
        BY <1>4, <2>1, <2>3 DEF Insert, Goto, Begun
      <3> QED BY <3>1, <3>2
    <2> QED BY <1>4, <2>2, <2>3 DEF Insert
  <1>5. ASSUME NEW r \in Request, NEW silent, Refresh(r, silent) PROVE Counts'
    <2> DEFINE x == found[r]
    <2>1. /\ x \in Event
          /\ incident[x] # "absent" /\ read[r] >= 1 /\ read[r] <= 1 + merges[x]
          /\ occurrences' = [occurrences EXCEPT ![x] = read[r] + 1]
          /\ merges' = [merges EXCEPT ![x] = @ + 1]
          /\ UNCHANGED <<incident, found, read>>
      BY <1>5 DEF Refresh, Begun
    <2>2. \A y \in Event : Counted(y)'
      BY <2>1
    <2>3. ASSUME NEW q \in Request PROVE CountRead(q)'
      <3>1. pc'[q] = "refreshing" => pc[q] = "refreshing"
        BY <1>5 DEF Refresh, Goto, Reply
      <3>2. \A y \in Event : merges'[y] >= merges[y] /\ merges'[y] \in Nat
        BY <2>1
      <3> QED BY <2>1, <3>1, <3>2 DEF Begun
    <2> QED BY <2>2, <2>3
  <1>6. ASSUME NEW x \in Event, Close(x) PROVE Counts'
    BY <1>6 DEF Close, Begun
  <1>7. CASE (\E k \in Key : KeyExpires(k)) \/ UNCHANGED vars
    BY <1>7 DEF KeyExpires, vars
  <1> QED BY <1>1, <1>2, <1>3, <1>4, <1>5, <1>6, <1>7 DEF Next, Handle

LEMMA NextExcluded ==
  ASSUME TypeOK, Begun, Excluded, OneOpenPerKey, [Next]_vars
  PROVE  Excluded' /\ OneOpenPerKey'
  <1> USE DEF TypeOK, Excluded, Opened, OneOpenPerKey, store
  <1>1. ASSUME NEW r \in Request, NEW x \in Event, Arrive(r, x)
        PROVE  Excluded' /\ OneOpenPerKey'
    BY <1>1 DEF Arrive, Goto, Reply
  <1>2. ASSUME NEW r \in Request, Look(r) PROVE Excluded' /\ OneOpenPerKey'
    BY <1>2 DEF Look, Goto, OpenWith, Begun
  <1>3. ASSUME NEW r \in Request, Claim(r) PROVE Excluded' /\ OneOpenPerKey'
    BY <1>3 DEF Claim, Goto, Reply, Begun
  <1>4. ASSUME NEW r \in Request, Insert(r) PROVE Excluded' /\ OneOpenPerKey'
    BY <1>4 DEF Insert, Goto, Reply, Begun
  <1>5. ASSUME NEW r \in Request, Audit(r) \/ Dispatch(r) \/ Fail(r)
        PROVE  Excluded' /\ OneOpenPerKey'
    BY <1>5 DEF Audit, Dispatch, Fail, Goto, Reply
  <1>6. ASSUME NEW r \in Request, NEW silent, Refresh(r, silent)
        PROVE  Excluded' /\ OneOpenPerKey'
    BY <1>6 DEF Refresh, Goto, Reply
  <1>7. ASSUME NEW x \in Event, Close(x) PROVE Excluded' /\ OneOpenPerKey'
    BY <1>7 DEF Close
  <1>8. ASSUME NEW k \in Key, KeyExpires(k) PROVE Excluded' /\ OneOpenPerKey'
    BY <1>8 DEF KeyExpires
  <1>9. CASE UNCHANGED vars
    BY <1>9 DEF vars
  <1> QED BY <1>1, <1>2, <1>3, <1>4, <1>5, <1>6, <1>7, <1>8, <1>9 DEF Next, Handle

\* What a request brought about cannot be taken back.
LEMMA BroughtStays ==
  ASSUME TypeOK, Begun, [Next]_vars, NEW r \in Request, NEW x, NEW c, Brought(r, x, c)
  PROVE  Brought(r, x, c)'
  <1> USE DEF TypeOK, store, Brought
  <1>1. ASSUME NEW q \in Request, NEW y \in Event, Arrive(q, y) PROVE Brought(r, x, c)'
    BY <1>1 DEF Arrive, Goto, Reply
  <1>2. ASSUME NEW q \in Request, Look(q) PROVE Brought(r, x, c)'
    BY <1>2 DEF Look, Goto
  <1>3. ASSUME NEW q \in Request, Claim(q) \/ Insert(q) PROVE Brought(r, x, c)'
    BY <1>3 DEF Claim, Insert, Goto, Reply
  <1>4. ASSUME NEW q \in Request, Audit(q) \/ Dispatch(q) \/ Fail(q) PROVE Brought(r, x, c)'
    BY <1>4 DEF Audit, Dispatch, Fail, Goto, Reply
  <1>5. ASSUME NEW q \in Request, NEW silent, Refresh(q, silent) PROVE Brought(r, x, c)'
    BY <1>5 DEF Refresh, Goto, Reply
  <1>6. CASE \/ \E y \in Event : Close(y)
             \/ \E k \in Key : KeyExpires(k)
             \/ UNCHANGED vars
    BY <1>6 DEF Close, KeyExpires, vars
  <1> QED BY <1>1, <1>2, <1>3, <1>4, <1>5, <1>6 DEF Next, Handle

LEMMA PassedStays ==
  ASSUME TypeOK, Begun, [Next]_vars, NEW x, NEW c, Passed(x, c)
  PROVE  \A d \in 1 .. c : \E r \in Request : Brought(r, x, d)'
  BY BroughtStays DEF Passed

LEMMA NextPassed ==
  ASSUME TypeOK, Begun, Counts, Pursued, [Next]_vars
  PROVE  /\ \A x \in Event : Passed(x, occurrences[x])'
         /\ \A r \in Request : pc'[r] = "refreshing" => Passed(found[r], read[r])'
  <1> USE DEF TypeOK, store
  <1>a. ASSUME NEW x \in Event, occurrences'[x] = occurrences[x]
        PROVE  Passed(x, occurrences[x])'
    BY <1>a, PassedStays DEF Pursued, Passed
  <1>b. ASSUME NEW r \in Request, pc[r] = "refreshing", UNCHANGED <<found[r], read[r]>>
        PROVE  Passed(found[r], read[r])'
    BY <1>b, PassedStays DEF Pursued, Passed
  <1>1. ASSUME NEW q \in Request, Look(q)
        PROVE  /\ \A x \in Event : Passed(x, occurrences[x])'
               /\ \A r \in Request : pc'[r] = "refreshing" => Passed(found[r], read[r])'
    <2>1. \A x \in Event : Passed(x, occurrences[x])'
      BY <1>1, <1>a DEF Look
    <2>2. ASSUME NEW r \in Request, pc'[r] = "refreshing", r # q
          PROVE  Passed(found[r], read[r])'
      BY <1>1, <2>2, <1>b DEF Look, Goto
    <2>3. ASSUME pc'[q] = "refreshing" PROVE Passed(found[q], read[q])'
      <3>1. PICK x \in Event : found'[q] = x /\ read'[q] = occurrences[x]
        BY <1>1, <2>3 DEF Look, Goto, OpenWith
      <3>2. occurrences' = occurrences
        BY <1>1 DEF Look
      <3> QED BY <2>1, <3>1, <3>2 DEF Passed
    <2> QED BY <2>1, <2>2, <2>3
  <1>2. ASSUME NEW q \in Request, Insert(q)
        PROVE  /\ \A x \in Event : Passed(x, occurrences[x])'
               /\ \A r \in Request : pc'[r] = "refreshing" => Passed(found[r], read[r])'
    <2>1. ASSUME NEW r \in Request, pc'[r] = "refreshing" PROVE Passed(found[r], read[r])'
      BY <1>2, <2>1, <1>b DEF Insert, Goto, Reply
    <2>2. ASSUME NEW x \in Event, occurrences'[x] # occurrences[x]
          PROVE  Passed(x, occurrences[x])'
      <3>1. x = event[q] /\ occurrences'[x] = 1 /\ Brought(q, x, 1)'
        <4>1. /\ found' = [found EXCEPT ![q] = event[q]] /\ Goto(q, "auditing")
              /\ occurrences' = [occurrences EXCEPT ![event[q]] = 1]
              /\ read' = read /\ read[q] = 0
          BY <1>2, <2>2 DEF Insert, Pursued, Settled
        <4> QED BY <2>2, <4>1 DEF Goto, Brought
      <3> QED BY <3>1 DEF Passed
    <2> QED BY <1>a, <2>1, <2>2
  <1>3. ASSUME NEW q \in Request, NEW silent, Refresh(q, silent)
        PROVE  /\ \A x \in Event : Passed(x, occurrences[x])'
               /\ \A r \in Request : pc'[r] = "refreshing" => Passed(found[r], read[r])'
    <2>1. ASSUME NEW r \in Request, pc'[r] = "refreshing" PROVE Passed(found[r], read[r])'
      BY <1>3, <2>1, <1>b DEF Refresh, Goto, Reply
    <2>2. ASSUME NEW x \in Event, occurrences'[x] # occurrences[x]
          PROVE  Passed(x, occurrences[x])'
      <3>1. /\ x = found[q] /\ occurrences'[x] = read[q] + 1 /\ read[q] \in Nat
            /\ pc[q] = "refreshing"
        BY <1>3, <2>2 DEF Refresh
      <3>2. ASSUME NEW d, d = read[q] + 1 PROVE Brought(q, x, d)'
        BY <1>3, <3>1, <3>2 DEF Refresh, Goto, Reply, Brought
      <3>3. \A d \in 1 .. read[q] : \E r \in Request : Brought(r, x, d)'
        BY <3>1, PassedStays DEF Pursued
      <3>4. ASSUME NEW d \in 1 .. read[q] + 1 PROVE \E r \in Request : Brought(r, x, d)'
        <4>1. CASE d = read[q] + 1
          BY <3>2, <4>1
        <4>2. CASE d \in 1 .. read[q]
          BY <3>3, <4>2
        <4> QED BY <3>1, <4>1, <4>2
      <3>5. ASSUME NEW c, c = occurrences'[x] PROVE \A d \in 1 .. c : \E r \in Request : Brought(r, x, d)'
        BY <3>1, <3>4, <3>5
      <3> QED BY <3>5 DEF Passed
    <2> QED BY <1>a, <2>1, <2>2
  <1>4. ASSUME occurrences' = occurrences, UNCHANGED <<found, read>>,
               \A r \in Request : pc'[r] = "refreshing" => pc[r] = "refreshing"
        PROVE  /\ \A x \in Event : Passed(x, occurrences[x])'
               /\ \A r \in Request : pc'[r] = "refreshing" => Passed(found[r], read[r])'
    BY <1>4, <1>a, <1>b
  <1>5. ASSUME NEW q \in Request,
               (\E x \in Event : Arrive(q, x)) \/ Claim(q) \/ Audit(q) \/ Dispatch(q) \/ Fail(q)
        PROVE  /\ occurrences' = occurrences /\ UNCHANGED <<found, read>>
               /\ \A r \in Request : pc'[r] = "refreshing" => pc[r] = "refreshing"
    BY <1>5 DEF Arrive, Claim, Audit, Dispatch, Fail, Goto, Reply
  <1>6. ASSUME \/ \E x \in Event : Close(x)
               \/ \E k \in Key : KeyExpires(k)
               \/ UNCHANGED vars
        PROVE  /\ occurrences' = occurrences /\ UNCHANGED <<found, read>>
               /\ \A r \in Request : pc'[r] = "refreshing" => pc[r] = "refreshing"
    BY <1>6 DEF Close, KeyExpires, vars
  <1> QED BY <1>1, <1>2, <1>3, <1>4, <1>5, <1>6 DEF Next, Handle

LEMMA NextSettled ==
  ASSUME TypeOK, Begun, Counts, Pursued, [Next]_vars, NEW r \in Request
  PROVE  Settled(r)'
  <1> USE IngestAssumption DEF IngestAssumption, TypeOK, store
  <1>0. Settled(r) /\ (pc[r] = "idle" => read[r] = 0 /\ found[r] = NoEvent)
    BY DEF Pursued, Begun
  <1>1. ASSUME NEW q \in Request, NEW y \in Event, Arrive(q, y) PROVE Settled(r)'
    BY <1>0, <1>1 DEF Arrive, Goto, Reply, Settled
  <1>2. ASSUME NEW q \in Request, Look(q) PROVE Settled(r)'
    BY <1>0, <1>2 DEF Look, Goto, OpenWith, Settled, Counts, Counted
  <1>3. ASSUME NEW q \in Request, Claim(q) PROVE Settled(r)'
    BY <1>0, <1>3 DEF Claim, Goto, Reply, Settled
  <1>4. ASSUME NEW q \in Request, Insert(q) PROVE Settled(r)'
    BY <1>0, <1>4 DEF Insert, Goto, Reply, Settled, Begun
  <1>5. ASSUME NEW q \in Request, Audit(q) PROVE Settled(r)'
    BY <1>0, <1>5 DEF Audit, Goto, Reply, Settled, Begun
  <1>6. ASSUME NEW q \in Request, Dispatch(q) PROVE Settled(r)'
    <2>1. dispatched' = [dispatched EXCEPT ![found[q]] = @ \cup {read[q] + 1}]
          /\ found[q] \in Event
      BY <1>6 DEF Dispatch, Pursued, Settled
    <2>2. CASE q = r
      BY <1>0, <1>6, <2>1, <2>2 DEF Dispatch, Reply, Settled
    <2>3. CASE q # r
      BY <1>0, <1>6, <2>1, <2>3 DEF Dispatch, Reply, Settled
    <2> QED BY <2>2, <2>3
  <1>7. ASSUME NEW q \in Request, Fail(q) PROVE Settled(r)'
    BY <1>0, <1>7 DEF Fail, Reply, Settled
  <1>8. ASSUME NEW q \in Request, NEW silent, Refresh(q, silent) PROVE Settled(r)'
    BY <1>0, <1>8 DEF Refresh, Retriggers, Goto, Reply, Settled, Begun
  <1>9. CASE \/ \E y \in Event : Close(y)
             \/ \E k \in Key : KeyExpires(k)
             \/ UNCHANGED vars
    BY <1>0, <1>9 DEF Close, KeyExpires, vars, Settled
  <1> QED BY <1>1, <1>2, <1>3, <1>4, <1>5, <1>6, <1>7, <1>8, <1>9 DEF Next, Handle

LEMMA NextPursued ==
  ASSUME TypeOK, Begun, Counts, Pursued, [Next]_vars PROVE Pursued'
  <1>1. \A r \in Request : Settled(r)'
    BY NextSettled
  <1> QED BY <1>1, NextPassed DEF Pursued

\* A key that is backed stays backed.
LEMMA BackedStays ==
  ASSUME TypeOK, Begun, [Next]_vars, NEW k, Backed(k) PROVE Backed(k)'
  <1> USE DEF TypeOK, store, Backed
  <1>1. ASSUME NEW r \in Request, NEW x \in Event, Arrive(r, x) PROVE Backed(k)'
    BY <1>1 DEF Arrive, Goto, Reply, Begun
  <1>2. ASSUME NEW r \in Request, Look(r) PROVE Backed(k)'
    BY <1>2 DEF Look, Goto, Begun
  <1>3. ASSUME NEW r \in Request, Claim(r) PROVE Backed(k)'
    BY <1>3 DEF Claim, Goto, Reply, Begun
  <1>4. ASSUME NEW r \in Request, Insert(r) PROVE Backed(k)'
    BY <1>4 DEF Insert, Goto, Reply, Begun
  <1>5. ASSUME NEW r \in Request, Audit(r) \/ Dispatch(r) PROVE Backed(k)'
    BY <1>5 DEF Audit, Dispatch, Goto, Reply, Begun
  <1>6. ASSUME NEW r \in Request, Fail(r) PROVE Backed(k)'
    BY <1>6 DEF Fail, Reply, Begun
  <1>7. ASSUME NEW r \in Request, NEW silent, Refresh(r, silent) PROVE Backed(k)'
    BY <1>7 DEF Refresh, Goto, Reply, Begun
  <1>8. ASSUME NEW x \in Event, Close(x) PROVE Backed(k)'
    BY <1>8 DEF Close
  <1>9. CASE (\E l \in Key : KeyExpires(l)) \/ UNCHANGED vars
    BY <1>9 DEF KeyExpires, vars
  <1> QED BY <1>1, <1>2, <1>3, <1>4, <1>5, <1>6, <1>7, <1>8, <1>9 DEF Next, Handle

LEMMA NextDuplicates ==
  ASSUME TypeOK, Begun, Duplicates, [Next]_vars PROVE Duplicates'
  <1> USE DEF TypeOK, store
  <1>1. ASSUME NEW k \in claimed' PROVE Backed(k)'
    <2>1. CASE k \in claimed
      BY <2>1, BackedStays DEF Duplicates
    <2>2. CASE k \notin claimed
      <3>1. PICK r \in Request : Claim(r) /\ k = key[r]
        BY <1>1, <2>2 DEF Next, Handle, Arrive, Look, Claim, Insert, Audit, Dispatch,
           Refresh, Fail, Close, KeyExpires, vars
      <3>2. pc'[r] = "inserting" /\ key' = key
        BY <2>2, <3>1 DEF Claim, Goto
      <3> QED BY <3>1, <3>2 DEF Backed
    <2> QED BY <2>1, <2>2
  <1>2. ASSUME NEW r \in Request, answer'[r] = "duplicate" PROVE Backed(key[r])'
    <2> PICK k : k = key[r]
      OBVIOUS
    <2>1. CASE answer[r] = "duplicate" /\ key'[r] = key[r]
      <3>1. Backed(k)'
        BY <2>1, BackedStays DEF Duplicates
      <3>2. k = key'[r]
        BY <2>1
      <3> QED BY <3>1, <3>2 DEF Backed
    <2>2. CASE Claim(r) /\ key[r] \in claimed
      <3>1. Backed(k)'
        BY <2>2, BackedStays DEF Duplicates
      <3>2. k = key'[r]
        BY <2>2 DEF Claim
      <3> QED BY <3>1, <3>2 DEF Backed
    <2>3. \/ answer[r] = "duplicate" /\ key'[r] = key[r]
          \/ Claim(r) /\ key[r] \in claimed
      <3>1. ASSUME NEW q \in Request, NEW x \in Event, Arrive(q, x)
            PROVE  answer[r] = "duplicate" /\ key'[r] = key[r]
        BY <1>2, <3>1 DEF Arrive, Goto, Reply, Begun
      <3>2. ASSUME NEW q \in Request, Look(q) \/ Insert(q) \/ Audit(q) \/ Dispatch(q) \/ Fail(q)
            PROVE  answer[r] = "duplicate" /\ key'[r] = key[r]
        BY <1>2, <3>2 DEF Look, Insert, Audit, Dispatch, Fail, Goto, Reply
      <3>3. ASSUME NEW q \in Request, Claim(q)
            PROVE  \/ answer[r] = "duplicate" /\ key'[r] = key[r]
                   \/ Claim(r) /\ key[r] \in claimed
        BY <1>2, <3>3 DEF Claim, Goto, Reply
      <3>4. ASSUME NEW q \in Request, NEW silent, Refresh(q, silent)
            PROVE  answer[r] = "duplicate" /\ key'[r] = key[r]
        BY <1>2, <3>4 DEF Refresh, Goto, Reply
      <3>5. ASSUME \/ \E x \in Event : Close(x)
                   \/ \E c \in Key : KeyExpires(c)
                   \/ UNCHANGED vars
            PROVE  answer[r] = "duplicate" /\ key'[r] = key[r]
        BY <1>2, <3>5 DEF Close, KeyExpires, vars
      <3> QED BY <3>1, <3>2, <3>3, <3>4, <3>5 DEF Next, Handle
    <2> QED BY <2>1, <2>2, <2>3
  <1> QED BY <1>1, <1>2 DEF Duplicates

LEMMA NextIInv == IInv /\ [Next]_vars => IInv'
  BY NextTyped, NextBegun, NextCounts, NextExcluded, NextPursued, NextDuplicates DEF IInv

-----------------------------------------------------------------------------
\* The strengthened invariant holds in every reachable state.
THEOREM Inductive == Spec => []IInv
  BY InitIInv, NextIInv, PTL DEF Spec

\* Type correctness.
THEOREM TypeCorrect == Spec => []TypeOK
  <1>1. IInv => TypeOK
    BY DEF IInv
  <1> QED BY <1>1, Inductive, PTL

\* However many requests with one dedupe key interleave, fail and are sent again,
\* at most one incident with that key is open (lines 931 to 1057 of main.py).
THEOREM OneOpen == Spec => []OneOpenPerKey
  <1>1. IInv => OneOpenPerKey
    BY DEF IInv
  <1> QED BY <1>1, Inductive, PTL

\* Folding events into an incident never invents an occurrence.
THEOREM Occurrences == Spec => []OccurrencesBounded
  <1>1. IInv => OccurrencesBounded
    BY DEF IInv, Counts, Counted, OccurrencesBounded
  <1> QED BY <1>1, Inductive, PTL

\* A milestone of an incident's count is never missed: its dispatcher message was
\* sent, or the request that brought the count there failed or matched no rule.
THEOREM Dispatched == Spec => []MilestonesDispatched
  <1>1. ASSUME IInv, Quiet, NEW x \in Event, NEW m \in Milestones \cup {1},
               m <= occurrences[x]
        PROVE  \/ m \in dispatched[x]
               \/ \E r \in Request :
                    /\ found[r] = x /\ read[r] + 1 = m
                    /\ event[r] \notin Matched \/ answer[r] = "error"
    <2>1. m \in 1 .. occurrences[x]
      BY <1>1, IngestAssumption DEF IngestAssumption, IInv, TypeOK
    <2>2. PICK r \in Request : Brought(r, x, m)
      BY <1>1, <2>1 DEF IInv, Pursued, Passed
    <2>3. pc[r] = "done" /\ found[r] = x /\ read[r] + 1 = m
      BY <1>1, <2>2 DEF Brought, Quiet
    <2> QED BY <1>1, <2>3 DEF IInv, Pursued, Settled
  <1>2. IInv => MilestonesDispatched
    BY <1>1 DEF MilestonesDispatched
  <1> QED BY <1>2, Inductive, PTL

\* Once nobody is at work, an event answered as a duplicate has an incident with
\* its key, or a request claimed that key and left it without one, because it
\* failed or because its event had an incident under another key.
THEOREM Originals == Spec => []DuplicateHasOriginal
  <1>1. IInv => DuplicateHasOriginal
    BY DEF IInv, Duplicates, Backed, DuplicateHasOriginal, Quiet
  <1> QED BY <1>1, Inductive, PTL
==============================================================================
