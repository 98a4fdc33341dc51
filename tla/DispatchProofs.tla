----------------------------- MODULE DispatchProofs -----------------------------
(***************************************************************************)
(* Proofs about Dispatch, for every number of targets, rows, dispatchers   *)
(* and escalations, and every fallback policy.                             *)
(***************************************************************************)
EXTENDS Dispatch, FiniteSetTheorems, TLAPS

\* What the position of a message tells about its local variables; only a row of
\* the table has channel messages.
Local ==
  /\ \A p \in Proc :
       /\ pc[p] \in {"queued", "policy"} => collected[p] = {}
       /\ pc[p] = "inserting" => looking[p] \in Target
       /\ pc[p] = "noted" => holding[p] \in collected[p]
       /\ pc[p] # "noted" => holding[p] = NoRow
  /\ \A w \in Row : target[w] = NoTarget => queued[w] = 0

\* Whoever holds a row has committed an entry for it and not sent the message.
Holders(w) == {p \in Proc : pc[p] = "noted" /\ holding[p] = w}

Noted ==
  \A w \in Row :
    IsFiniteSet(Holders(w)) /\ queued[w] + Cardinality(Holders(w)) <= notes[w]

\* A dispatcher at work has every target still before it, reached, without a task,
\* or in a row that it has collected.
Pending(d, t) ==
  \/ t \in todo[d]
  \/ t \in Mute
  \/ Reached(t)
  \/ \E w \in collected[d] : target[w] = t

Covered ==
  \A d \in Dispatcher :
    pc[d] \in {"expanding", "inserting", "noted"} => \A t \in Plan(d) : Pending(d, t)

\* Only one escalation finds the incident open.  Until then no row has a fallback
\* entry, and after that only rows which that escalation is done with.
Fresh(e, w) ==
  /\ w \in collected[e] => target[w] \notin todo[e]
  /\ pc[e] = "policy" \/ target[w] \in todo[e] \/ (w \in collected[e] /\ holding[e] # w)
       => fallbacks[w] = 0

Alone ==
  /\ incident = "OPEN" => /\ \A e \in Escalator : pc[e] \notin Working
                          /\ \A w \in Row : fallbacks[w] = 0
  /\ \A e, f \in Escalator : pc[e] \in Working /\ pc[f] \in Working => e = f
  /\ \A w \in Row : target[w] = NoTarget => fallbacks[w] = 0
  /\ \A e \in Escalator, w \in Row : pc[e] \in Working => Fresh(e, w)

IInv == TypeOK /\ Local /\ Noted /\ Covered /\ DoneReachesAll /\ Alone /\ FallbackOnce

-----------------------------------------------------------------------------
LEMMA InitIInv == Init => IInv
  <1> SUFFICES ASSUME Init PROVE IInv
    OBVIOUS
  <1> USE DispatchAssumption DEF DispatchAssumption, Init, Proc, Row, NoRow
  <1>1. TypeOK
    BY DEF TypeOK, Working, Ended
  <1>2. Local /\ Covered /\ DoneReachesAll /\ Alone /\ FallbackOnce
    BY DEF Local, Covered, DoneReachesAll, Alone, FallbackOnce, Working
  <1>3. Noted
    <2> SUFFICES ASSUME NEW w \in Row
                 PROVE  IsFiniteSet(Holders(w)) /\ queued[w] + Cardinality(Holders(w)) <= notes[w]
      BY DEF Noted
    <2>1. Holders(w) = {}
      BY DEF Holders
    <2> QED BY <2>1, FS_EmptySet
  <1> QED BY <1>1, <1>2, <1>3 DEF IInv

\* The end of a delivery: its local variables are gone.
Forgets(p, place) ==
  /\ pc[p] \in Working
  /\ Forget(p) /\ Goto(p, place)
  /\ UNCHANGED <<incident, table, logs, queued>>

\* What a step may be, for the case splits.
LEMMA Steps ==
  ASSUME [Next]_vars
  PROVE  \/ \E d \in Dispatcher : Begin(d)
         \/ \E e \in Escalator : Escalate(e)
         \/ \E e \in Escalator, policy \in Policies : LoadFallback(e, policy)
         \/ \E p \in Proc, t \in Target : Look(p, t)
         \/ \E p \in Proc, w \in Row : Insert(p, w)
         \/ \E p \in Proc, w \in Row : Note(p, w)
         \/ \E p \in Proc : Queue(p)
         \/ \E p \in Proc : Finish(p)
         \/ \E p \in Proc, place \in {"queued", "failed"} : Forgets(p, place)
         \/ \E w \in Row : Deliver(w)
         \/ Close
         \/ UNCHANGED vars
  <1>1. ASSUME NEW p \in Proc, Crash(p) \/ Raise(p)
        PROVE  \E place \in {"queued", "failed"} : Forgets(p, place)
    BY <1>1 DEF Crash, Raise, Forgets
  <1> QED BY <1>1 DEF Next, Run, Expand

-----------------------------------------------------------------------------
LEMMA NextTyped ==
  ASSUME TypeOK, Local, [Next]_vars PROVE TypeOK'
  <1> USE DispatchAssumption DEF DispatchAssumption, TypeOK, Proc, Working, Ended
  <1>1. ASSUME NEW d \in Dispatcher, Begin(d) PROVE TypeOK'
    BY <1>1 DEF Begin, Goto, Plan, table, logs
  <1>2. ASSUME NEW e \in Escalator, Escalate(e) PROVE TypeOK'
    BY <1>2 DEF Escalate, Goto, table, logs, local
  <1>3. ASSUME NEW e \in Escalator, NEW policy, LoadFallback(e, policy) PROVE TypeOK'
    BY <1>3 DEF LoadFallback, Goto, Plan, table, logs
  <1>4. ASSUME NEW p \in Proc, NEW t \in Target, Look(p, t) PROVE TypeOK'
    <2>1. collected' \in [Proc -> SUBSET {w \in Row : target[w] # NoTarget}]
      BY <1>4 DEF Look, RowsOf
    <2>2. /\ todo' \in [Proc -> SUBSET Target] /\ looking' \in [Proc -> Target \cup {NoTarget}]
          /\ pc' \in [Proc -> {"queued"} \cup Working \cup Ended]
      BY <1>4 DEF Look, Goto
    <2> QED BY <1>4, <2>1, <2>2 DEF Look, table, logs
  <1>5. ASSUME NEW p \in Proc, NEW w \in Row, Insert(p, w) PROVE TypeOK'
    <2>1. looking[p] \in Target /\ target[w] = NoTarget
      BY <1>5 DEF Insert, Local, Row
    <2>2. /\ target' \in [Row -> Target \cup {NoTarget}]
          /\ {v \in Row : target'[v] # NoTarget} = {v \in Row : target[v] # NoTarget} \cup {w}
      BY <1>5, <2>1 DEF Insert
    <2>3. collected' \in [Proc -> SUBSET {v \in Row : target'[v] # NoTarget}]
      BY <1>5, <2>2 DEF Insert
    <2> QED BY <1>5, <2>2, <2>3 DEF Insert, Goto, logs
  <1>6. ASSUME NEW p \in Proc, NEW w \in Row, Note(p, w) PROVE TypeOK'
    BY <1>6 DEF Note, Goto, table
  <1>7. ASSUME NEW p \in Proc, Queue(p) PROVE TypeOK'
    <2>1. queued' \in [Row -> Nat]
      <3>1. holding[p] \in Row /\ queued[holding[p]] + 1 \in Nat
        BY <1>7 DEF Queue, Local
      <3> QED BY <1>7, <3>1 DEF Queue
    <2>2. collected' \in [Proc -> SUBSET {w \in Row : target[w] # NoTarget}]
      BY <1>7 DEF Queue
    <2>3. /\ holding' \in [Proc -> Row \cup {NoRow}]
          /\ pc' \in [Proc -> {"queued"} \cup Working \cup Ended]
      BY <1>7 DEF Queue, Goto
    <2> QED BY <1>7, <2>1, <2>2, <2>3 DEF Queue, table, logs
  <1>8. ASSUME NEW p \in Proc, Finish(p) PROVE TypeOK'
    BY <1>8 DEF Finish, Goto, table, logs, local
  <1>9. ASSUME NEW p \in Proc, Crash(p) \/ Raise(p) PROVE TypeOK'
    <2>1. /\ dlq' \subseteq Escalator /\ faults' \in 0 .. MaxFaults
          /\ pc' \in [Proc -> {"queued"} \cup Working \cup Ended]
      BY <1>9 DEF Crash, Raise, Fault, Goto
    <2>2. Forget(p) /\ UNCHANGED <<incident, table, logs, queued>>
      BY <1>9 DEF Crash, Raise
    <2> QED BY <2>1, <2>2 DEF Forget, table, logs, NoRow
  <1>10. ASSUME NEW w \in Row, Deliver(w) PROVE TypeOK'
    BY <1>10 DEF Deliver, Local, logs, local
  <1>11. CASE Close \/ UNCHANGED vars
    BY <1>11 DEF Close, vars, table, logs, local
  <1> QED BY <1>1, <1>2, <1>3, <1>4, <1>5, <1>6, <1>7, <1>8, <1>9, <1>10, <1>11 DEF Next, Run, Expand

LEMMA NextLocal ==
  ASSUME TypeOK, Local, [Next]_vars PROVE Local'
  <1> USE DispatchAssumption DEF DispatchAssumption, TypeOK, Local, Proc, Working, Ended
  <1>1. ASSUME NEW d \in Dispatcher, Begin(d) PROVE Local'
    BY <1>1 DEF Begin, Goto, table
  <1>2. ASSUME NEW e \in Escalator, Escalate(e) PROVE Local'
    BY <1>2 DEF Escalate, Goto, table, local
  <1>3. ASSUME NEW e \in Escalator, NEW policy \in Policies, LoadFallback(e, policy) PROVE Local'
    BY <1>3 DEF LoadFallback, Goto, table
  <1>4. ASSUME NEW p \in Proc, NEW t \in Target, Look(p, t) PROVE Local'
    BY <1>4 DEF Look, Goto, table
  <1>5. ASSUME NEW p \in Proc, NEW w \in Row, Insert(p, w) PROVE Local'
    BY <1>5 DEF Insert, Goto
  <1>6. ASSUME NEW p \in Proc, NEW w \in Row, Note(p, w) PROVE Local'
    BY <1>6 DEF Note, Goto, table
  <1>7. ASSUME NEW p \in Proc, Queue(p) PROVE Local'
    <2>1. holding[p] \in Row /\ target[holding[p]] # NoTarget
      BY <1>7 DEF Queue
    <2>2. \A w \in Row : target'[w] = NoTarget => queued'[w] = 0
      BY <1>7, <2>1 DEF Queue, table
    <2> QED BY <1>7, <2>2 DEF Queue, Goto
  <1>8. ASSUME NEW p \in Proc, Finish(p) PROVE Local'
    BY <1>8 DEF Finish, Goto, table, local
  <1>9. ASSUME NEW p \in Proc, NEW place \in {"queued", "failed"}, Forgets(p, place) PROVE Local'
    BY <1>9 DEF Forgets, Forget, Goto, table
  <1>10. ASSUME NEW w \in Row, Deliver(w) PROVE Local'
    BY <1>10 DEF Deliver, local
  <1>11. CASE Close \/ UNCHANGED vars
    BY <1>11 DEF Close, vars, table, local
  <1> QED
    BY <1>1, <1>2, <1>3, <1>4, <1>5, <1>6, <1>7, <1>8, <1>9, <1>10, <1>11, Steps

-----------------------------------------------------------------------------
\* A step that leaves the holders and the counts of a row alone, or takes holders
\* away, keeps the row's entries ahead of its messages.
LEMMA FewerHolders ==
  ASSUME TypeOK, Noted, NEW w \in Row,
         Holders(w)' \subseteq Holders(w), queued'[w] = queued[w], notes'[w] >= notes[w],
         notes'[w] \in Nat
  PROVE  IsFiniteSet(Holders(w))' /\ queued'[w] + Cardinality(Holders(w)') <= notes'[w]
  <1>1. IsFiniteSet(Holders(w)) /\ queued[w] + Cardinality(Holders(w)) <= notes[w]
    BY DEF Noted
  <1>2. /\ IsFiniteSet(Holders(w)') /\ Cardinality(Holders(w)') <= Cardinality(Holders(w))
    BY <1>1, FS_Subset
  <1>3. Cardinality(Holders(w)) \in Nat /\ Cardinality(Holders(w)') \in Nat
    BY <1>1, <1>2, FS_CardinalityType
  <1>4. queued[w] \in Nat /\ notes[w] \in Nat
    BY DEF TypeOK
  <1> QED BY <1>1, <1>2, <1>3, <1>4

LEMMA NextNoted ==
  ASSUME TypeOK, TypeOK', Local, Noted, [Next]_vars PROVE Noted'
  <1> SUFFICES ASSUME NEW w \in Row
               PROVE  IsFiniteSet(Holders(w))' /\ queued'[w] + Cardinality(Holders(w)') <= notes'[w]
    BY DEF Noted, Row
  <1> DEFINE Kept == Holders(w)' \subseteq Holders(w) /\ queued'[w] = queued[w] /\ notes'[w] >= notes[w]
  <1>t. notes[w] \in Nat /\ notes'[w] \in Nat /\ queued[w] \in Nat
    BY DEF TypeOK, Row
  <1>k. ASSUME Kept PROVE IsFiniteSet(Holders(w))' /\ queued'[w] + Cardinality(Holders(w)') <= notes'[w]
    BY <1>k, <1>t, FewerHolders
  <1>h. IsFiniteSet(Holders(w)) /\ queued[w] + Cardinality(Holders(w)) <= notes[w]
        /\ Cardinality(Holders(w)) \in Nat
    BY FS_CardinalityType DEF Noted
  <1> USE DispatchAssumption DEF DispatchAssumption, Proc
  <1>1. ASSUME NEW d \in Dispatcher, Begin(d) PROVE Kept
    BY <1>1, <1>t DEF Begin, Goto, logs, Holders, TypeOK
  <1>2. ASSUME NEW e \in Escalator, Escalate(e) PROVE Kept
    BY <1>2, <1>t DEF Escalate, Goto, logs, local, Holders, TypeOK
  <1>3. ASSUME NEW e \in Escalator, NEW policy \in Policies, LoadFallback(e, policy) PROVE Kept
    BY <1>3, <1>t DEF LoadFallback, Goto, logs, Holders, TypeOK
  <1>4. ASSUME NEW p \in Proc, NEW t \in Target, Look(p, t) PROVE Kept
    BY <1>4, <1>t DEF Look, Goto, logs, Holders, TypeOK
  <1>5. ASSUME NEW p \in Proc, NEW v \in Row, Insert(p, v) PROVE Kept
    BY <1>5, <1>t DEF Insert, Goto, logs, Holders, TypeOK
  <1>6. ASSUME NEW p \in Proc, NEW v \in Row, Note(p, v)
        PROVE  IsFiniteSet(Holders(w))' /\ queued'[w] + Cardinality(Holders(w)') <= notes'[w]
    <2>1. CASE v # w
      <3>1. Kept
        BY <1>6, <1>t, <2>1 DEF Note, Goto, Holders, TypeOK
      <3> QED BY <3>1, <1>k
    <2>2. CASE v = w
      <3>1. Holders(w)' = Holders(w) \cup {p} /\ p \notin Holders(w)
        BY <1>6, <2>2 DEF Note, Goto, Holders, TypeOK
      <3>2. queued'[w] = queued[w] /\ notes'[w] = notes[w] + 1
        BY <1>6, <2>2 DEF Note, TypeOK
      <3>3. IsFiniteSet(Holders(w)') /\ Cardinality(Holders(w)') = Cardinality(Holders(w)) + 1
        BY <1>h, <3>1, FS_AddElement
      <3> QED BY <1>h, <1>t, <3>2, <3>3
    <2> QED BY <2>1, <2>2
  <1>7. ASSUME NEW p \in Proc, Queue(p)
        PROVE  IsFiniteSet(Holders(w))' /\ queued'[w] + Cardinality(Holders(w)') <= notes'[w]
    <2>1. CASE holding[p] # w \/ target[holding[p]] \in Mute
      <3>1. Holders(w)' \subseteq Holders(w)
        BY <1>7 DEF Queue, Goto, Holders, TypeOK
      <3>2. queued'[w] = queued[w] /\ notes' = notes
        BY <1>7, <2>1 DEF Queue, TypeOK, logs
      <3> QED BY <1>k, <1>t, <3>1, <3>2
    <2>2. CASE holding[p] = w /\ target[holding[p]] \notin Mute
      <3>1. Holders(w)' = Holders(w) \ {p} /\ p \in Holders(w)
        BY <1>7, <2>2 DEF Queue, Goto, Holders, TypeOK
      <3>2. queued'[w] = queued[w] + 1 /\ notes'[w] = notes[w]
        BY <1>7, <2>2 DEF Queue, TypeOK, logs
      <3>3. IsFiniteSet(Holders(w)') /\ Cardinality(Holders(w)') = Cardinality(Holders(w)) - 1
        BY <1>h, <3>1, FS_RemoveElement
      <3> QED BY <1>h, <1>t, <3>2, <3>3
    <2> QED BY <2>1, <2>2
  <1>8. ASSUME NEW p \in Proc, Finish(p) PROVE Kept
    BY <1>8, <1>t DEF Finish, Goto, logs, local, Holders, TypeOK
  <1>9. ASSUME NEW p \in Proc, NEW place \in {"queued", "failed"}, Forgets(p, place) PROVE Kept
    BY <1>9, <1>t DEF Forgets, Forget, Goto, logs, Holders, TypeOK
  <1>10. ASSUME NEW v \in Row, Deliver(v) PROVE Kept
    BY <1>10, <1>t DEF Deliver, logs, local, Holders
  <1>11. ASSUME Close \/ UNCHANGED vars PROVE Kept
    BY <1>11, <1>t DEF Close, vars, logs, local, Holders
  <1> HIDE DEF Kept
  <1> QED
    BY <1>k, <1>1, <1>2, <1>3, <1>4, <1>5, <1>6, <1>7, <1>8, <1>9, <1>10, <1>11, Steps

-----------------------------------------------------------------------------
\* A row keeps its target, and a target that was reached stays so.
LEMMA RowsKept ==
  ASSUME TypeOK, Local, [Next]_vars
  PROVE  /\ \A w \in Row : target[w] # NoTarget => target'[w] = target[w]
         /\ \A t \in Target : Reached(t) => Reached(t)'
  <1> USE DispatchAssumption DEF DispatchAssumption, Row
  <1>1. \A w \in Row : target[w] # NoTarget => target'[w] = target[w]
    <2>1. ASSUME NEW p \in Proc, NEW w \in Row, Insert(p, w)
          PROVE  \A v \in Row : target[v] # NoTarget => target'[v] = target[v]
      BY <2>1 DEF Insert, TypeOK
    <2>2. \/ \E p \in Proc, w \in Row : Insert(p, w)
          \/ target' = target
      BY Steps DEF Begin, Escalate, LoadFallback, Look, Note, Queue, Finish, Forgets, Deliver,
                   Close, vars, table
    <2> QED BY <2>1, <2>2
  <1>2. delivered \subseteq delivered'
    BY Steps DEF Begin, Escalate, LoadFallback, Look, Insert, Note, Queue, Finish, Forgets,
                 Deliver, Close, vars, table
  <1>3. \A w \in Row : queued[w] > 0 => queued'[w] > 0
    <2>1. ASSUME NEW p \in Proc, Queue(p)
          PROVE  \A w \in Row : queued[w] > 0 => queued'[w] > 0
      BY <2>1 DEF Queue, TypeOK
    <2>2. \/ \E p \in Proc : Queue(p)
          \/ queued' = queued
      BY Steps DEF Begin, Escalate, LoadFallback, Look, Insert, Note, Finish, Forgets, Deliver,
                   Close, vars
    <2> QED BY <2>1, <2>2
  <1> QED BY <1>1, <1>2, <1>3 DEF Reached, RowsOf

\* The obligation of a dispatcher that a step does not concern.
LEMMA PendingKept ==
  ASSUME TypeOK, Local, [Next]_vars, NEW d \in Dispatcher, NEW t \in Target, Pending(d, t),
         todo'[d] = todo[d], collected[d] \subseteq collected'[d]
  PROVE  Pending(d, t)'
  <1>1. \A w \in collected[d] : w \in Row /\ target[w] # NoTarget
    BY DEF TypeOK, Proc
  <1> QED BY <1>1, RowsKept DEF Pending

LEMMA NextCovered ==
  ASSUME TypeOK, Local, Covered, DoneReachesAll, [Next]_vars PROVE Covered' /\ DoneReachesAll'
  <1> DEFINE Busy(d) == pc[d] \in {"expanding", "inserting", "noted"}
             Owed(d) == /\ Busy(d) => \A t \in Plan(d) : Pending(d, t)
                        /\ pc[d] = "done" => \A t \in Audible(d) : Reached(t)
  <1> SUFFICES ASSUME NEW d \in Dispatcher PROVE Owed(d)'
    BY DEF Covered, DoneReachesAll, Plan, Audible
  <1>o. Owed(d)
    BY DEF Covered, DoneReachesAll
  <1>p. d \in Proc /\ d \notin Escalator /\ Plan(d) \subseteq Target
    BY DispatchAssumption DEF DispatchAssumption, Plan, Proc
  <1>r. \A t \in Plan(d) : Reached(t) => Reached(t)'
    BY <1>p, RowsKept
  <1>s. Plan(d)' = Plan(d)
    BY DEF Plan
  \* A step that does not move d, or moves it without touching what it has to do.
  <1>k. ASSUME todo'[d] = todo[d], collected[d] \subseteq collected'[d],
               Busy(d)' => Busy(d), pc'[d] = "done" => pc[d] = "done"
        PROVE  Owed(d)'
    BY <1>k, <1>o, <1>p, <1>r, <1>s, PendingKept DEF Audible
  <1>q. ASSUME todo' = todo, collected' = collected, pc' = pc PROVE Owed(d)'
    BY <1>q, <1>k
  <1>m. ASSUME NEW p \in Proc, p # d, todo'[d] = todo[d], collected'[d] = collected[d],
               pc'[d] = pc[d]
        PROVE  Owed(d)'
    BY <1>m, <1>k
  <1> HIDE DEF Owed
  <1>1. ASSUME NEW c \in Dispatcher, Begin(c) PROVE Owed(d)'
    <2>1. CASE c = d
      <3>1. pc'[d] = "expanding" /\ todo'[d] = Plan(d)
        BY <1>1, <2>1, <1>p DEF Begin, Goto, TypeOK
      <3> QED BY <3>1, <1>s DEF Owed, Pending
    <2>2. CASE c # d
      BY <1>1, <2>2, <1>k, <1>p DEF Begin, Goto, TypeOK
    <2> QED BY <2>1, <2>2
  <1>2. ASSUME NEW e \in Escalator, Escalate(e) PROVE Owed(d)'
    BY <1>2, <1>k, <1>p DEF Escalate, Goto, local, TypeOK
  <1>3. ASSUME NEW e \in Escalator, NEW policy \in Policies, LoadFallback(e, policy) PROVE Owed(d)'
    BY <1>3, <1>k, <1>p DEF LoadFallback, Goto, TypeOK
  <1>4. ASSUME NEW p \in Proc, NEW t \in Target, Look(p, t) PROVE Owed(d)'
    <2>1. CASE p # d \/ RowsOf(t) = {}
      BY <1>4, <2>1, <1>k, <1>p DEF Look, Goto, TypeOK
    <2>2. CASE p = d /\ RowsOf(t) # {}
      <3>1. PICK w \in RowsOf(t) :
              /\ collected'[d] = IF w \in delivered THEN collected[d] ELSE collected[d] \cup {w}
              /\ todo'[d] = todo[d] \ {t} /\ pc' = pc
        BY <1>4, <2>2, <1>p DEF Look, TypeOK
      <3>2. target' = target /\ delivered' = delivered /\ pc[d] = "expanding"
        BY <1>4, <2>2 DEF Look, table
      <3>3. ASSUME NEW u \in Plan(d) PROVE Pending(d, u)'
        <4>1. Pending(d, u)
          BY <1>o, <3>2, <3>3 DEF Owed
        <4>2. CASE u = t
          BY <3>1, <3>2, <4>2 DEF Pending, Reached, RowsOf
        <4>3. CASE u # t
          BY <3>1, <3>2, <3>3, <4>1, <4>3, <1>r DEF Pending
        <4> QED BY <4>2, <4>3
      <3> QED BY <3>1, <3>2, <3>3, <1>s DEF Owed
    <2> QED BY <2>1, <2>2
  <1>5. ASSUME NEW p \in Proc, NEW w \in Row, Insert(p, w) PROVE Owed(d)'
    <2>1. CASE p # d
      BY <1>5, <2>1, <1>k, <1>p DEF Insert, Goto, TypeOK
    <2>2. CASE p = d
      <3>1. /\ collected'[d] = collected[d] \cup {w} /\ todo'[d] = todo[d] \ {looking[d]}
            /\ target'[w] = looking[d] /\ pc[d] = "inserting" /\ pc'[d] = "expanding"
        BY <1>5, <2>2, <1>p DEF Insert, Goto, TypeOK
      <3>2. \A v \in collected[d] : target'[v] = target[v]
        BY <1>p, RowsKept DEF TypeOK
      <3>3. ASSUME NEW u \in Plan(d) PROVE Pending(d, u)'
        <4>1. Pending(d, u)
          BY <1>o, <3>1 DEF Owed
        <4> QED BY <3>1, <3>2, <4>1, <1>r DEF Pending
      <3> QED BY <3>1, <3>3, <1>s DEF Owed
    <2> QED BY <2>1, <2>2
  <1>6. ASSUME NEW p \in Proc, NEW w \in Row, Note(p, w) PROVE Owed(d)'
    BY <1>6, <1>k, <1>p DEF Note, Goto, TypeOK
  <1>7. ASSUME NEW p \in Proc, Queue(p) PROVE Owed(d)'
    <2>1. CASE p # d
      BY <1>7, <2>1, <1>k, <1>p DEF Queue, Goto, TypeOK
    <2>2. CASE p = d
      <3> DEFINE w == holding[d]
      <3>1. w \in collected[d] /\ w \in Row /\ pc[d] = "noted" /\ pc'[d] = "expanding"
        BY <1>7, <2>2, <1>p DEF Queue, Goto, Local, TypeOK
      <3>2. collected'[d] = collected[d] \ {w} /\ todo' = todo /\ target' = target
        BY <1>7, <2>2, <1>p DEF Queue, TypeOK, table
      <3>3. target[w] \in Mute \/ queued'[w] > 0
        BY <1>7, <2>2, <3>1 DEF Queue, TypeOK
      <3> HIDE DEF w
      <3>4. ASSUME NEW u \in Plan(d) PROVE Pending(d, u)'
        <4>1. Pending(d, u)
          BY <1>o, <3>1 DEF Owed
        <4>2. CASE target[w] = u
          BY <3>1, <3>2, <3>3, <4>2 DEF Pending, Reached, RowsOf
        <4>3. CASE target[w] # u
          BY <3>2, <4>1, <4>3, <1>r DEF Pending
        <4> QED BY <4>2, <4>3
      <3> QED BY <3>1, <3>4, <1>s DEF Owed
    <2> QED BY <2>1, <2>2
  <1>8. ASSUME NEW p \in Proc, Finish(p) PROVE Owed(d)'
    <2>1. CASE p # d
      BY <1>8, <2>1, <1>k, <1>p DEF Finish, Goto, TypeOK, local
    <2>2. CASE p = d
      <3>1. todo[d] = {} /\ collected[d] = {} /\ pc[d] = "expanding" /\ pc'[d] = "done"
        BY <1>8, <2>2, <1>p DEF Finish, Goto, TypeOK
      <3>2. \A t \in Audible(d) : Reached(t)
        BY <1>o, <3>1 DEF Owed, Pending, Audible
      <3> QED BY <3>1, <3>2, <1>r, <1>s DEF Owed, Audible
    <2> QED BY <2>1, <2>2
  <1>9. ASSUME NEW p \in Proc, NEW place \in {"queued", "failed"}, Forgets(p, place) PROVE Owed(d)'
    <2>1. CASE p # d
      BY <1>9, <2>1, <1>k, <1>p DEF Forgets, Forget, Goto, TypeOK
    <2>2. CASE p = d
      BY <1>9, <2>2, <1>p DEF Forgets, Goto, TypeOK, Owed
    <2> QED BY <2>1, <2>2
  <1>10. ASSUME NEW w \in Row, Deliver(w) PROVE Owed(d)'
    BY <1>10, <1>k DEF Deliver, local
  <1>11. CASE Close \/ UNCHANGED vars
    BY <1>11, <1>k DEF Close, vars, local
  <1> QED
    BY <1>1, <1>2, <1>3, <1>4, <1>5, <1>6, <1>7, <1>8, <1>9, <1>10, <1>11, Steps

-----------------------------------------------------------------------------
LEMMA NextAlone ==
  ASSUME TypeOK, Local, Alone, FallbackOnce, [Next]_vars PROVE Alone' /\ FallbackOnce'
  <1> USE DispatchAssumption DEF DispatchAssumption, Proc
  \* A step that moves no escalation and touches no fallback entry.
  <1>k. ASSUME \A e \in Escalator : /\ pc'[e] = pc[e] /\ todo'[e] = todo[e]
                                    /\ collected'[e] = collected[e] /\ holding'[e] = holding[e],
               fallbacks' = fallbacks, target' = target, incident' \in {incident, "CLOSED"}
        PROVE  Alone' /\ FallbackOnce'
    BY <1>k DEF Alone, Fresh, FallbackOnce, Working
  <1>1. ASSUME NEW d \in Dispatcher, Begin(d) PROVE Alone' /\ FallbackOnce'
    BY <1>1, <1>k DEF Begin, Goto, TypeOK, logs, table
  <1>2. ASSUME NEW e \in Escalator, Escalate(e) PROVE Alone' /\ FallbackOnce'
    BY <1>2 DEF Escalate, Goto, TypeOK, Local, Alone, Fresh, FallbackOnce, Working, logs, table, local
  <1>3. ASSUME NEW e \in Escalator, NEW policy \in Policies, LoadFallback(e, policy)
        PROVE  Alone' /\ FallbackOnce'
    BY <1>3 DEF LoadFallback, Goto, TypeOK, Local, Alone, Fresh, FallbackOnce, Working, logs, table
  <1>4. ASSUME NEW p \in Proc, NEW t \in Target, Look(p, t) PROVE Alone' /\ FallbackOnce'
    <2>1. CASE p \in Dispatcher
      BY <1>4, <2>1, <1>k DEF Look, Goto, TypeOK, logs, table
    <2>2. CASE p \in Escalator
      <3>1. fallbacks' = fallbacks /\ target' = target /\ incident' = incident /\ holding' = holding
            /\ pc[p] = "expanding"
        BY <1>4 DEF Look, logs, table
      <3>2. \A e \in Escalator : pc'[e] \in Working <=> pc[e] \in Working
        BY <1>4 DEF Look, Goto, TypeOK, Working
      <3>3. ASSUME NEW w \in Row PROVE Fresh(p, w)'
        <4>1. Fresh(p, w) /\ collected[p] = {} /\ holding[p] = NoRow
          BY <1>4, <2>2, <3>1 DEF Look, Alone, Local, Working
        <4>2. CASE RowsOf(t) = {}
          BY <1>4, <2>2, <3>1, <4>1, <4>2 DEF Look, Goto, TypeOK, Fresh
        <4>3. CASE RowsOf(t) # {}
          BY <1>4, <2>2, <3>1, <4>1, <4>3 DEF Look, RowsOf, TypeOK, Fresh
        <4> QED BY <4>2, <4>3
      <3> QED BY <2>2, <3>1, <3>2, <3>3 DEF Alone, FallbackOnce, Working
    <2> QED BY <2>1, <2>2
  <1>5. ASSUME NEW p \in Proc, NEW w \in Row, Insert(p, w) PROVE Alone' /\ FallbackOnce'
    <2>1. fallbacks' = fallbacks /\ incident' = incident /\ holding' = holding
      BY <1>5 DEF Insert, logs
    <2>2. /\ target[w] = NoTarget /\ looking[p] \in Target /\ target'[w] = looking[p]
          /\ \A v \in Row : v # w => target'[v] = target[v]
      BY <1>5 DEF Insert, Local, TypeOK, Row
    <2>3. \A e \in Escalator : pc'[e] \in Working <=> pc[e] \in Working
      BY <1>5 DEF Insert, Goto, TypeOK, Working
    <2>4. ASSUME NEW e \in Escalator, pc[e] \in Working, NEW v \in Row PROVE Fresh(e, v)'
      <3>1. Fresh(e, v) /\ w \notin collected[e] /\ fallbacks[w] = 0
        BY <2>2, <2>4 DEF Alone, TypeOK
      <3>2. CASE e # p
        <4>1. pc'[e] = pc[e] /\ todo'[e] = todo[e] /\ collected'[e] = collected[e]
          BY <1>5, <3>2 DEF Insert, Goto, TypeOK
        <4> QED BY <2>1, <2>2, <3>1, <4>1 DEF Fresh
      <3>3. CASE e = p
        <4>1. /\ pc[p] = "inserting" /\ pc'[p] = "expanding"
              /\ todo'[p] = todo[p] \ {looking[p]} /\ collected'[p] = collected[p] \cup {w}
          BY <1>5 DEF Insert, Goto, TypeOK
        <4> QED BY <2>1, <2>2, <3>1, <3>3, <4>1 DEF Fresh
      <3> QED BY <3>2, <3>3
    <2> QED BY <2>1, <2>2, <2>3, <2>4 DEF Alone, FallbackOnce
  <1>6. ASSUME NEW p \in Proc, NEW w \in Row, Note(p, w) PROVE Alone' /\ FallbackOnce'
    <2>1. CASE p \in Dispatcher
      BY <1>6, <2>1, <1>k DEF Note, Goto, TypeOK, table
    <2>2. CASE p \in Escalator
      <3>1. /\ pc[p] = "expanding" /\ pc' = [pc EXCEPT ![p] = "noted"] /\ w \in collected[p]
            /\ fallbacks' = [fallbacks EXCEPT ![w] = @ + 1]
            /\ holding' = [holding EXCEPT ![p] = w]
            /\ todo' = todo /\ collected' = collected /\ target' = target /\ incident' = incident
        BY <1>6, <2>2 DEF Note, Goto, table
      <3>2. /\ \A v \in Row : Fresh(p, v)
            /\ \A e \in Escalator : pc[e] \in Working => e = p
            /\ incident # "OPEN"
        BY <2>2, <3>1 DEF Alone, Working
      <3>3. holding[p] = NoRow /\ w # NoRow /\ target[w] # NoTarget
        BY <3>1 DEF Local, TypeOK, Row, NoRow
      <3>4. fallbacks[w] = 0 /\ target[w] \notin todo[p]
        BY <3>1, <3>2, <3>3 DEF Fresh
      <3>5. fallbacks'[w] = 1 /\ \A v \in Row : v # w => fallbacks'[v] = fallbacks[v]
        BY <3>1, <3>4 DEF TypeOK
      <3>6. pc'[p] = "noted" /\ holding'[p] = w /\ \A e \in Escalator : pc'[e] \in Working => e = p
        BY <2>2, <3>1, <3>2 DEF TypeOK, Working
      <3>7. ASSUME NEW v \in Row PROVE Fresh(p, v)'
        <4>1. CASE v = w
          BY <3>1, <3>4, <3>6, <4>1 DEF Fresh
        <4>2. CASE v # w
          <5>1. holding[p] # v
            BY <3>3 DEF Row, NoRow
          <5> QED BY <3>1, <3>2, <3>5, <3>6, <4>2, <5>1 DEF Fresh
        <4> QED BY <4>1, <4>2
      <3> QED BY <3>1, <3>2, <3>3, <3>5, <3>6, <3>7 DEF Alone, FallbackOnce
    <2> QED BY <2>1, <2>2
  <1>7. ASSUME NEW p \in Proc, Queue(p) PROVE Alone' /\ FallbackOnce'
    <2>1. CASE p \in Dispatcher
      BY <1>7, <2>1, <1>k DEF Queue, Goto, TypeOK, logs, table
    <2>2. CASE p \in Escalator
      <3>1. /\ fallbacks' = fallbacks /\ target' = target /\ incident' = incident /\ todo' = todo
            /\ pc[p] = "noted" /\ pc'[p] = "expanding"
            /\ collected'[p] = collected[p] \ {holding[p]}
        BY <1>7 DEF Queue, Goto, TypeOK, logs, table
      <3>2. \A e \in Escalator : pc'[e] \in Working <=> pc[e] \in Working
        BY <1>7 DEF Queue, Goto, TypeOK, Working
      <3>3. ASSUME NEW w \in Row PROVE Fresh(p, w)'
        <4>1. Fresh(p, w)
          BY <2>2, <3>1 DEF Alone, Working
        <4> QED BY <3>1, <4>1 DEF Fresh
      <3> QED BY <2>2, <3>1, <3>2, <3>3 DEF Alone, FallbackOnce, Working
    <2> QED BY <2>1, <2>2
  <1>8. ASSUME NEW p \in Proc, Finish(p) PROVE Alone' /\ FallbackOnce'
    BY <1>8 DEF Finish, Goto, TypeOK, Alone, Fresh, FallbackOnce, Working, logs, table, local
  <1>9. ASSUME NEW p \in Proc, NEW place \in {"queued", "failed"}, Forgets(p, place)
        PROVE  Alone' /\ FallbackOnce'
    <2>1. fallbacks' = fallbacks /\ target' = target /\ incident' = incident
      BY <1>9 DEF Forgets, logs, table
    <2>2. /\ \A e \in Escalator : pc'[e] \in Working => e # p
          /\ \A e \in Escalator \ {p} :
               /\ pc'[e] = pc[e] /\ todo'[e] = todo[e]
               /\ collected'[e] = collected[e] /\ holding'[e] = holding[e]
      BY <1>9 DEF Forgets, Forget, Goto, TypeOK, Working
    <2> QED BY <2>1, <2>2 DEF Alone, Fresh, FallbackOnce
  <1>10. ASSUME NEW w \in Row, Deliver(w) PROVE Alone' /\ FallbackOnce'
    BY <1>10, <1>k DEF Deliver, logs, local
  <1>11. CASE Close \/ UNCHANGED vars
    BY <1>11, <1>k DEF Close, vars, logs, table, local
  <1> QED
    BY <1>1, <1>2, <1>3, <1>4, <1>5, <1>6, <1>7, <1>8, <1>9, <1>10, <1>11, Steps

-----------------------------------------------------------------------------
\* The invariant that the theorems below follow from.
THEOREM Inductive == Spec => []IInv
  <1>1. ASSUME IInv, [Next]_vars PROVE IInv'
    <2>1. TypeOK' /\ Local'
      BY <1>1, NextTyped, NextLocal DEF IInv
    <2>2. Noted' /\ Covered' /\ DoneReachesAll' /\ Alone' /\ FallbackOnce'
      BY <1>1, <2>1, NextNoted, NextCovered, NextAlone DEF IInv
    <2> QED BY <2>1, <2>2 DEF IInv
  <1> QED BY InitIInv, <1>1, PTL DEF Spec

\* Every variable keeps its type: a collected row is a row of the table.
THEOREM TypeCorrect == Spec => []TypeOK
  <1> QED BY Inductive, PTL DEF IInv

\* The audit entry of a message is committed before the message is sent
\* (_queue_incident_dispatch, worker.py): whatever dies or raises, a row has at least
\* as many entries as messages.
THEOREM NotesComeFirst == Spec => []QueuedIsNoted
  <1>1. ASSUME IInv PROVE QueuedIsNoted
    <2> SUFFICES ASSUME NEW w \in Row PROVE queued[w] <= notes[w]
      BY DEF QueuedIsNoted
    <2>1. /\ queued[w] \in Nat /\ notes[w] \in Nat
          /\ Cardinality(Holders(w)) \in Nat /\ queued[w] + Cardinality(Holders(w)) <= notes[w]
      BY <1>1, FS_CardinalityType DEF IInv, TypeOK, Noted
    <2> QED BY <2>1
  <1> QED BY Inductive, <1>1, PTL

\* dispatch_incident returns with no target left out that some task sends to, whoever else creates, queues or
\* delivers rows of the incident meanwhile.
THEOREM DispatchComplete == Spec => []DoneReachesAll
  <1> QED BY Inductive, PTL DEF IInv

\* The row lock and the status that _handle_escalation_impl commits first let one
\* escalation through, so the fallback of an incident is queued at most once.
THEOREM FallbackUnique == Spec => []FallbackOnce
  <1> QED BY Inductive, PTL DEF IInv

-----------------------------------------------------------------------------
(***************************************************************************)
(* A message that inserts a row for a target has found none.  The rows of  *)
(* a target and the messages that are about to insert one are therefore    *)
(* never more than the messages that have it in their plan: none begins    *)
(* once there is a row, and an insert turns one of them into a row.        *)
(***************************************************************************)
Inserters(t) == {p \in Proc : looking[p] = t}
Planners(t) == {p \in Proc : t \in Plan(p)}

Planned ==
  \A p \in Proc :
    /\ todo[p] \subseteq Plan(p)
    /\ looking[p] # NoTarget => looking[p] \in Plan(p) /\ pc[p] = "inserting"

Counted ==
  \A t \in Target :
    Cardinality(RowsOf(t)) + Cardinality(Inserters(t)) <= Cardinality(Planners(t))

\* All these sets are finite.
LEMMA Finite ==
  ASSUME NEW t
  PROVE  /\ IsFiniteSet(RowsOf(t)) /\ Cardinality(RowsOf(t)) \in Nat
         /\ IsFiniteSet(Inserters(t)) /\ Cardinality(Inserters(t)) \in Nat
         /\ IsFiniteSet(Planners(t)) /\ Cardinality(Planners(t)) \in Nat
  <1>1. IsFiniteSet(Row) /\ IsFiniteSet(Proc)
    BY DispatchAssumption, FS_Interval DEF DispatchAssumption, Row
  <1>2. RowsOf(t) \in SUBSET Row /\ Inserters(t) \in SUBSET Proc /\ Planners(t) \in SUBSET Proc
    BY DEF RowsOf, Inserters, Planners
  <1>3. IsFiniteSet(RowsOf(t)) /\ IsFiniteSet(Inserters(t)) /\ IsFiniteSet(Planners(t))
    BY <1>1, <1>2, FS_Subset
  <1> QED BY <1>3, FS_CardinalityType

LEMMA OneLess ==
  ASSUME NEW t, NEW p \in Inserters(t)
  PROVE  Cardinality(Inserters(t) \ {p}) = Cardinality(Inserters(t)) - 1
  <1> QED BY Finite, FS_RemoveElement

\* A step that adds no row for t, and nobody who inserts one, keeps the count.
LEMMA NoMore ==
  ASSUME NEW t \in Target, Counted,
         RowsOf(t)' = RowsOf(t), Inserters(t)' \subseteq Inserters(t)
  PROVE  Cardinality(RowsOf(t)') + Cardinality(Inserters(t)') <= Cardinality(Planners(t))
  <1>1. IsFiniteSet(Inserters(t)') /\ Cardinality(Inserters(t)') <= Cardinality(Inserters(t))
    BY Finite, FS_Subset
  <1>2. Cardinality(Inserters(t)') \in Nat
    BY <1>1, FS_CardinalityType
  <1> QED BY <1>1, <1>2, Finite DEF Counted

LEMMA NextPlanned ==
  ASSUME TypeOK, Local, Planned, [Next]_vars PROVE Planned'
  <1> USE DispatchAssumption DEF DispatchAssumption, TypeOK, Planned, Goto, Proc, Plan
  <1>1. CASE \E d \in Dispatcher : Begin(d)
    BY <1>1 DEF Begin
  <1>2. CASE \E e \in Escalator : Escalate(e)
    BY <1>2 DEF Escalate, local
  <1>3. CASE \E e \in Escalator, policy \in Policies : LoadFallback(e, policy)
    BY <1>3 DEF LoadFallback
  <1>4. CASE \E p \in Proc, t \in Target : Look(p, t)
    BY <1>4 DEF Look
  <1>5. CASE \E p \in Proc, w \in Row : Insert(p, w)
    BY <1>5 DEF Insert
  <1>6. CASE \E p \in Proc, w \in Row : Note(p, w)
    BY <1>6 DEF Note
  <1>7. CASE \E p \in Proc : Queue(p)
    BY <1>7 DEF Queue
  <1>8. CASE \E p \in Proc : Finish(p)
    BY <1>8 DEF Finish, local
  <1>9. CASE \E p \in Proc, place \in {"queued", "failed"} : Forgets(p, place)
    BY <1>9 DEF Forgets, Forget
  <1>10. CASE (\E w \in Row : Deliver(w)) \/ Close \/ UNCHANGED vars
    BY <1>10 DEF Deliver, Close, vars, local
  <1> QED BY <1>1, <1>2, <1>3, <1>4, <1>5, <1>6, <1>7, <1>8, <1>9, <1>10, Steps

LEMMA NextCounted ==
  ASSUME TypeOK, Local, Planned, Counted, [Next]_vars PROVE Counted'
  <1> SUFFICES ASSUME NEW t \in Target
               PROVE  Cardinality(RowsOf(t)') + Cardinality(Inserters(t)') <= Cardinality(Planners(t))
    BY DEF Counted, Planners, Plan
  <1> USE DispatchAssumption DEF DispatchAssumption, TypeOK
  <1>1. ASSUME NEW p \in Proc, NEW s \in Target, Look(p, s), RowsOf(s) = {}, s = t
        PROVE  Cardinality(RowsOf(t)') + Cardinality(Inserters(t)') <= Cardinality(Planners(t))
    <2>1. RowsOf(t)' = {}
      BY <1>1 DEF Look, table, RowsOf
    <2>2. Inserters(t)' \in SUBSET Planners(t)
      BY <1>1 DEF Look, Inserters, Planners, Planned
    <2>3. /\ Cardinality(Inserters(t)') \in Nat
          /\ Cardinality(Inserters(t)') <= Cardinality(Planners(t))
      BY <2>2, Finite, FS_Subset, FS_CardinalityType
    <2> QED BY <2>1, <2>3, FS_EmptySet
  <1>2. ASSUME NEW p \in Proc, NEW s \in Target, Look(p, s), RowsOf(s) # {} \/ s # t
        PROVE  RowsOf(t)' = RowsOf(t) /\ Inserters(t)' \subseteq Inserters(t)
    BY <1>2 DEF Look, table, RowsOf, Inserters
  <1>3. ASSUME NEW p \in Proc, NEW w \in Row, Insert(p, w), looking[p] = t
        PROVE  Cardinality(RowsOf(t)') + Cardinality(Inserters(t)') <= Cardinality(Planners(t))
    <2>1. target[w] = NoTarget
      BY <1>3 DEF Insert, Row
    <2>2. RowsOf(t)' = RowsOf(t) \cup {w} /\ w \notin RowsOf(t)
      BY <1>3, <2>1 DEF Insert, RowsOf
    <2>3. Inserters(t)' = Inserters(t) \ {p} /\ p \in Inserters(t)
      BY <1>3 DEF Insert, Inserters
    <2>4. Cardinality(RowsOf(t)') = Cardinality(RowsOf(t)) + 1
      BY <2>2, Finite, FS_AddElement
    <2>5. Cardinality(Inserters(t)') = Cardinality(Inserters(t)) - 1
      BY <2>3, OneLess
    <2> QED BY <2>4, <2>5, Finite DEF Counted
  <1>4. ASSUME NEW p \in Proc, NEW w \in Row, Insert(p, w), looking[p] # t
        PROVE  RowsOf(t)' = RowsOf(t) /\ Inserters(t)' \subseteq Inserters(t)
    <2>1. target[w] = NoTarget
      BY <1>4 DEF Insert, Row
    <2> QED BY <1>4, <2>1 DEF Insert, RowsOf, Inserters
  <1>5. CASE UNCHANGED target /\ (UNCHANGED looking \/ \E p \in Proc : Forget(p))
    <2>1. RowsOf(t)' = RowsOf(t) /\ Inserters(t)' \subseteq Inserters(t)
      BY <1>5 DEF RowsOf, Inserters, Forget
    <2> QED BY <2>1, NoMore
  <1>6. \/ \E p \in Proc, s \in Target : Look(p, s)
        \/ \E p \in Proc, w \in Row : Insert(p, w)
        \/ UNCHANGED target /\ (UNCHANGED looking \/ \E p \in Proc : Forget(p))
    <2> USE DEF table, local
    <2>1. CASE \/ \E d \in Dispatcher : Begin(d)
               \/ \E e \in Escalator : Escalate(e)
               \/ \E e \in Escalator, policy \in Policies : LoadFallback(e, policy)
      BY <2>1 DEF Begin, Escalate, LoadFallback
    <2>2. CASE \/ \E p \in Proc, w \in Row : Note(p, w)
               \/ \E p \in Proc : Queue(p) \/ Finish(p)
      BY <2>2 DEF Note, Queue, Finish
    <2>3. CASE \E p \in Proc, place \in {"queued", "failed"} : Forgets(p, place)
      BY <2>3 DEF Forgets
    <2>4. CASE (\E w \in Row : Deliver(w)) \/ Close \/ UNCHANGED vars
      BY <2>4 DEF Deliver, Close, vars
    <2> QED BY <2>1, <2>2, <2>3, <2>4, Steps
  <1> QED BY <1>1, <1>2, <1>3, <1>4, <1>5, <1>6, NoMore

\* A message creates at most one row for a target, however often it is delivered
\* and whatever happens in between (_get_or_create_notification, worker.py:1202).
THEOREM MessageCreatesOne == Spec => []OneRowPerMessage
  <1>1. Init => Planned /\ Counted
    <2> SUFFICES ASSUME Init PROVE Planned /\ Counted
      OBVIOUS
    <2>1. Planned
      BY DEF Init, Planned
    <2>2. ASSUME NEW t \in Target PROVE RowsOf(t) = {} /\ Inserters(t) = {}
      BY DispatchAssumption DEF DispatchAssumption, Init, RowsOf, Inserters
    <2>3. Counted
      BY <2>2, Finite, FS_EmptySet DEF Counted
    <2> QED BY <2>1, <2>3
  <1>2. IInv /\ Planned /\ Counted /\ [Next]_vars => Planned' /\ Counted'
    BY NextPlanned, NextCounted DEF IInv
  <1>3. Counted => OneRowPerMessage
    <2> SUFFICES ASSUME Counted, NEW t \in Target
                 PROVE  Cardinality(RowsOf(t)) <= Cardinality(Planners(t))
      BY DEF OneRowPerMessage, RowsOf, Planners
    <2> QED BY Finite DEF Counted
  <1> QED BY Inductive, <1>1, <1>2, <1>3, PTL DEF Spec
==============================================================================
