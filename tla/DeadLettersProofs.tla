--------------------------- MODULE DeadLettersProofs ---------------------------
(***************************************************************************)
(* Proofs about DeadLetters, for every finite set of entries, every number *)
(* of replays and all limits.                                              *)
(***************************************************************************)
EXTENDS DeadLetters, SequenceTheorems, WellFoundedInduction, FiniteSetTheorems, TLAPS

\* What LREM looks for first is there.
LEMMA MinIsLeast ==
  ASSUME NEW T, T \subseteq Nat, T # {}
  PROVE  Min(T) \in T
  <1> DEFINE R == OpToRel(<, Nat)
  <1>1. IsWellFoundedOn(R, Nat)
    BY NatLessThanWellFounded
  <1>2. \A x, y \in Nat : <<x, y>> \in R <=> x < y
    BY DEF OpToRel
  <1> HIDE DEF R
  <1>3. PICK x \in T : \A y \in T : ~ (<<y, x>> \in R)
    BY <1>1, WFMin
  <1>4. ASSUME NEW y \in T PROVE x =< y
    <2>1. x \in Nat /\ y \in Nat /\ ~ (y < x)
      BY <1>2, <1>3
    <2> QED BY <2>1
  <1> QED BY <1>3, <1>4 DEF Min

\* LREM of an entry takes nothing else out of the list and adds nothing to it.
LEMMA Removal ==
  ASSUME NEW S, NEW s \in Seq(S), NEW e
  PROVE  /\ RemoveFirst(s, e) \in Seq(S)
         /\ Len(RemoveFirst(s, e)) <= Len(s)
         /\ \A x : x # e /\ (\E i \in 1 .. Len(s) : s[i] = x)
              => \E j \in 1 .. Len(RemoveFirst(s, e)) : RemoveFirst(s, e)[j] = x
  <1>1. CASE ~ \E i \in 1 .. Len(s) : s[i] = e
    BY <1>1, LenProperties DEF RemoveFirst
  <1>2. CASE \E i \in 1 .. Len(s) : s[i] = e
    <2>1. PICK k \in 1 .. Len(s) : s[k] = e /\ RemoveFirst(s, e) = RemoveAt(s, k)
      <3> DEFINE k == SelectInSeq(s, LAMBDA v : v = e)
      <3> DEFINE I == {i \in 1 .. Len(s) : s[i] = e}
      <3>1. I # {} /\ I \subseteq Nat
        BY <1>2, LenProperties
      <3>2. k = Min(I)
        BY <3>1, Zenon DEF SelectInSeq
      <3>3. k \in I
        BY <3>1, <3>2, MinIsLeast
      <3>4. RemoveFirst(s, e) = RemoveAt(s, k)
        BY <1>2, Zenon DEF RemoveFirst
      <3> QED BY <3>3, <3>4, Zenon
    <2> DEFINE a == SubSeq(s, 1, k - 1)
               b == SubSeq(s, k + 1, Len(s))
    <2>2. Len(s) \in Nat /\ k \in Int /\ k >= 1 /\ k <= Len(s)
      BY LenProperties
    <2>3. /\ a \in Seq(S) /\ Len(a) = k - 1
          /\ \A i \in 1 .. k - 1 : a[i] = s[i]
      BY <2>2, SubSeqProperties
    <2>4. /\ b \in Seq(S) /\ Len(b) = Len(s) - k
          /\ \A i \in 1 .. Len(s) - k : b[i] = s[k + i]
      BY <2>2, SubSeqProperties
    <2> HIDE DEF a, b
    <2>5. /\ a \o b \in Seq(S) /\ Len(a \o b) = Len(s) - 1
          /\ \A i \in 1 .. Len(s) - 1 : (a \o b)[i] = IF i <= k - 1 THEN a[i] ELSE b[i - (k - 1)]
      <3>1. /\ a \o b \in Seq(S) /\ Len(a \o b) = Len(a) + Len(b)
            /\ \A i \in 1 .. Len(a) + Len(b) :
                 (a \o b)[i] = IF i <= Len(a) THEN a[i] ELSE b[i - Len(a)]
        BY <2>3, <2>4, ConcatProperties, Zenon
      <3>2. Len(a) + Len(b) = Len(s) - 1
        BY <2>2, <2>3, <2>4
      <3> QED BY <2>3, <3>1, <3>2, Zenon
    <2>6. RemoveFirst(s, e) = a \o b
      BY <2>1 DEF RemoveAt, a, b
    <2>7. ASSUME NEW x, x # e, NEW i \in 1 .. Len(s), s[i] = x
          PROVE  \E j \in 1 .. Len(a \o b) : (a \o b)[j] = x
      <3>1. CASE i < k
        <4>1. i \in 1 .. Len(a \o b) /\ (a \o b)[i] = x
          BY <2>2, <2>3, <2>5, <2>7, <3>1
        <4> QED BY <4>1
      <3>2. CASE i > k
        <4>1. i - 1 \in 1 .. Len(a \o b) /\ (a \o b)[i - 1] = b[i - k] /\ b[i - k] = x
          BY <2>2, <2>4, <2>5, <2>7, <3>2
        <4> QED BY <4>1
      <3> QED BY <2>1, <2>2, <2>7, <3>1, <3>2
    <2>8. Len(a \o b) <= Len(s)
      BY <2>2, <2>5
    <2> QED BY <2>5, <2>6, <2>7, <2>8, Zenon
  <1> QED BY <1>1, <1>2

\* LTRIM leaves at most MaxItems entries, the newest.
LEMMA Trimming ==
  ASSUME dlq \in Seq(Entry)
  PROVE  /\ Newest(dlq) \in Seq(Entry)
         /\ Len(Newest(dlq)) <= MaxItems
         /\ \A i \in 1 .. Len(dlq) :
              i > Len(dlq) - MaxItems => \E j \in 1 .. Len(Newest(dlq)) : Newest(dlq)[j] = dlq[i]
  <1>0. Len(dlq) \in Nat /\ MaxItems \in Nat /\ MaxItems > 0
    BY LenProperties, DeadLettersAssumption DEF DeadLettersAssumption
  <1>1. CASE Len(dlq) <= MaxItems
    BY <1>0, <1>1 DEF Newest
  <1>2. CASE Len(dlq) > MaxItems
    <2> DEFINE m == Len(dlq) - MaxItems + 1
               t == SubSeq(dlq, m, Len(dlq))
    <2>1. Newest(dlq) = t
      BY <1>0, <1>2 DEF Newest
    <2>2. /\ t \in Seq(Entry) /\ Len(t) = MaxItems
          /\ \A i \in 1 .. MaxItems : t[i] = dlq[m + i - 1]
      BY <1>0, <1>2, SubSeqProperties
    <2> HIDE DEF t
    <2>3. ASSUME NEW i \in 1 .. Len(dlq), i > Len(dlq) - MaxItems
          PROVE  \E j \in 1 .. Len(t) : t[j] = dlq[i]
      <3>1. i - m + 1 \in 1 .. Len(t) /\ t[i - m + 1] = dlq[i]
        BY <1>0, <1>2, <2>2, <2>3
      <3> QED BY <3>1
    <2>4. Len(t) <= MaxItems
      BY <1>0, <2>2
    <2> QED BY <2>1, <2>2, <2>3, <2>4, Zenon
  <1> QED BY <1>0, <1>1, <1>2

\* The head of the batch is an entry, and what comes after it fits as well.
LEMMA Advancing ==
  ASSUME TypeOK, NEW r \in Run, batch[r] # <<>>, Advance(r)
  PROVE  /\ Head(batch[r]) \in Entry
         /\ batch' \in [Run -> Seq(Entry)] /\ \A q \in Run : Len(batch'[q]) <= Batch
  <1>1. batch[r] \in Seq(Entry) /\ Len(batch[r]) <= Batch /\ Batch \in Nat
    BY DeadLettersAssumption DEF TypeOK, DeadLettersAssumption
  <1>2. /\ Head(batch[r]) \in Entry /\ Tail(batch[r]) \in Seq(Entry)
        /\ Len(Tail(batch[r])) = Len(batch[r]) - 1 /\ Len(batch[r]) \in Nat
    BY <1>1, HeadTailProperties, LenProperties
  <1>3. Len(Tail(batch[r])) <= Batch
    BY <1>1, <1>2
  <1> QED BY <1>2, <1>3 DEF TypeOK, Advance

-----------------------------------------------------------------------------
\* A run that is about to remove an entry has delivered it.
Unlisting == \A r \in Run : pc[r] = "unlist" => batch[r] # <<>> /\ Head(batch[r]) \in delivered

\* Each run that works without the key, or is about to delete it without owning
\* it, has lost it to a lapse, or to the DELETE of one that had.
Keyless == {r \in Run : pc[r] \in {"locked", "replaying", "unlist", "deleting"} /\ lockKey # r}
Indebted == IsFiniteSet(Keyless) /\ Cardinality(Keyless) <= lapses

IInv == TypeOK /\ Unlisting /\ Indebted /\ ListBounded

LEMMA InitIInv == Init => IInv
  <1> SUFFICES ASSUME Init PROVE IInv
    OBVIOUS
  <1> USE DeadLettersAssumption DEF DeadLettersAssumption, Init
  <1>1. <<>> \in Seq(Entry) /\ Len(<<>>) = 0
    BY EmptySeq
  <1>b. batch \in [Run -> Seq(Entry)] /\ \A r \in Run : Len(batch[r]) <= Batch
    BY <1>1
  <1>2. TypeOK /\ Unlisting
    <2>1. dlq \in Seq(Entry) /\ faults \in 0 .. MaxFaults /\ lapses \in 0 .. faults
      BY <1>1
    <2>2. /\ push \in [Entry -> {"new", "appended", "over", "in", "orphan"}]
          /\ pc \in [Run -> {"idle", "locked", "replaying", "unlist", "releasing", "deleting"}]
          /\ \A r \in Run : pc[r] # "unlist"
      OBVIOUS
    <2> QED BY <1>b, <2>1, <2>2 DEF TypeOK, Unlisting
  <1>3. Keyless = {} /\ Untrimmed = {}
    BY DEF Keyless, Untrimmed
  <1>4. Indebted
    BY <1>3, FS_EmptySet DEF Indebted
  <1>5. ListBounded
    BY <1>1, <1>3, FS_EmptySet DEF ListBounded
  <1> QED BY <1>2, <1>4, <1>5 DEF IInv

LEMMA NextTyped ==
  ASSUME TypeOK, Unlisting, [Next]_vars PROVE TypeOK'
  <1> USE DeadLettersAssumption DEF DeadLettersAssumption
  <1>1. ASSUME NEW e \in Entry, AppendEntry(e) \/ Measure(e) \/ Trim(e) \/ PushDies(e) PROVE TypeOK'
    <2>1. dlq' \in Seq(Entry)
      <3>1. CASE AppendEntry(e)
        BY <3>1, AppendProperties DEF TypeOK, AppendEntry
      <3>2. CASE Measure(e) \/ Trim(e) \/ PushDies(e)
        BY <3>2, Trimming DEF TypeOK, Measure, Trim, PushDies
      <3> QED BY <1>1, <3>1, <3>2
    <2>2. push' \in [Entry -> {"new", "appended", "over", "in", "orphan"}]
      BY <1>1 DEF TypeOK, AppendEntry, Measure, Trim, PushDies, Settled
    <2> QED BY <1>1, <2>1, <2>2 DEF TypeOK, AppendEntry, Measure, Trim, PushDies, Fault, runs
  <1>2. ASSUME Prune \/ PruneTrims PROVE TypeOK'
    <2>1. dlq' \in Seq(Entry)
      BY <1>2, Trimming DEF TypeOK, Prune, PruneTrims
    <2>2. push' \in [Entry -> {"new", "appended", "over", "in", "orphan"}]
      BY <1>2 DEF TypeOK, Prune, PruneTrims, Settled
    <2> QED BY <1>2, <2>1, <2>2 DEF TypeOK, Prune, PruneTrims, runs
  <1>3. ASSUME NEW r \in Run, Acquire(r) \/ Release(r) \/ Delete(r) PROVE TypeOK'
    BY <1>3 DEF TypeOK, Acquire, Release, Delete, Goto, producer
  <1>4. ASSUME NEW r \in Run, Fetch(r) PROVE TypeOK'
    <2>1. dlq \in Seq(Entry) /\ Len(dlq) \in Nat /\ Batch \in Nat
      BY LenProperties DEF TypeOK
    <2>2. batch'[r] \in Seq(Entry) /\ Len(batch'[r]) <= Batch
      <3>1. CASE Len(dlq) <= Batch
        BY <1>4, <2>1, <3>1 DEF TypeOK, Fetch
      <3>2. CASE Len(dlq) > Batch
        <4>1. SubSeq(dlq, 1, Batch) \in Seq(Entry) /\ Len(SubSeq(dlq, 1, Batch)) = Batch
          BY <2>1, <3>2, SubSeqProperties
        <4> QED BY <1>4, <2>1, <3>2, <4>1 DEF TypeOK, Fetch
      <3> QED BY <2>1, <3>1, <3>2
    <2>3. batch' \in [Run -> Seq(Entry)] /\ \A q \in Run : Len(batch'[q]) <= Batch
      BY <1>4, <2>2 DEF TypeOK, Fetch
    <2> QED BY <1>4, <2>3 DEF TypeOK, Fetch, Goto, producer
  <1>5. ASSUME NEW r \in Run, NEW e \in Entry, Drop(r, e) \/ Skip(r, e) PROVE TypeOK'
    <2>1. batch[r] # <<>> /\ Advance(r)
      BY <1>5 DEF Drop, Skip, AtEntry
    <2>2. dlq' \in Seq(Entry)
      BY <1>5, Removal DEF TypeOK, Drop, Skip
    <2> QED BY <1>5, <2>1, <2>2, Advancing DEF TypeOK, Drop, Skip, producer
  <1>6. ASSUME NEW r \in Run, NEW e \in Entry, Deliver(r, e) PROVE TypeOK'
    BY <1>6 DEF TypeOK, Deliver, Goto, producer
  <1>7. ASSUME NEW r \in Run, Unlist(r) \/ UnlistFails(r) PROVE TypeOK'
    <2>1. batch[r] # <<>> /\ Advance(r)
      BY <1>7 DEF Unlist, UnlistFails, Unlisting
    <2>2. dlq' \in Seq(Entry)
      BY <1>7, Removal DEF TypeOK, Unlist, UnlistFails
    <2>3. batch' \in [Run -> Seq(Entry)] /\ \A q \in Run : Len(batch'[q]) <= Batch
      BY <2>1, Advancing
    <2>4. faults' \in 0 .. MaxFaults /\ lapses' \in 0 .. faults'
      BY <1>7 DEF TypeOK, Unlist, UnlistFails, Fault
    <2> QED BY <1>7, <2>2, <2>3, <2>4 DEF TypeOK, Unlist, UnlistFails, Goto, producer
  <1>8. ASSUME NEW r \in Run, RunDies(r) PROVE TypeOK'
    <2>1. <<>> \in Seq(Entry) /\ Len(<<>>) <= Batch
      BY EmptySeq
    <2>2. batch' \in [Run -> Seq(Entry)] /\ \A q \in Run : Len(batch'[q]) <= Batch
      BY <1>8, <2>1 DEF TypeOK, RunDies
    <2> QED BY <1>8, <2>2 DEF TypeOK, RunDies, Goto, Fault, producer
  <1>9. CASE Expire \/ Lapse \/ UNCHANGED vars
    BY <1>9 DEF TypeOK, Expire, Lapse, Fault, vars, producer, runs
  <1> QED BY <1>1, <1>2, <1>3, <1>4, <1>5, <1>6, <1>7, <1>8, <1>9 DEF Next, Proceed

LEMMA NextUnlisting ==
  ASSUME TypeOK, Unlisting, [Next]_vars PROVE Unlisting'
  <1> USE DEF TypeOK, Unlisting
  <1>1. ASSUME NEW e \in Entry, AppendEntry(e) \/ Measure(e) \/ Trim(e) \/ PushDies(e)
        PROVE  Unlisting'
    BY <1>1 DEF AppendEntry, Measure, Trim, PushDies, runs
  <1>2. ASSUME NEW r \in Run, Acquire(r) \/ Release(r) \/ Delete(r) \/ Fetch(r) \/ RunDies(r)
        PROVE  Unlisting'
    BY <1>2 DEF Acquire, Release, Delete, Fetch, RunDies, Goto
  <1>3. ASSUME NEW r \in Run, NEW e \in Entry, Drop(r, e) \/ Skip(r, e) PROVE Unlisting'
    BY <1>3 DEF Drop, Skip, AtEntry, Advance
  <1>4. ASSUME NEW r \in Run, NEW e \in Entry, Deliver(r, e) PROVE Unlisting'
    BY <1>4 DEF Deliver, AtEntry, Goto
  <1>5. ASSUME NEW r \in Run, Unlist(r) \/ UnlistFails(r) PROVE Unlisting'
    BY <1>5 DEF Unlist, UnlistFails, Advance, Goto
  <1>6. CASE Prune \/ PruneTrims \/ Expire \/ Lapse \/ UNCHANGED vars
    BY <1>6 DEF Prune, PruneTrims, Expire, Lapse, vars, runs
  <1> QED BY <1>1, <1>2, <1>3, <1>4, <1>5, <1>6 DEF Next, Proceed

\* One run more.
LEMMA OneMore ==
  ASSUME NEW S, IsFiniteSet(S), NEW x
  PROVE  IsFiniteSet(S \cup {x}) /\ Cardinality(S \cup {x}) <= Cardinality(S) + 1
  <1>1. Cardinality(S) \in Nat
    BY FS_CardinalityType
  <1> QED BY <1>1, FS_AddElement

-----------------------------------------------------------------------------
\* Only a lapse, or the DELETE of a run without the key, takes the key from a run at
\* work; and that run is no longer without it.
LEMMA NextIndebted ==
  ASSUME TypeOK, Indebted, [Next]_vars PROVE Indebted'
  <1> USE DEF TypeOK
  <1>t. Cardinality(Keyless) \in Nat /\ lapses \in Nat
    BY FS_CardinalityType, DeadLettersAssumption DEF Indebted, DeadLettersAssumption
  <1>k. ASSUME Keyless' \subseteq Keyless, lapses' = lapses PROVE Indebted'
    <2>1. IsFiniteSet(Keyless') /\ Cardinality(Keyless') <= Cardinality(Keyless)
      BY <1>k, FS_Subset DEF Indebted
    <2>2. Cardinality(Keyless') \in Nat
      BY <2>1, FS_CardinalityType
    <2> QED BY <1>k, <1>t, <2>1, <2>2 DEF Indebted
  <1>1. ASSUME NEW e \in Entry, AppendEntry(e) \/ Measure(e) \/ Trim(e) \/ PushDies(e)
        PROVE  Indebted'
    BY <1>1, <1>k DEF AppendEntry, Measure, Trim, PushDies, runs, Keyless
  <1>2. ASSUME NEW r \in Run, Acquire(r) PROVE Indebted'
    BY <1>2, <1>k, DeadLettersAssumption DEF Acquire, Goto, Keyless, DeadLettersAssumption
  <1>3. ASSUME NEW r \in Run, Fetch(r) \/ Release(r) \/ RunDies(r) PROVE Indebted'
    BY <1>3, <1>k DEF Fetch, Release, RunDies, Goto, Keyless
  <1>4. ASSUME NEW r \in Run, Unlist(r) \/ UnlistFails(r) PROVE Indebted'
    BY <1>4, <1>k DEF Unlist, UnlistFails, Goto, Keyless
  <1>5. ASSUME NEW r \in Run, NEW e \in Entry, Drop(r, e) \/ Skip(r, e) \/ Deliver(r, e)
        PROVE  Indebted'
    BY <1>5, <1>k DEF Drop, Skip, Deliver, AtEntry, Goto, Keyless
  <1>6. ASSUME NEW r \in Run, Delete(r) PROVE Indebted'
    <2>1. CASE lockKey = r \/ lockKey = NoRun
      BY <1>6, <1>k, <2>1 DEF Delete, Goto, Keyless
    <2>2. CASE lockKey # r /\ lockKey # NoRun
      <3> DEFINE K == Keyless \ {r}
      <3>1. r \in Keyless /\ Keyless' \subseteq K \cup {lockKey}
        BY <1>6, <2>2 DEF Delete, Goto, Keyless
      <3>2. IsFiniteSet(K) /\ Cardinality(K) = Cardinality(Keyless) - 1
        BY <3>1, FS_RemoveElement DEF Indebted
      <3>3. /\ IsFiniteSet(K \cup {lockKey})
            /\ Cardinality(K \cup {lockKey}) <= Cardinality(K) + 1
        BY <3>2, OneMore
      <3>4. IsFiniteSet(Keyless') /\ Cardinality(Keyless') <= Cardinality(K \cup {lockKey})
        BY <3>1, <3>3, FS_Subset
      <3>5. Cardinality(Keyless') \in Nat /\ Cardinality(K \cup {lockKey}) \in Nat
        BY <3>3, <3>4, FS_CardinalityType
      <3>6. lapses' = lapses
        BY <1>6 DEF Delete
      <3> QED BY <1>t, <3>2, <3>3, <3>4, <3>5, <3>6 DEF Indebted
    <2> QED BY <2>1, <2>2
  <1>7. CASE Lapse
    <2>1. Keyless' \subseteq Keyless \cup {lockKey} /\ lapses' = lapses + 1
      BY <1>7 DEF Lapse, Keyless
    <2>2. /\ IsFiniteSet(Keyless \cup {lockKey})
          /\ Cardinality(Keyless \cup {lockKey}) <= Cardinality(Keyless) + 1
      BY OneMore DEF Indebted
    <2>3. IsFiniteSet(Keyless') /\ Cardinality(Keyless') <= Cardinality(Keyless \cup {lockKey})
      BY <2>1, <2>2, FS_Subset
    <2>4. Cardinality(Keyless') \in Nat /\ Cardinality(Keyless \cup {lockKey}) \in Nat
      BY <2>2, <2>3, FS_CardinalityType
    <2> QED BY <1>t, <2>1, <2>2, <2>3, <2>4 DEF Indebted
  <1>8. CASE Expire
    BY <1>8, <1>k DEF Expire, runs, Keyless
  <1>9. CASE Prune \/ PruneTrims \/ UNCHANGED vars
    BY <1>9, <1>k DEF Prune, PruneTrims, vars, runs, Keyless
  <1> QED BY <1>1, <1>2, <1>3, <1>4, <1>5, <1>6, <1>7, <1>8, <1>9 DEF Next, Proceed

-----------------------------------------------------------------------------
\* A push adds its entry and owes a trim; a trim pays for every push before it.
LEMMA NextBounded ==
  ASSUME TypeOK, TypeOK', Unlisting, ListBounded, [Next]_vars PROVE ListBounded'
  <1>u. IsFiniteSet(Untrimmed) /\ IsFiniteSet(Untrimmed')
    BY FS_Subset, DeadLettersAssumption DEF Untrimmed, DeadLettersAssumption
  <1>t. /\ Cardinality(Untrimmed) \in Nat /\ Cardinality(Untrimmed') \in Nat
        /\ Len(dlq) \in Nat /\ Len(dlq') \in Nat /\ MaxItems \in Nat
    BY <1>u, FS_CardinalityType, LenProperties, DeadLettersAssumption
      DEF TypeOK, DeadLettersAssumption
  <1>k. ASSUME Len(dlq') <= Len(dlq), Untrimmed' = Untrimmed PROVE ListBounded'
    BY <1>k, <1>t DEF ListBounded
  <1>s. ASSUME Len(dlq') <= MaxItems PROVE ListBounded'
    BY <1>s, <1>t DEF ListBounded
  <1>1. ASSUME NEW e \in Entry, AppendEntry(e) PROVE ListBounded'
    <2>1. Untrimmed' = Untrimmed \cup {e} /\ e \notin Untrimmed
      BY <1>1 DEF AppendEntry, Untrimmed, TypeOK
    <2>2. Cardinality(Untrimmed') = Cardinality(Untrimmed) + 1
      BY <1>u, <2>1, FS_AddElement
    <2>3. Len(dlq') = Len(dlq) + 1
      BY <1>1, AppendProperties DEF AppendEntry, TypeOK
    <2> QED BY <1>t, <2>2, <2>3 DEF ListBounded
  <1>2. ASSUME NEW e \in Entry, Measure(e) PROVE ListBounded'
    <2>1. CASE Len(dlq) <= MaxItems
      BY <1>2, <2>1, <1>s DEF Measure
    <2>2. CASE Len(dlq) > MaxItems
      BY <1>2, <2>2, <1>k, <1>t DEF Measure, Untrimmed, TypeOK
    <2> QED BY <1>t, <2>1, <2>2
  <1>3. ASSUME NEW e \in Entry, Trim(e) PROVE ListBounded'
    BY <1>3, <1>s, Trimming DEF Trim, TypeOK
  <1>4. ASSUME NEW e \in Entry, PushDies(e) PROVE ListBounded'
    BY <1>4, <1>k, <1>t DEF PushDies, Untrimmed, TypeOK
  <1>5. CASE PruneTrims
    BY <1>5, <1>s, Trimming DEF PruneTrims, TypeOK
  <1>6. ASSUME NEW r \in Run, NEW e \in Entry, Drop(r, e) PROVE ListBounded'
    <2>1. Len(dlq') <= Len(dlq) /\ push' = push
      BY <1>6, Removal DEF Drop, TypeOK, producer
    <2> QED BY <2>1, <1>k DEF Untrimmed
  <1>7. ASSUME NEW r \in Run, Unlist(r) PROVE ListBounded'
    <2>1. Len(dlq') <= Len(dlq) /\ push' = push
      BY <1>7, Removal DEF Unlist, TypeOK, producer
    <2> QED BY <2>1, <1>k DEF Untrimmed
  <1>8. ASSUME dlq' = dlq, push' = push PROVE ListBounded'
    BY <1>8 DEF ListBounded, Untrimmed
  <1>9. ASSUME NEW r \in Run, NEW e \in Entry, Deliver(r, e) \/ Skip(r, e) PROVE ListBounded'
    BY <1>8, <1>9 DEF Deliver, Skip, producer
  <1>10. ASSUME NEW r \in Run,
                Acquire(r) \/ Fetch(r) \/ Release(r) \/ Delete(r) \/ RunDies(r) \/ UnlistFails(r)
         PROVE  ListBounded'
    BY <1>8, <1>10 DEF Acquire, Fetch, Release, Delete, RunDies, UnlistFails, producer
  <1>11. CASE Prune \/ Expire \/ Lapse \/ UNCHANGED vars
    BY <1>8, <1>11 DEF Prune, Expire, Lapse, vars, producer
  <1> QED
    BY <1>1, <1>2, <1>3, <1>4, <1>5, <1>6, <1>7, <1>9, <1>10, <1>11 DEF Next, Proceed

-----------------------------------------------------------------------------
\* What the theorems below follow from.
THEOREM Inductive == Spec => []IInv
  <1>1. ASSUME IInv, [Next]_vars PROVE IInv'
    BY <1>1, NextTyped, NextUnlisting, NextIndebted, NextBounded DEF IInv
  <1> QED BY InitIInv, <1>1, PTL DEF Spec

\* Every variable keeps its type; no batch is longer than its limit.
THEOREM TypeCorrect == Spec => []TypeOK
  <1> QED BY Inductive, PTL DEF IInv

\* _trim_dlq_to_limit and prune_dlq keep the list to DLQ_MAX_ITEMS, give or take the
\* pushes between their RPUSH and their LTRIM.
THEOREM Bounded == Spec => []ListBounded
  <1> QED BY Inductive, PTL DEF IInv

\* Replays overlap only as often as the key of the lock lapsed, although one that has
\* lost the key may delete its successor's (_release_dlq_replay_lock).
THEOREM Overlaps == Spec => []OverlapBounded
  <1>1. ASSUME IInv PROVE OverlapBounded
    <2>1. Replaying \subseteq Keyless \cup {lockKey}
      BY DEF Replaying, Keyless
    <2>2. /\ IsFiniteSet(Keyless) /\ Cardinality(Keyless) <= lapses
          /\ Cardinality(Keyless) \in Nat /\ lapses \in Nat
      BY <1>1, FS_CardinalityType, DeadLettersAssumption
        DEF IInv, Indebted, TypeOK, DeadLettersAssumption
    <2>3. /\ IsFiniteSet(Keyless \cup {lockKey})
          /\ Cardinality(Keyless \cup {lockKey}) <= Cardinality(Keyless) + 1
      BY <2>2, OneMore
    <2>4. IsFiniteSet(Replaying) /\ Cardinality(Replaying) <= Cardinality(Keyless \cup {lockKey})
      BY <2>1, <2>3, FS_Subset
    <2>5. Cardinality(Replaying) \in Nat /\ Cardinality(Keyless \cup {lockKey}) \in Nat
      BY <2>3, <2>4, FS_CardinalityType
    <2> QED BY <2>2, <2>3, <2>4, <2>5 DEF OverlapBounded
  <1> QED BY Inductive, <1>1, PTL

\* No entry is lost: it is delivered, given up for its error, or too old for the list,
\* however replays, pushes and trims overlap.
THEOREM Leaving == Spec => LeavesForAReason
  <1> DEFINE Left(e) == e \in delivered \cup ClientError \/ \E i \in 1 .. Len(dlq) - MaxItems : dlq[i] = e
  <1>1. ASSUME IInv, [Next]_vars, NEW e \in Entry, Listed(e), ~ Listed(e)' PROVE Left(e)
    <2>1. dlq \in Seq(Entry) /\ Len(dlq) \in Nat /\ MaxItems \in Nat
      BY <1>1, LenProperties, DeadLettersAssumption DEF IInv, TypeOK, DeadLettersAssumption
    <2>2. ASSUME dlq' = dlq PROVE FALSE
      BY <1>1, <2>2 DEF Listed
    <2>3. ASSUME NEW x \in Entry, AppendEntry(x) PROVE FALSE
      <3>1. PICK i \in 1 .. Len(dlq) : dlq[i] = e
        BY <1>1 DEF Listed
      <3>2. i \in 1 .. Len(dlq') /\ dlq'[i] = e
        BY <2>1, <2>3, <3>1, AppendProperties DEF AppendEntry
      <3> QED BY <1>1, <3>2 DEF Listed
    <2>4. ASSUME dlq' = Newest(dlq) PROVE Left(e)
      <3>1. PICK i \in 1 .. Len(dlq) : dlq[i] = e
        BY <1>1 DEF Listed
      <3>2. ~ (i > Len(dlq) - MaxItems)
        BY <1>1, <2>1, <2>4, <3>1, Trimming DEF Listed
      <3> QED BY <2>1, <3>1, <3>2
    <2>5. ASSUME NEW x, dlq' = RemoveFirst(dlq, x), x \in delivered \cup ClientError PROVE Left(e)
      <3>1. e = x
        BY <1>1, <2>1, <2>5, Removal DEF Listed
      <3> QED BY <2>5, <3>1
    <2>6. ASSUME NEW r \in Run, Unlist(r) PROVE Left(e)
      <3>1. Head(batch[r]) \in delivered /\ dlq' = RemoveFirst(dlq, Head(batch[r]))
        BY <1>1, <2>6 DEF IInv, Unlisting, Unlist
      <3> QED BY <2>5, <3>1
    <2>7. ASSUME NEW r \in Run, NEW x \in Entry, Drop(r, x) \/ Deliver(r, x) \/ Skip(r, x)
          PROVE  Left(e)
      BY <2>2, <2>5, <2>7 DEF Drop, Deliver, Skip
    <2>8. ASSUME NEW r \in Run,
                 Acquire(r) \/ Fetch(r) \/ Release(r) \/ Delete(r) \/ RunDies(r) \/ UnlistFails(r)
          PROVE  Left(e)
      BY <2>2, <2>8 DEF Acquire, Fetch, Release, Delete, RunDies, UnlistFails
    <2>9. ASSUME NEW x \in Entry, AppendEntry(x) \/ Measure(x) \/ Trim(x) \/ PushDies(x)
          PROVE  Left(e)
      BY <2>2, <2>3, <2>4, <2>9 DEF Measure, Trim, PushDies
    <2>10. CASE Prune \/ PruneTrims \/ Expire \/ Lapse \/ UNCHANGED vars
      BY <2>2, <2>4, <2>10 DEF Prune, PruneTrims, Expire, Lapse, vars
    <2> HIDE DEF Left
    <2> QED BY <1>1, <2>6, <2>7, <2>8, <2>9, <2>10 DEF Next, Proceed
  <1>2. ASSUME IInv, [Next]_vars
        PROVE  [\A e \in Entry :
                  Listed(e) /\ ~ Listed(e)' =>
                    \/ e \in delivered \cup ClientError
                    \/ \E i \in 1 .. Len(dlq) - MaxItems : dlq[i] = e]_vars
    BY <1>1, <1>2
  <1> QED BY Inductive, <1>2, PTL DEF Spec, LeavesForAReason
==============================================================================
