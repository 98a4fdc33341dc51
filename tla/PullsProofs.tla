------------------------------ MODULE PullsProofs ------------------------------
(***************************************************************************)
(* Proofs about SentryPull and LangfusePull, for every number of issues,   *)
(* projects, observations and runs, every limit and any number of faults.  *)
(***************************************************************************)
EXTENDS Pulls, FiniteSetTheorems, WellFoundedInduction, TLAPS

(***************************************************************************)
(* SentryPull.  An active run vouches for the issues up to the cursor it   *)
(* has read, and for those of the projects it has asked, but for what it   *)
(* has yet to look at.                                                     *)
(***************************************************************************)
Known(i) == i \in ingested \/ Sentry!Excused(i)

Vouched(r) ==
  Sentry!Active(r) =>
    /\ \A i \in 1 .. lastSeen[r] : Known(i)
    /\ \A i \in 1 .. created : ProjectOf[i] <= asked[r] => Known(i) \/ i \in todo[r]

SentryInv ==
  Sentry!TypeOK /\ (\A r \in Run : Vouched(r)) /\ Sentry!PassedForAReason

(***************************************************************************)
(* LangfusePull.  A run that is about to ask vouches for the faulty        *)
(* observations before its window, one that has asked for those that       *)
(* started before it did, but for what it has yet to ingest.               *)
(***************************************************************************)
Settled(o) == o \in ingested \/ Langfuse!Excused(o)

Answered(r) ==
  \A o \in filed \cap Faulty :
    /\ pc[r] = "asking" /\ At[o] < from[r] => Settled(o)
    /\ pc[r] = "ingesting" /\ At[o] < began[r] => Settled(o) \/ o \in faulty[r]

LangfuseInv ==
  Langfuse!TypeOK /\ (\A r \in Run : Answered(r)) /\ Langfuse!PassedForAReason

IInv ==
  /\ worker \in {"sentry", "langfuse"}
  /\ worker = "sentry" => SentryInv
  /\ worker = "langfuse" => LangfuseInv

-----------------------------------------------------------------------------
LEMMA Constants ==
  /\ MaxIssue \in Nat /\ Projects \in Nat \ {0} /\ ProjectOf \in [1 .. MaxIssue -> 1 .. Projects]
  /\ Limit \in Nat \ {0} /\ MaxFaults \in Nat
  /\ IsFiniteSet(Observation) /\ Faulty \subseteq Observation
  /\ Interval \in Nat \ {0} /\ MaxTime \in Nat /\ At \in [Observation -> 0 .. MaxTime]
  <1>1. Sentry!SentryPullAssumption /\ Langfuse!LangfusePullAssumption
    BY PullsAssumption DEF PullsAssumption
  <1>2. /\ MaxIssue \in Nat /\ Projects \in Nat \ {0} /\ ProjectOf \in [1 .. MaxIssue -> 1 .. Projects]
        /\ Limit \in Nat \ {0} /\ MaxFaults \in Nat
    BY <1>1 DEF Sentry!SentryPullAssumption, Sentry!Issue
  <1>3. /\ IsFiniteSet(Observation) /\ Faulty \subseteq Observation
        /\ Interval \in Nat \ {0} /\ MaxTime \in Nat /\ At \in [Observation -> 0 .. MaxTime]
    BY <1>1 DEF Langfuse!LangfusePullAssumption, Langfuse!IsFiniteSet, IsFiniteSet
  <1> QED BY <1>2, <1>3

\* LangfusePull names its sizes through its own FiniteSets.
LEMMA SameSize == \A S : Langfuse!Cardinality(S) = Cardinality(S)
  BY DEF Langfuse!Cardinality, Cardinality

\* A set of natural numbers that is not empty contains its least element.
LEMMA MinIsMember ==
  ASSUME NEW T \in SUBSET Nat, T # {}
  PROVE  Sentry!Min(T) \in T
  <1> DEFINE R == OpToRel(<, Nat)
  <1>1. IsWellFoundedOn(R, Nat)
    BY NatLessThanWellFounded
  <1>2. \A x, y \in Nat : <<x, y>> \in R <=> x < y
    BY DEF OpToRel
  <1> HIDE DEF R
  <1>3. PICK x \in T : \A y \in T : ~ (<<y, x>> \in R)
    BY <1>1, WFMin
  <1>4. ASSUME NEW y \in T PROVE x =< y
    <2>1. x \in Nat /\ y \in Nat /\ ~ (y < x)
      BY <1>2, <1>3
    <2> QED BY <2>1
  <1> QED BY <1>3, <1>4 DEF Sentry!Min

LEMMA MaxOfTwo ==
  ASSUME NEW a \in Nat, NEW b \in Nat
  PROVE  Sentry!Max({a, b}) = IF a >= b THEN a ELSE b
  BY DEF Sentry!Max

-----------------------------------------------------------------------------
(***************************************************************************)
(* The steps of SentryPull.                                                *)
(***************************************************************************)
LEMMA SentryInit == Sentry!Init => SentryInv
  BY Constants
  DEF Sentry!Init, SentryInv, Sentry!TypeOK, Vouched, Sentry!Active, Sentry!Idle, Sentry!PassedForAReason

\* What a run may do, one action after the other.
LEMMA SentrySteps ==
  ASSUME [Sentry!Next]_(Sentry!vars)
  PROVE  \/ Sentry!Create
         \/ \E r \in Run : Sentry!Start(r)
         \/ \E r \in Run, S \in SUBSET (1 .. created) : Sentry!Ask(r, S)
         \/ \E r \in Run : Sentry!LookAt(r)
         \/ \E r \in Run : Sentry!Finish(r)
         \/ \E r \in Run : Sentry!Fail(r)
         \/ UNCHANGED Sentry!vars
  BY DEF Sentry!Next, Sentry!Proceed

\* The issue that a run looks at next.
LEMMA NextIssue ==
  ASSUME Sentry!TypeOK, NEW r \in Run, todo[r] # {}
  PROVE  Sentry!Min(todo[r]) \in todo[r] /\ Sentry!Min(todo[r]) \in 1 .. created
  <1>1. todo[r] \subseteq 1 .. created /\ todo[r] \in SUBSET Nat
    BY Constants DEF Sentry!TypeOK
  <1> QED BY <1>1, MinIsMember

LEMMA SentryTyped ==
  ASSUME Sentry!TypeOK, [Sentry!Next]_(Sentry!vars) PROVE Sentry!TypeOK'
  <1> USE Constants DEF Sentry!TypeOK, Sentry!Idle, Sentry!Leave, Sentry!run, Sentry!history
  <1>1. CASE Sentry!Create
    BY <1>1 DEF Sentry!Create
  <1>2. ASSUME NEW r \in Run, Sentry!Start(r) PROVE Sentry!TypeOK'
    <2>1. asked' \in [Run -> {-1} \cup 0 .. Projects] /\ lastSeen' \in [Run -> 0 .. created]
      BY <1>2 DEF Sentry!Start
    <2>2. maxSeen' \in [Run -> 0 .. created] /\ \A q \in Run : lastSeen'[q] <= maxSeen'[q]
      BY <1>2 DEF Sentry!Start
    <2>3. \A q \in Run : todo'[q] # {} => asked'[q] > 0
      BY <1>2 DEF Sentry!Start, Sentry!Active
    <2> QED BY <1>2, <2>1, <2>2, <2>3 DEF Sentry!Start
  <1>3. ASSUME NEW r \in Run, NEW S \in SUBSET (1 .. created), Sentry!Ask(r, S) PROVE Sentry!TypeOK'
    <2>1. asked' \in [Run -> {-1} \cup 0 .. Projects] /\ todo' \in [Run -> SUBSET (1 .. created)]
      BY <1>3 DEF Sentry!Ask, Sentry!Active
    <2>2. \A q \in Run : todo'[q] # {} => asked'[q] > 0
      BY <1>3 DEF Sentry!Ask, Sentry!Active
    <2>3. crowded' \subseteq 1 .. created
      BY <1>3 DEF Sentry!Ask
    <2>4. UNCHANGED <<created, cursor, lastSeen, maxSeen, ingested, unseen, faults>>
      BY <1>3 DEF Sentry!Ask
    <2> QED BY <2>1, <2>2, <2>3, <2>4
  <1>4. ASSUME NEW r \in Run, Sentry!LookAt(r) PROVE Sentry!TypeOK'
    <2> DEFINE i == Sentry!Min(todo[r])
    <2>1. i \in 1 .. created
      BY <1>4, NextIssue DEF Sentry!LookAt
    <2>2. /\ todo' = [todo EXCEPT ![r] = @ \ {i}]
          /\ \/ ingested' = ingested \cup {i} /\ maxSeen' = [maxSeen EXCEPT ![r] = Sentry!Max({@, i})]
             \/ UNCHANGED <<ingested, maxSeen>>
          /\ UNCHANGED <<created, cursor, asked, lastSeen, unseen, crowded, faults>>
      BY <1>4 DEF Sentry!LookAt
    <2> HIDE DEF i
    <2>3. Sentry!Max({maxSeen[r], i}) \in {maxSeen[r], i} /\ Sentry!Max({maxSeen[r], i}) >= maxSeen[r]
      <3>1. maxSeen[r] \in Nat /\ i \in Nat
        BY <2>1
      <3>2. Sentry!Max({maxSeen[r], i}) = IF maxSeen[r] >= i THEN maxSeen[r] ELSE i
        BY <3>1, MaxOfTwo
      <3> QED BY <3>1, <3>2
    <2>4. maxSeen' \in [Run -> 0 .. created] /\ \A q \in Run : lastSeen[q] <= maxSeen'[q]
      <3>1. CASE UNCHANGED maxSeen
        BY <3>1
      <3>2. CASE maxSeen' = [maxSeen EXCEPT ![r] = Sentry!Max({@, i})]
        <4> DEFINE m == Sentry!Max({maxSeen[r], i})
        <4>1. maxSeen' = [maxSeen EXCEPT ![r] = m]
          BY <3>2
        <4>2. m \in 0 .. created /\ m >= maxSeen[r]
          BY <2>1, <2>3
        <4> HIDE DEF m
        <4> QED BY <4>1, <4>2
      <3> QED BY <2>2, <3>1, <3>2
    <2> QED BY <2>1, <2>2, <2>4
  <1>5. ASSUME NEW r \in Run, Sentry!Finish(r) PROVE Sentry!TypeOK'
    BY <1>5 DEF Sentry!Finish
  <1>6. ASSUME NEW r \in Run, Sentry!Fail(r) PROVE Sentry!TypeOK'
    BY <1>6 DEF Sentry!Fail
  <1>7. CASE UNCHANGED Sentry!vars
    BY <1>7 DEF Sentry!vars
  <1> QED BY <1>1, <1>2, <1>3, <1>4, <1>5, <1>6, <1>7, SentrySteps

\* What is known of an issue is not forgotten.
LEMMA KnownStays ==
  ASSUME ingested \subseteq ingested', unseen \subseteq unseen', crowded \subseteq crowded',
         NEW i, Known(i)
  PROVE  Known(i)'
  BY DEF Known, Sentry!Excused

\* Runs vouch for what they pass: a run that begins for what the cursor passed,
\* one that has asked another project for the answer and for what was left out
\* of it, and a run that ends for all issues.
LEMMA SentrySafe ==
  ASSUME SentryInv, [Sentry!Next]_(Sentry!vars)
  PROVE  (\A q \in Run : Vouched(q)') /\ Sentry!PassedForAReason'
  <1> USE Constants DEF Sentry!Idle, Sentry!run, Sentry!history, Sentry!Active, Sentry!PassedForAReason
  <1>0. Sentry!TypeOK /\ (\A q \in Run : Vouched(q)) /\ Sentry!PassedForAReason
    BY DEF SentryInv
  <1> USE DEF Sentry!TypeOK
  <1>p. \A i \in 1 .. cursor : Known(i)
    BY <1>0 DEF Known
  <1>q. ASSUME \A i \in 1 .. cursor' : Known(i)'
        PROVE  Sentry!PassedForAReason'
    BY <1>q DEF Known
  <1>1. ASSUME Sentry!Create
        PROVE  (\A q \in Run : Vouched(q)') /\ Sentry!PassedForAReason'
    <2>1. /\ created' = created + 1 /\ created < MaxIssue
          /\ UNCHANGED <<cursor, asked, lastSeen, todo, ingested, crowded>>
          /\ unseen \subseteq unseen'
          /\ (\E r \in Run : asked[r] # -1 /\ asked[r] >= ProjectOf[created + 1]) => created + 1 \in unseen'
      BY <1>1 DEF Sentry!Create
    <2>2. \A i : Known(i) => Known(i)'
      BY <2>1, KnownStays
    <2>3. ASSUME NEW q \in Run PROVE Vouched(q)'
      <3>1. SUFFICES ASSUME asked[q] # -1
                     PROVE  /\ \A i \in 1 .. lastSeen[q] : Known(i)'
                            /\ \A i \in 1 .. created + 1 : ProjectOf[i] <= asked[q] => Known(i)' \/ i \in todo[q]
        BY <2>1 DEF Vouched
      <3>2. \A i \in 1 .. lastSeen[q] : Known(i)'
        BY <1>0, <2>2, <3>1 DEF Vouched
      <3>3. ASSUME NEW i \in 1 .. created + 1, ProjectOf[i] <= asked[q]
            PROVE  Known(i)' \/ i \in todo[q]
        <4>1. CASE i = created + 1
          <5>1. i \in unseen'
            BY <1>0, <2>1, <3>1, <3>3, <4>1
          <5> QED BY <5>1 DEF Known, Sentry!Excused
        <4>2. CASE i \in 1 .. created
          BY <1>0, <2>2, <3>1, <3>3, <4>2 DEF Vouched
        <4> QED BY <1>0, <4>1, <4>2
      <3> QED BY <3>2, <3>3
    <2>4. \A i \in 1 .. cursor' : Known(i)'
      BY <1>p, <2>1, <2>2
    <2> QED BY <1>q, <2>3, <2>4
  <1>2. ASSUME NEW r \in Run, Sentry!Start(r)
        PROVE  (\A q \in Run : Vouched(q)') /\ Sentry!PassedForAReason'
    <2>1. /\ UNCHANGED <<created, cursor, todo, ingested, unseen, crowded>>
          /\ asked' = [asked EXCEPT ![r] = 0] /\ lastSeen' = [lastSeen EXCEPT ![r] = cursor]
      BY <1>2 DEF Sentry!Start
    <2>2. \A i : Known(i) => Known(i)'
      BY <2>1, KnownStays
    <2>3. Vouched(r)'
      <3>1. asked'[r] = 0 /\ lastSeen'[r] = cursor
        BY <1>0, <2>1
      <3>2. \A i \in 1 .. created : ~ (ProjectOf[i] <= 0)
        BY <1>0
      <3> QED BY <1>p, <2>1, <2>2, <3>1, <3>2 DEF Vouched
    <2>4. ASSUME NEW q \in Run, q # r PROVE Vouched(q)'
      <3>1. UNCHANGED <<asked[q], lastSeen[q], todo[q], created>>
        BY <1>0, <2>1, <2>4
      <3> QED BY <1>0, <2>2, <3>1 DEF Vouched
    <2>5. \A i \in 1 .. cursor' : Known(i)'
      BY <1>p, <2>1, <2>2
    <2> QED BY <1>q, <2>3, <2>4, <2>5
  <1>3. ASSUME NEW r \in Run, NEW S \in SUBSET (1 .. created), Sentry!Ask(r, S)
        PROVE  (\A q \in Run : Vouched(q)') /\ Sentry!PassedForAReason'
    <2>1. /\ UNCHANGED <<created, cursor, lastSeen, ingested, unseen>>
          /\ asked[r] # -1 /\ todo[r] = {}
          /\ asked' = [asked EXCEPT ![r] = @ + 1] /\ todo' = [todo EXCEPT ![r] = S]
          /\ crowded' = crowded \cup ({i \in 1 .. created : ProjectOf[i] = asked[r] + 1} \ S)
      BY <1>3 DEF Sentry!Ask
    <2>2. \A i : Known(i) => Known(i)'
      BY <2>1, KnownStays
    <2>3. Vouched(r)'
      <3>1. asked'[r] = asked[r] + 1 /\ todo'[r] = S
        BY <1>0, <2>1
      <3>2. ASSUME NEW i \in 1 .. created, ProjectOf[i] <= asked[r] + 1
            PROVE  Known(i)' \/ i \in S
        <4>1. CASE ProjectOf[i] <= asked[r]
          BY <1>0, <2>1, <2>2, <4>1 DEF Vouched
        <4>2. CASE ProjectOf[i] = asked[r] + 1
          BY <2>1, <4>2 DEF Known, Sentry!Excused
        <4>3. ProjectOf[i] \in Nat /\ asked[r] \in Int
          BY <1>0
        <4> QED BY <3>2, <4>1, <4>2, <4>3
      <3>3. \A i \in 1 .. lastSeen[r] : Known(i)'
        BY <1>0, <2>1, <2>2 DEF Vouched
      <3> QED BY <2>1, <3>1, <3>2, <3>3 DEF Vouched
    <2>4. ASSUME NEW q \in Run, q # r PROVE Vouched(q)'
      <3>1. UNCHANGED <<asked[q], lastSeen[q], todo[q], created>>
        BY <1>0, <2>1, <2>4
      <3> QED BY <1>0, <2>2, <3>1 DEF Vouched
    <2>5. \A i \in 1 .. cursor' : Known(i)'
      BY <1>p, <2>1, <2>2
    <2> QED BY <1>q, <2>3, <2>4, <2>5
  <1>4. ASSUME NEW r \in Run, Sentry!LookAt(r)
        PROVE  (\A q \in Run : Vouched(q)') /\ Sentry!PassedForAReason'
    <2>0. PICK i \in 1 .. created : i = Sentry!Min(todo[r]) /\ i \in todo[r]
      BY <1>0, <1>4, NextIssue DEF Sentry!LookAt
    <2>1. /\ UNCHANGED <<created, cursor, asked, lastSeen, unseen, crowded>>
          /\ todo' = [todo EXCEPT ![r] = @ \ {i}]
          /\ ingested \subseteq ingested'
          /\ i > lastSeen[r] => i \in ingested'
      BY <1>4, <2>0 DEF Sentry!LookAt
    <2>2. \A j : Known(j) => Known(j)'
      BY <2>1, KnownStays
    <2>3. Vouched(r)'
      <3>1. SUFFICES ASSUME asked[r] # -1
                     PROVE  /\ \A j \in 1 .. lastSeen[r] : Known(j)'
                            /\ \A j \in 1 .. created : ProjectOf[j] <= asked[r] => Known(j)' \/ j \in todo'[r]
        BY <2>1 DEF Vouched
      <3>2. \A j \in 1 .. lastSeen[r] : Known(j)'
        BY <1>0, <2>2, <3>1 DEF Vouched
      <3>3. Known(i)'
        <4>1. CASE i > lastSeen[r]
          BY <2>1, <4>1 DEF Known
        <4>2. CASE ~ (i > lastSeen[r])
          BY <1>0, <2>0, <3>2, <4>2
        <4> QED BY <4>1, <4>2
      <3>4. \A j : j \in todo[r] => j = i \/ j \in todo'[r]
        BY <1>0, <2>1
      <3> QED BY <1>0, <2>2, <3>1, <3>2, <3>3, <3>4 DEF Vouched
    <2>4. ASSUME NEW q \in Run, q # r PROVE Vouched(q)'
      <3>1. UNCHANGED <<asked[q], lastSeen[q], todo[q], created>>
        BY <1>0, <2>1, <2>4
      <3> QED BY <1>0, <2>2, <3>1 DEF Vouched
    <2>5. \A j \in 1 .. cursor' : Known(j)'
      BY <1>p, <2>1, <2>2
    <2> QED BY <1>q, <2>3, <2>4, <2>5
  <1>5. ASSUME NEW r \in Run, Sentry!Leave(r), UNCHANGED <<created, ingested, unseen, crowded>>,
               \/ UNCHANGED cursor
               \/ asked[r] = Projects /\ todo[r] = {} /\ cursor' = maxSeen[r]
        PROVE  (\A q \in Run : Vouched(q)') /\ Sentry!PassedForAReason'
    <2>2. \A j : Known(j) => Known(j)'
      BY <1>5, KnownStays
    <2>3. Vouched(r)'
      BY <1>0, <1>5 DEF Vouched, Sentry!Leave
    <2>4. ASSUME NEW q \in Run, q # r PROVE Vouched(q)'
      <3>1. UNCHANGED <<asked[q], lastSeen[q], todo[q], created>>
        BY <1>0, <1>5, <2>4 DEF Sentry!Leave
      <3> QED BY <1>0, <2>2, <3>1 DEF Vouched
    <2>5. \A j \in 1 .. cursor' : Known(j)'
      <3>1. CASE UNCHANGED cursor
        BY <1>p, <2>2, <3>1
      <3>2. CASE asked[r] = Projects /\ todo[r] = {} /\ cursor' = maxSeen[r]
        <4>1. \A j \in 1 .. created : ProjectOf[j] <= asked[r]
          BY <1>0, <3>2
        <4>2. asked[r] # -1 /\ maxSeen[r] <= created
          BY <1>0, <3>2
        <4>3. \A j \in 1 .. created : Known(j)
          BY <1>0, <3>2, <4>1, <4>2 DEF Vouched
        <4> QED BY <1>0, <2>2, <3>2, <4>2, <4>3
      <3> QED BY <1>5, <3>1, <3>2
    <2> QED BY <1>q, <2>3, <2>4, <2>5
  <1>6. ASSUME UNCHANGED Sentry!vars
        PROVE  (\A q \in Run : Vouched(q)') /\ Sentry!PassedForAReason'
    BY <1>0, <1>6 DEF Sentry!vars, Vouched, Known, Sentry!Excused
  <1>7. ASSUME NEW r \in Run, Sentry!Finish(r) \/ Sentry!Fail(r)
        PROVE  (\A q \in Run : Vouched(q)') /\ Sentry!PassedForAReason'
    BY <1>5, <1>7 DEF Sentry!Finish, Sentry!Fail
  <1> QED BY <1>1, <1>2, <1>3, <1>4, <1>6, <1>7, SentrySteps

-----------------------------------------------------------------------------
(***************************************************************************)
(* The steps of LangfusePull.                                              *)
(***************************************************************************)
LEMMA LangfuseInit == Langfuse!Init => LangfuseInv
  BY Constants
  DEF Langfuse!Init, LangfuseInv, Langfuse!TypeOK, Answered, Langfuse!PassedForAReason, Langfuse!Unset

LEMMA LangfuseSteps ==
  ASSUME [Langfuse!Next]_(Langfuse!vars)
  PROVE  \/ Langfuse!Tick
         \/ \E o \in Observation : Langfuse!File(o)
         \/ \E r \in Run : Langfuse!Begin(r)
         \/ \E r \in Run, page \in SUBSET filed : Langfuse!Ask(r, page)
         \/ \E r \in Run, o \in Faulty : Langfuse!IngestOne(r, o)
         \/ \E r \in Run : Langfuse!SaveSince(r)
         \/ \E r \in Run : Langfuse!Abort(r)
         \/ UNCHANGED Langfuse!vars
  BY DEF Langfuse!Next, Langfuse!Proceed

\* A part of a finite set of observations is no larger than the set.
LEMMA PartIsSmaller ==
  ASSUME NEW S \in SUBSET Observation, NEW T \in SUBSET S
  PROVE  Langfuse!Cardinality(T) <= Langfuse!Cardinality(S) /\ Langfuse!Cardinality(S) \in Nat
  <1>1. IsFiniteSet(S)
    BY Constants, FS_Subset
  <1>2. IsFiniteSet(T) /\ Cardinality(T) <= Cardinality(S) /\ Cardinality(S) \in Nat
    BY <1>1, FS_Subset, FS_CardinalityType
  <1> QED BY <1>2, SameSize

LEMMA LangfuseTyped ==
  ASSUME Langfuse!TypeOK, [Langfuse!Next]_(Langfuse!vars) PROVE Langfuse!TypeOK'
  <1> USE Constants DEF Langfuse!TypeOK, Langfuse!Unset, Langfuse!run, Langfuse!history
  <1>1. CASE Langfuse!Tick
    <2>1. filed \subseteq {o \in Observation : At[o] <= clock + 1}
      BY DEF Langfuse!TypeOK
    <2>2. began \in [Run -> 0 .. clock + 1] /\ from \in [Run -> -Interval .. clock + 1]
      BY DEF Langfuse!TypeOK
    <2>3. since \in {-1} \cup 0 .. clock + 1 /\ clock + 1 \in 0 .. MaxTime
      BY <1>1 DEF Langfuse!Tick
    <2> QED BY <1>1, <2>1, <2>2, <2>3 DEF Langfuse!Tick
  <1>2. ASSUME NEW o \in Observation, Langfuse!File(o) PROVE Langfuse!TypeOK'
    <2>1. /\ o \notin filed /\ At[o] <= clock /\ filed' = filed \cup {o}
          /\ late' = late \/ (o \in Faulty /\ late' = late \cup {o})
          /\ UNCHANGED <<clock, since, pc, began, from, faulty, ingested, crowded, early, faults>>
      BY <1>2 DEF Langfuse!File
    <2>2. faulty \in [Run -> SUBSET (filed' \cap Faulty)]
      BY <2>1
    <2>3. late' \subseteq filed' \cap Faulty
      BY <2>1
    <2> QED BY <2>1, <2>2, <2>3
  <1>3. ASSUME NEW r \in Run, Langfuse!Begin(r) PROVE Langfuse!TypeOK'
    <2>1. PICK back \in -Interval .. clock :
            /\ from' = [from EXCEPT ![r] = back]
            /\ early' = early \/ early' = early \cup {o \in filed \cap Faulty : At[o] < back}
      <3> DEFINE b == IF since = -1 THEN clock - Interval ELSE since
      <3>1. /\ from' = [from EXCEPT ![r] = b]
            /\ early' = early \/ early' = early \cup {o \in filed \cap Faulty : At[o] < b}
        BY <1>3 DEF Langfuse!Begin
      <3>2. b \in -Interval .. clock
        OBVIOUS
      <3> HIDE DEF b
      <3> QED BY <3>1, <3>2
    <2>2. /\ pc[r] = "idle" /\ pc' = [pc EXCEPT ![r] = "asking"] /\ began' = [began EXCEPT ![r] = clock]
          /\ UNCHANGED <<clock, filed, since, faulty, ingested, late, crowded, faults>>
      BY <1>3 DEF Langfuse!Begin
    <2>3. /\ pc' \in [Run -> {"idle", "asking", "ingesting"}]
          /\ began' \in [Run -> 0 .. clock] /\ from' \in [Run -> -Interval .. clock]
      BY <2>1, <2>2
    <2>4. \A q \in Run : faulty[q] # {} => pc'[q] = "ingesting"
      BY <2>2
    <2>5. early' \subseteq filed \cap Faulty
      BY <2>1
    <2> QED BY <2>2, <2>3, <2>4, <2>5
  <1>4. ASSUME NEW r \in Run, NEW page \in SUBSET filed, Langfuse!Ask(r, page) PROVE Langfuse!TypeOK'
    <2> DEFINE kept == page \cap Faulty
    <2>1. /\ pc' = [pc EXCEPT ![r] = "ingesting"] /\ faulty' = [faulty EXCEPT ![r] = kept]
          /\ crowded' = crowded \cup (({o \in filed : At[o] >= from[r]} \ page) \cap Faulty)
          /\ Langfuse!Cardinality(page) <= Limit
          /\ UNCHANGED <<clock, filed, since, began, from, ingested, late, early, faults>>
      BY <1>4 DEF Langfuse!Ask
    <2>2. Langfuse!Cardinality(kept) <= Limit
      <3>1. page \in SUBSET Observation
        OBVIOUS
      <3>2. /\ Langfuse!Cardinality(kept) <= Langfuse!Cardinality(page)
            /\ Langfuse!Cardinality(page) \in Nat /\ Langfuse!Cardinality(kept) \in Nat
        BY <3>1, PartIsSmaller
      <3> QED BY <2>1, <3>2
    <2>3. kept \in SUBSET (filed \cap Faulty)
      OBVIOUS
    <2> HIDE DEF kept
    <2>4. pc' \in [Run -> {"idle", "asking", "ingesting"}] /\ faulty' \in [Run -> SUBSET (filed \cap Faulty)]
      BY <2>1, <2>3
    <2>5. \A q \in Run : faulty'[q] # {} => pc'[q] = "ingesting" /\ Langfuse!Cardinality(faulty'[q]) <= Limit
      BY <2>1, <2>2
    <2>6. crowded' \subseteq filed \cap Faulty
      BY <2>1
    <2> QED BY <2>1, <2>4, <2>5, <2>6
  <1>5. ASSUME NEW r \in Run, NEW o \in Faulty, Langfuse!IngestOne(r, o) PROVE Langfuse!TypeOK'
    <2> DEFINE rest == faulty[r] \ {o}
    <2>1. /\ o \in faulty[r] /\ ingested' = ingested \cup {o} /\ faulty' = [faulty EXCEPT ![r] = rest]
          /\ UNCHANGED <<clock, filed, since, pc, began, from, late, crowded, early, faults>>
      BY <1>5 DEF Langfuse!IngestOne
    <2>2. Langfuse!Cardinality(rest) <= Limit
      <3>1. faulty[r] \in SUBSET Observation
        OBVIOUS
      <3>2. /\ Langfuse!Cardinality(rest) <= Langfuse!Cardinality(faulty[r])
            /\ Langfuse!Cardinality(faulty[r]) \in Nat /\ Langfuse!Cardinality(rest) \in Nat
        BY <3>1, PartIsSmaller
      <3>3. Langfuse!Cardinality(faulty[r]) <= Limit
        BY <2>1
      <3> QED BY <3>2, <3>3
    <2>3. rest \in SUBSET (filed \cap Faulty) /\ o \in filed \cap Faulty
      BY <2>1
    <2>4. pc[r] = "ingesting"
      BY <2>1
    <2> HIDE DEF rest
    <2>5. faulty' \in [Run -> SUBSET (filed \cap Faulty)]
      BY <2>1, <2>3
    <2>6. \A q \in Run : faulty'[q] # {} => pc[q] = "ingesting" /\ Langfuse!Cardinality(faulty'[q]) <= Limit
      BY <2>1, <2>2, <2>4
    <2> QED BY <2>1, <2>3, <2>5, <2>6
  <1>6. ASSUME NEW r \in Run, Langfuse!Leave(r), UNCHANGED <<clock, filed, ingested, late, crowded, early>>,
               since' = since \/ since' = began[r],
               faults' \in 0 .. MaxFaults
        PROVE  Langfuse!TypeOK'
    <2>1. /\ pc' \in [Run -> {"idle", "asking", "ingesting"}] /\ faulty' \in [Run -> SUBSET (filed \cap Faulty)]
          /\ began' \in [Run -> 0 .. clock] /\ from' \in [Run -> -Interval .. clock]
      BY <1>6 DEF Langfuse!Leave
    <2>2. \A q \in Run : faulty'[q] # {} => pc'[q] = "ingesting" /\ Langfuse!Cardinality(faulty'[q]) <= Limit
      BY <1>6 DEF Langfuse!Leave
    <2>3. since' \in {-1} \cup 0 .. clock
      BY <1>6
    <2> QED BY <1>6, <2>1, <2>2, <2>3
  <1>7. CASE UNCHANGED Langfuse!vars
    BY <1>7 DEF Langfuse!vars
  <1>8. ASSUME NEW r \in Run, Langfuse!SaveSince(r) \/ Langfuse!Abort(r) PROVE Langfuse!TypeOK'
    <2>1. faults' \in 0 .. MaxFaults
      BY <1>8 DEF Langfuse!SaveSince, Langfuse!Abort
    <2> QED BY <1>6, <1>8, <2>1 DEF Langfuse!SaveSince, Langfuse!Abort
  <1> QED BY <1>1, <1>2, <1>3, <1>4, <1>5, <1>7, <1>8, LangfuseSteps

\* A run that begins vouches for what the cursor passed, or counts it as too
\* early; one that has asked, for its page and for what was left out of it; and
\* the cursor passes what the run that saves it has vouched for.
LEMMA LangfuseSafe ==
  ASSUME LangfuseInv, [Langfuse!Next]_(Langfuse!vars)
  PROVE  (\A q \in Run : Answered(q)') /\ Langfuse!PassedForAReason'
  <1> USE Constants DEF Langfuse!Unset, Langfuse!run, Langfuse!history
  <1>0. /\ Langfuse!TypeOK /\ \A q \in Run : Answered(q)
        /\ \A o \in filed \cap Faulty : At[o] < since => Settled(o)
    BY DEF LangfuseInv, Langfuse!PassedForAReason, Settled
  <1> USE DEF Langfuse!TypeOK
  <1>q. ASSUME \A o \in filed' \cap Faulty : At[o] < since' => Settled(o)'
        PROVE  Langfuse!PassedForAReason'
    BY <1>q DEF Settled, Langfuse!PassedForAReason
  <1>s. ASSUME NEW o, Settled(o), ingested \subseteq ingested', late \subseteq late',
               crowded \subseteq crowded', early \subseteq early'
        PROVE  Settled(o)'
    BY <1>s DEF Settled, Langfuse!Excused
  <1>1. ASSUME UNCHANGED <<filed, since, pc, began, from, faulty, ingested, late, crowded, early>>
        PROVE  (\A q \in Run : Answered(q)') /\ Langfuse!PassedForAReason'
    BY <1>0, <1>1 DEF Answered, Settled, Langfuse!Excused, Langfuse!PassedForAReason
  <1>2. ASSUME NEW o \in Observation, Langfuse!File(o)
        PROVE  (\A q \in Run : Answered(q)') /\ Langfuse!PassedForAReason'
    <2>1. /\ filed' = filed \cup {o}
          /\ late \subseteq late' /\ (o \in Faulty /\ Langfuse!Behind(o) => o \in late')
          /\ UNCHANGED <<since, pc, began, from, faulty, ingested, crowded, early>>
      BY <1>2 DEF Langfuse!File
    <2>2. \A x : Settled(x) => Settled(x)'
      BY <1>s, <2>1
    <2>3. o \in Faulty /\ Langfuse!Behind(o) => Settled(o)'
      BY <2>1 DEF Settled, Langfuse!Excused
    <2>4. ASSUME NEW q \in Run PROVE Answered(q)'
      <3>1. SUFFICES ASSUME NEW x \in filed' \cap Faulty
                     PROVE  /\ pc[q] = "asking" /\ At[x] < from[q] => Settled(x)'
                            /\ pc[q] = "ingesting" /\ At[x] < began[q] => Settled(x)' \/ x \in faulty[q]
        BY <2>1 DEF Answered
      <3>2. CASE x = o
        BY <2>3, <3>1, <3>2 DEF Langfuse!Behind
      <3>3. CASE x \in filed
        BY <1>0, <2>2, <3>1, <3>3 DEF Answered
      <3> QED BY <2>1, <3>2, <3>3
    <2>5. \A x \in filed' \cap Faulty : At[x] < since' => Settled(x)'
      <3>1. At[o] < since => Langfuse!Behind(o)
        BY DEF Langfuse!Behind
      <3> QED BY <1>0, <2>1, <2>2, <2>3, <3>1
    <2> QED BY <1>q, <2>4, <2>5
  <1>3. ASSUME NEW r \in Run, Langfuse!Begin(r)
        PROVE  (\A q \in Run : Answered(q)') /\ Langfuse!PassedForAReason'
    <2>1. PICK back \in Int :
            /\ from' = [from EXCEPT ![r] = back]
            /\ since # -1 => back = since
            /\ early' = IF since = -1 THEN early \cup {o \in filed \cap Faulty : At[o] < back} ELSE early
      <3> DEFINE b == IF since = -1 THEN clock - Interval ELSE since
      <3>1. /\ from' = [from EXCEPT ![r] = b]
            /\ since # -1 => b = since
            /\ early' = IF since = -1 THEN early \cup {o \in filed \cap Faulty : At[o] < b} ELSE early
        BY <1>3 DEF Langfuse!Begin
      <3>2. b \in Int
        BY <1>0
      <3> HIDE DEF b
      <3> QED BY <3>1, <3>2
    <2>2. /\ pc' = [pc EXCEPT ![r] = "asking"] /\ began' = [began EXCEPT ![r] = clock]
          /\ UNCHANGED <<clock, filed, since, faulty, ingested, late, crowded>>
      BY <1>3 DEF Langfuse!Begin
    <2>3. \A x : Settled(x) => Settled(x)'
      BY <1>s, <2>1, <2>2
    <2>4. Answered(r)'
      <3>1. pc'[r] = "asking" /\ from'[r] = back
        BY <1>0, <2>1, <2>2
      <3>2. ASSUME NEW x \in filed \cap Faulty, At[x] < back PROVE Settled(x)'
        <4>1. CASE since = -1
          BY <2>1, <3>2, <4>1 DEF Settled, Langfuse!Excused
        <4>2. CASE since # -1
          BY <1>0, <2>1, <2>3, <3>2, <4>2
        <4> QED BY <4>1, <4>2
      <3> QED BY <2>2, <3>1, <3>2 DEF Answered
    <2>5. ASSUME NEW q \in Run, q # r PROVE Answered(q)'
      <3>1. UNCHANGED <<filed, pc[q], from[q], began[q], faulty[q]>>
        BY <1>0, <2>1, <2>2, <2>5
      <3> QED BY <1>0, <2>3, <3>1 DEF Answered
    <2>6. \A x \in filed' \cap Faulty : At[x] < since' => Settled(x)'
      BY <1>0, <2>2, <2>3
    <2> QED BY <1>q, <2>4, <2>5, <2>6
  <1>4. ASSUME NEW r \in Run, NEW page \in SUBSET filed, Langfuse!Ask(r, page)
        PROVE  (\A q \in Run : Answered(q)') /\ Langfuse!PassedForAReason'
    <2>1. /\ pc[r] = "asking"
          /\ pc' = [pc EXCEPT ![r] = "ingesting"] /\ faulty' = [faulty EXCEPT ![r] = page \cap Faulty]
          /\ crowded' = crowded \cup (({o \in filed : At[o] >= from[r]} \ page) \cap Faulty)
          /\ UNCHANGED <<filed, since, began, from, ingested, late, early>>
      BY <1>4 DEF Langfuse!Ask
    <2>2. \A x : Settled(x) => Settled(x)'
      BY <1>s, <2>1
    <2>3. Answered(r)'
      <3>1. pc'[r] = "ingesting" /\ faulty'[r] = page \cap Faulty
        BY <1>0, <2>1
      <3>2. ASSUME NEW x \in filed \cap Faulty PROVE Settled(x)' \/ x \in page
        <4>1. CASE At[x] < from[r]
          BY <1>0, <2>1, <2>2, <4>1 DEF Answered
        <4>2. CASE At[x] >= from[r]
          BY <2>1, <4>2 DEF Settled, Langfuse!Excused
        <4>3. At[x] \in Int /\ from[r] \in Int
          BY <1>0
        <4> QED BY <4>1, <4>2, <4>3
      <3> QED BY <2>1, <3>1, <3>2 DEF Answered
    <2>4. ASSUME NEW q \in Run, q # r PROVE Answered(q)'
      <3>1. UNCHANGED <<filed, pc[q], from[q], began[q], faulty[q]>>
        BY <1>0, <2>1, <2>4
      <3> QED BY <1>0, <2>2, <3>1 DEF Answered
    <2>5. \A x \in filed' \cap Faulty : At[x] < since' => Settled(x)'
      BY <1>0, <2>1, <2>2
    <2> QED BY <1>q, <2>3, <2>4, <2>5
  <1>5. ASSUME NEW r \in Run, NEW o \in Faulty, Langfuse!IngestOne(r, o)
        PROVE  (\A q \in Run : Answered(q)') /\ Langfuse!PassedForAReason'
    <2>1. /\ ingested' = ingested \cup {o} /\ faulty' = [faulty EXCEPT ![r] = @ \ {o}]
          /\ UNCHANGED <<filed, since, pc, began, from, late, crowded, early>>
      BY <1>5 DEF Langfuse!IngestOne
    <2>2. (\A x : Settled(x) => Settled(x)') /\ Settled(o)'
      BY <1>s, <2>1 DEF Settled
    <2>3. ASSUME NEW q \in Run PROVE Answered(q)'
      <3>1. \A x : x \in faulty[q] => x = o \/ x \in faulty'[q]
        BY <1>0, <2>1
      <3> QED BY <1>0, <2>1, <2>2, <3>1 DEF Answered
    <2>4. \A x \in filed' \cap Faulty : At[x] < since' => Settled(x)'
      BY <1>0, <2>1, <2>2
    <2> QED BY <1>q, <2>3, <2>4
  <1>6. ASSUME NEW r \in Run, Langfuse!Leave(r), UNCHANGED <<filed, ingested, late, crowded, early>>,
               \/ UNCHANGED since
               \/ pc[r] = "ingesting" /\ faulty[r] = {} /\ since' = began[r]
        PROVE  (\A q \in Run : Answered(q)') /\ Langfuse!PassedForAReason'
    <2>1. \A x : Settled(x) => Settled(x)'
      BY <1>s, <1>6
    <2>2. Answered(r)'
      <3>1. pc'[r] = "idle"
        BY <1>0, <1>6 DEF Langfuse!Leave
      <3> QED BY <3>1 DEF Answered
    <2>3. ASSUME NEW q \in Run, q # r PROVE Answered(q)'
      <3>1. UNCHANGED <<filed, pc[q], from[q], began[q], faulty[q]>>
        BY <1>0, <1>6, <2>3 DEF Langfuse!Leave
      <3> QED BY <1>0, <2>1, <3>1 DEF Answered
    <2>4. \A x \in filed' \cap Faulty : At[x] < since' => Settled(x)'
      <3>1. CASE UNCHANGED since
        BY <1>0, <1>6, <2>1, <3>1
      <3>2. CASE pc[r] = "ingesting" /\ faulty[r] = {} /\ since' = began[r]
        BY <1>0, <1>6, <2>1, <3>2 DEF Answered
      <3> QED BY <1>6, <3>1, <3>2
    <2> QED BY <1>q, <2>2, <2>3, <2>4
  <1>7. ASSUME NEW r \in Run, Langfuse!SaveSince(r) \/ Langfuse!Abort(r)
        PROVE  (\A q \in Run : Answered(q)') /\ Langfuse!PassedForAReason'
    BY <1>6, <1>7 DEF Langfuse!SaveSince, Langfuse!Abort
  <1>8. CASE Langfuse!Tick \/ UNCHANGED Langfuse!vars
    BY <1>1, <1>8 DEF Langfuse!Tick, Langfuse!vars
  <1> QED BY <1>2, <1>3, <1>4, <1>5, <1>7, <1>8, LangfuseSteps

-----------------------------------------------------------------------------
(***************************************************************************)
(* A behaviour belongs to one worker, and a step of one leaves what the    *)
(* other's invariant is about.                                             *)
(***************************************************************************)

\* IInv is inductive: whoever of the two workers runs, and however its runs
\* overlap and fail, every active run vouches for what it has passed.
THEOREM Inductive == Spec => []IInv
  <1>1. Init => IInv
    BY SentryInit, LangfuseInit DEF Init, IInv
  <1>2. IInv /\ [Next]_vars => IInv'
    <2> SUFFICES ASSUME IInv, [Next]_vars PROVE IInv'
      OBVIOUS
    <2>1. CASE SentryStep
      <3>1. worker = "sentry" /\ worker' = "sentry" /\ Sentry!Next
        BY <2>1 DEF SentryStep, OfSentry
      <3>2. SentryInv
        BY <3>1 DEF IInv
      <3>3. SentryInv'
        BY <3>1, <3>2, SentryTyped, SentrySafe DEF SentryInv
      <3> QED BY <3>1, <3>3 DEF IInv
    <2>2. CASE LangfuseStep
      <3>1. worker = "langfuse" /\ worker' = "langfuse" /\ Langfuse!Next
        BY <2>2 DEF LangfuseStep, OfLangfuse
      <3>2. LangfuseInv
        BY <3>1 DEF IInv
      <3>3. LangfuseInv'
        BY <3>1, <3>2, LangfuseTyped, LangfuseSafe DEF LangfuseInv
      <3> QED BY <3>1, <3>3 DEF IInv
    <2>3. CASE UNCHANGED vars
      <3>1. UNCHANGED <<worker, Sentry!vars, Langfuse!vars>>
        BY <2>3 DEF vars, sentryVars, langfuseVars, Sentry!vars, Sentry!run, Sentry!history,
                    Langfuse!vars, Langfuse!run, Langfuse!history
      <3>2. SentryInv => SentryInv'
        BY <3>1, SentryTyped, SentrySafe DEF SentryInv
      <3>3. LangfuseInv => LangfuseInv'
        BY <3>1, LangfuseTyped, LangfuseSafe DEF LangfuseInv
      <3> QED BY <3>1, <3>2, <3>3 DEF IInv
    <2> QED BY <2>1, <2>2, <2>3 DEF Next
  <1> QED BY <1>1, <1>2, PTL DEF Spec

\* The variables of the worker that runs keep their types; no answer that is
\* being ingested is larger than the limit.
THEOREM TypeCorrect == Spec => []TypeOK
  <1>1. IInv => TypeOK
    BY DEF IInv, SentryInv, LangfuseInv, TypeOK
  <1> QED BY <1>1, Inductive, PTL

\* The cursor passes nothing without a reason, although two runs may hold the
\* same old cursor, save in either order, or die before they save.
THEOREM CursorPassesForAReason == Spec => []PassedForAReason
  <1>1. IInv => PassedForAReason
    BY DEF IInv, SentryInv, LangfuseInv, PassedForAReason
  <1> QED BY <1>1, Inductive, PTL
==============================================================================
