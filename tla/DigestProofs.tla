------------------------------ MODULE DigestProofs ------------------------------
(***************************************************************************)
(* Proofs about TelegramDigest, for every number of messages and services, *)
(* every threshold and any number of faults.                               *)
(***************************************************************************)
EXTENDS TelegramDigest, TLAPS

\* Messages reach the throttle of their service in order, so that its counter is
\* at most the number of the last one.
Ordered ==
  \A m \in Message : at[m] # "new" =>
    \A k \in 1 .. m - 1 : ServiceOf[k] = ServiceOf[m] => at[k] # "new"

CountOK ==
  \A s \in Service :
    \/ count[s] = 0
    \/ \E m \in Message : ServiceOf[m] = s /\ at[m] # "new" /\ count[s] <= m

\* A sender between its INCR and its EXPIRE is the only one of its service, whose
\* counter has no time to live yet.
Firsts ==
  /\ \A m \in Message : at[m] = "first" =>
       count[ServiceOf[m]] > 0 /\ ~ ttl[ServiceOf[m]] /\ ServiceOf[m] \notin orphaned
  /\ \A m, k \in Message :
       at[m] = "first" /\ at[k] = "first" /\ ServiceOf[m] = ServiceOf[k] => m = k
  /\ \A s \in orphaned : count[s] > 0

\* A counter has a time to live, or a sender that is about to give it one, unless
\* that sender died.
CounterIsMortal ==
  \A s \in Service :
    count[s] > 0 =>
      \/ ttl[s] \/ s \in orphaned
      \/ \E m \in Message : at[m] = "first" /\ ServiceOf[m] = s

\* While a run is at work, what the hash holds is still to be sent by it, was sent,
\* or came after it had read the hash.
Safe(m) == sent[m] > 0 \/ m \in behind

HashOK ==
  \A s \in Service : buffer[s] # NoMessage =>
    /\ at[buffer[s]] = "buffered"
    /\ digest = "sending" => taken[s] = buffer[s] \/ Safe(buffer[s])

IInv == TypeOK /\ Ordered /\ CountOK /\ Firsts /\ CounterIsMortal /\ HashOK /\ GoneForAReason

-----------------------------------------------------------------------------
LEMMA Messages ==
  /\ Message \subseteq Nat \ {0} /\ NoMessage \notin Message
  /\ ServiceOf \in [Message -> Service]
  /\ MaxMessage \in Nat /\ MaxFaults \in Nat
  BY TelegramDigestAssumption DEF TelegramDigestAssumption, Message, NoMessage

LEMMA InitIInv == Init => IInv
  <1> SUFFICES ASSUME Init PROVE IInv
    OBVIOUS
  <1> USE Messages DEF Init, Empty, Buffered, Held
  <1>1. TypeOK
    BY DEF TypeOK, Hash
  <1>2. Ordered /\ CountOK /\ Firsts /\ CounterIsMortal /\ HashOK /\ GoneForAReason
    BY DEF Ordered, CountOK, Firsts, CounterIsMortal, HashOK, GoneForAReason
  <1> QED BY <1>1, <1>2 DEF IInv

-----------------------------------------------------------------------------
(***************************************************************************)
(* The throttle: at, count, ttl and orphaned.                              *)
(***************************************************************************)
ThrottleOK ==
  /\ at \in [Message -> {"new", "first", "through", "over", "buffered", "lost"}]
  /\ count \in [Service -> Nat] /\ ttl \in [Service -> BOOLEAN] /\ orphaned \subseteq Service
  /\ \A s \in Service : ttl[s] => count[s] > 0 /\ s \notin orphaned
  /\ Ordered /\ CountOK /\ Firsts /\ CounterIsMortal

LEMMA NextThrottle ==
  ASSUME ThrottleOK, [Next]_vars PROVE ThrottleOK'
  <1> USE Messages DEF ThrottleOK, Move
  <1>1. ASSUME NEW m \in Message, Count(m) PROVE ThrottleOK'
    <2> DEFINE s == ServiceOf[m]
    <2>1. /\ s \in Service /\ at[m] = "new" /\ count' = [count EXCEPT ![s] = count[s] + 1]
          /\ at' = [at EXCEPT ![m] = at'[m]]
          /\ at'[m] \in {"first", "through", "over"}
          /\ at'[m] = "first" <=> count[s] = 0
          /\ \A k \in 1 .. m - 1 : ServiceOf[k] = s => at[k] # "new"
          /\ ttl' = ttl /\ orphaned' = orphaned
      BY <1>1 DEF Count
    <2> HIDE DEF s
    <2>2. Ordered'
      <3> SUFFICES ASSUME NEW j \in Message, at'[j] # "new", NEW k \in 1 .. j - 1,
                          ServiceOf[k] = ServiceOf[j]
                   PROVE  at'[k] # "new"
        BY DEF Ordered
      <3>1. k \in Message
        BY DEF Message
      <3>2. CASE j = m
        BY <2>1, <3>1, <3>2 DEF s
      <3>3. CASE j # m
        BY <2>1, <3>1, <3>3 DEF Ordered
      <3> QED BY <3>2, <3>3
    <2>3. CountOK'
      <3>1. count[s] + 1 <= m
        <4>1. CASE count[s] = 0
          BY <4>1
        <4>2. ASSUME NEW k \in Message, ServiceOf[k] = s, at[k] # "new", count[s] <= k
              PROVE  count[s] + 1 <= m
          <5>1. ~ (m < k)
            BY <2>1, <4>2 DEF Ordered, s
          <5> QED BY <2>1, <4>2, <5>1
        <4> QED BY <2>1, <4>1, <4>2 DEF CountOK
      <3>2. ASSUME NEW u \in Service, u # s, count[u] # 0
            PROVE  \E k \in Message : ServiceOf[k] = u /\ at'[k] # "new" /\ count'[u] <= k
        <4>1. PICK k \in Message : ServiceOf[k] = u /\ at[k] # "new" /\ count[u] <= k
          BY <3>2 DEF CountOK
        <4> QED BY <2>1, <3>2, <4>1
      <3>3. ServiceOf[m] = s /\ at'[m] # "new" /\ count'[s] <= m
        BY <2>1, <3>1 DEF s
      <3> QED BY <2>1, <3>2, <3>3 DEF CountOK
    <2>4. Firsts'
      BY <2>1 DEF Firsts, CounterIsMortal, s
    <2>5. CounterIsMortal'
      <3>1. CASE count[s] = 0
        BY <2>1, <3>1 DEF CounterIsMortal, s
      <3>2. CASE count[s] # 0
        BY <2>1, <3>2 DEF CounterIsMortal, s
      <3> QED BY <3>1, <3>2
    <2> QED BY <2>1, <2>2, <2>3, <2>4, <2>5
  <1>2. ASSUME NEW m \in Message, SetExpiry(m) PROVE ThrottleOK'
    <2>1. /\ at[m] = "first" /\ at' = [at EXCEPT ![m] = "through"] /\ count' = count
          /\ ServiceOf[m] \in Service /\ ttl' = [ttl EXCEPT ![ServiceOf[m]] = TRUE]
          /\ orphaned' = orphaned
      BY <1>2 DEF SetExpiry
    <2>2. Ordered' /\ CountOK'
      BY <2>1 DEF Ordered, CountOK
    <2>3. Firsts'
      BY <2>1 DEF Firsts
    <2>4. CounterIsMortal'
      BY <2>1 DEF CounterIsMortal
    <2> QED BY <2>1, <2>2, <2>3, <2>4 DEF Firsts
  <1>3. ASSUME NEW m \in Message, SenderDies(m) PROVE ThrottleOK'
    <2>1. /\ at[m] \in {"first", "over"} /\ at' = [at EXCEPT ![m] = "lost"]
          /\ count' = count /\ ttl' = ttl /\ ServiceOf[m] \in Service
          /\ orphaned' = IF at[m] = "first" THEN orphaned \cup {ServiceOf[m]} ELSE orphaned
      BY <1>3 DEF SenderDies
    <2>2. Ordered' /\ CountOK'
      BY <2>1 DEF Ordered, CountOK
    <2>3. Firsts'
      BY <2>1 DEF Firsts
    <2>4. CounterIsMortal'
      BY <2>1 DEF CounterIsMortal
    <2> QED BY <2>1, <2>2, <2>3, <2>4 DEF Firsts
  <1>4. ASSUME NEW s \in Service, WindowEnds(s) PROVE ThrottleOK'
    <2>1. /\ ttl[s] /\ at' = at /\ orphaned' = orphaned
          /\ ttl' = [ttl EXCEPT ![s] = FALSE] /\ count' = [count EXCEPT ![s] = 0]
      BY <1>4 DEF WindowEnds
    <2>2. Ordered' /\ CountOK'
      BY <2>1 DEF Ordered, CountOK
    <2>3. Firsts'
      BY <2>1 DEF Firsts
    <2>4. CounterIsMortal'
      BY <2>1 DEF CounterIsMortal
    <2> QED BY <2>1, <2>2, <2>3, <2>4
  <1>5. ASSUME NEW m \in Message, Buffer(m) PROVE ThrottleOK'
    <2>1. /\ at[m] = "over" /\ at' = [at EXCEPT ![m] = "buffered"]
          /\ count' = count /\ ttl' = ttl /\ orphaned' = orphaned
      BY <1>5 DEF Buffer
    <2>2. Ordered' /\ CountOK'
      BY <2>1 DEF Ordered, CountOK
    <2>3. Firsts' /\ CounterIsMortal'
      BY <2>1 DEF Firsts, CounterIsMortal
    <2> QED BY <2>1, <2>2, <2>3
  <1>6. CASE UNCHANGED throttle
    BY <1>6 DEF throttle, Ordered, CountOK, Firsts, CounterIsMortal
  <1>7. CASE Digest \/ Fail \/ Expire \/ UNCHANGED vars
    BY <1>6, <1>7 DEF Digest, Collect, Report, Clear, Fail, Expire, vars
  <1> QED BY <1>1, <1>2, <1>3, <1>4, <1>5, <1>7 DEF Next

-----------------------------------------------------------------------------
(***************************************************************************)
(* The buffer and the run that reports it.                                 *)
(***************************************************************************)
\* TypeOK without the throttle, and what became of the buffered messages.
BufferOK ==
  /\ buffer \in Hash /\ taken \in Hash
  /\ digest \in {"idle", "sending"}
  /\ \A s \in Service : buffer[s] # NoMessage => ServiceOf[buffer[s]] = s
  /\ digest = "idle" => taken = Empty
  /\ sent \in [Message -> Nat]
  /\ replaced \subseteq Buffered /\ behind \subseteq Buffered /\ expired \subseteq Buffered
  /\ Held(buffer) \cap replaced = {}
  /\ HashOK /\ GoneForAReason

LEMMA NextBuffer ==
  ASSUME ThrottleOK, BufferOK, [Next]_vars PROVE BufferOK'
  <1> USE Messages DEF BufferOK, Hash, Empty, Held, Buffered, HashOK, Safe
  <1>a. at \in [Message -> {"new", "first", "through", "over", "buffered", "lost"}]
    BY DEF ThrottleOK
  <1>1. ASSUME NEW m \in Message, Buffer(m) PROVE BufferOK'
    <2> DEFINE s == ServiceOf[m]
    <2>1. /\ s \in Service /\ at[m] = "over" /\ at' = [at EXCEPT ![m] = "buffered"]
          /\ replaced' = replaced \cup ({buffer[s]} \ {NoMessage})
          /\ buffer' = [buffer EXCEPT ![s] = m]
          /\ behind' = IF digest = "sending" THEN behind \cup {m} ELSE behind
          /\ digest' = digest /\ taken' = taken /\ sent' = sent /\ expired' = expired
      BY <1>1 DEF Buffer, Move
    <2> HIDE DEF s
    <2>2. Buffered' = Buffered \cup {m} /\ m \notin Buffered
      BY <1>a, <2>1
    <2>3. /\ replaced' \subseteq Buffered' /\ behind' \subseteq Buffered'
          /\ expired' \subseteq Buffered' /\ m \notin replaced'
      <3>1. {buffer[s]} \ {NoMessage} \subseteq Buffered
        BY <2>1
      <3> QED BY <2>1, <2>2, <3>1
    <2>4. HashOK'
      BY <1>a, <2>1
    <2>5. Held(buffer') \subseteq (Held(buffer) \ {buffer[s]}) \cup {m}
      BY <2>1 DEF s
    <2>6. Held(buffer') \cap replaced' = {}
      BY <2>1, <2>3, <2>5
    <2>7. m \in Held(buffer') /\ Held(buffer) \subseteq Held(buffer') \cup replaced'
      BY <2>1
    <2>8. GoneForAReason'
      BY <2>1, <2>2, <2>7 DEF GoneForAReason
    <2>9. \A u \in Service : buffer'[u] # NoMessage => ServiceOf[buffer'[u]] = u
      BY <2>1 DEF s
    <2> QED BY <2>1, <2>3, <2>4, <2>6, <2>8, <2>9
  <1>2. CASE Collect
    BY <1>2 DEF Collect, throttle, history, GoneForAReason
  <1>3. ASSUME NEW s \in Service, Report(s) PROVE BufferOK'
    <2>1. /\ taken[s] \in Message /\ sent' = [sent EXCEPT ![taken[s]] = @ + 1]
          /\ taken' = [taken EXCEPT ![s] = NoMessage]
          /\ digest = "sending"
          /\ UNCHANGED <<throttle, buffer, digest, history>>
      BY <1>3 DEF Report
    <2>2. /\ sent' \in [Message -> Nat] /\ sent'[taken[s]] > 0
          /\ \A m \in Message : sent[m] > 0 => sent'[m] > 0
      <3>1. ASSUME NEW f \in [Message -> Nat], NEW t \in Message
            PROVE  LET g == [f EXCEPT ![t] = @ + 1]
                   IN  g \in [Message -> Nat] /\ g[t] > 0 /\ \A m \in Message : f[m] > 0 => g[m] > 0
        OBVIOUS
      <3> QED BY <2>1, <3>1
    <2>4. HashOK'
      BY <2>1, <2>2 DEF throttle, history
    <2>5. GoneForAReason'
      BY <2>1, <2>2 DEF throttle, history, GoneForAReason
    <2> QED BY <2>1, <2>2, <2>4, <2>5 DEF throttle, history
  <1>4. CASE Clear
    <2>1. /\ digest = "sending" /\ taken = Empty /\ buffer' = Empty /\ digest' = "idle"
          /\ UNCHANGED <<throttle, taken, sent, history>>
      BY <1>4 DEF Clear
    <2>2. \A m \in Held(buffer) : Safe(m)
      BY <2>1
    <2>3. GoneForAReason'
      BY <2>1, <2>2 DEF GoneForAReason, throttle, history
    <2> QED BY <2>1, <2>3 DEF throttle, history
  <1>5. CASE Fail
    BY <1>5 DEF Fail, throttle, history, GoneForAReason
  <1>6. CASE Expire
    <2>1. /\ digest = "idle" /\ expired' = expired \cup Held(buffer) /\ buffer' = Empty
          /\ UNCHANGED <<throttle, digest, taken, sent, replaced, behind>>
      BY <1>6 DEF Expire
    <2>2. Held(buffer) \subseteq Buffered
      BY <2>1
    <2>3. GoneForAReason'
      BY <2>1 DEF GoneForAReason, throttle
    <2> QED BY <2>1, <2>2, <2>3 DEF throttle
  <1>7. ASSUME UNCHANGED <<buffer, digest, taken, sent, history>>,
               \A m \in Message : at'[m] = "buffered" <=> at[m] = "buffered"
        PROVE  BufferOK'
    <2>1. Buffered' = Buffered
      BY <1>7
    <2> QED BY <1>7, <2>1 DEF history, GoneForAReason
  <1>8. ASSUME NEW m \in Message, Count(m) \/ SetExpiry(m) \/ SenderDies(m) PROVE BufferOK'
    BY <1>a, <1>7, <1>8 DEF Count, SetExpiry, SenderDies, Move
  <1>9. ASSUME NEW s \in Service, WindowEnds(s) PROVE BufferOK'
    BY <1>7, <1>9 DEF WindowEnds
  <1>10. CASE UNCHANGED vars
    BY <1>7, <1>10 DEF vars, throttle
  <1> QED BY <1>1, <1>2, <1>3, <1>4, <1>5, <1>6, <1>8, <1>9, <1>10 DEF Next, Digest

-----------------------------------------------------------------------------
FaultsOK == faults \in 0 .. MaxFaults

LEMMA NextFaults ==
  ASSUME FaultsOK, [Next]_vars PROVE FaultsOK'
  <1> USE Messages DEF FaultsOK
  <1>1. CASE Fail \/ Expire \/ \E m \in Message : SenderDies(m)
    BY <1>1 DEF Fail, Expire, SenderDies, Fault
  <1>2. CASE \E m \in Message : Count(m) \/ SetExpiry(m) \/ Buffer(m)
    BY <1>2 DEF Count, SetExpiry, Buffer
  <1>3. CASE (\E s \in Service : WindowEnds(s)) \/ Digest \/ UNCHANGED vars
    BY <1>3 DEF WindowEnds, Digest, Collect, Report, Clear, vars
  <1> QED BY <1>1, <1>2, <1>3 DEF Next

\* The two halves and the counter of faults make up the invariant.
LEMMA Halves == IInv <=> ThrottleOK /\ BufferOK /\ FaultsOK
  <1>1. ASSUME IInv PROVE ThrottleOK /\ BufferOK /\ FaultsOK
    <2>1. count \in [Service -> Nat]
      BY <1>1, Messages DEF IInv, TypeOK
    <2>2. ThrottleOK
      BY <1>1, <2>1 DEF IInv, TypeOK, ThrottleOK
    <2>3. BufferOK /\ FaultsOK
      BY <1>1 DEF IInv, TypeOK, BufferOK, FaultsOK
    <2> QED BY <2>2, <2>3
  <1>2. ASSUME ThrottleOK, BufferOK, FaultsOK PROVE IInv
    <2>1. count \in [Service -> 0 .. MaxMessage]
      <3>1. ASSUME NEW s \in Service PROVE count[s] \in 0 .. MaxMessage
        BY <1>2, Messages DEF ThrottleOK, CountOK, Message
      <3> QED BY <1>2, <3>1 DEF ThrottleOK
    <2>2. TypeOK
      BY <1>2, <2>1 DEF ThrottleOK, BufferOK, FaultsOK, TypeOK
    <2> QED BY <1>2, <2>2 DEF IInv, ThrottleOK, BufferOK
  <1> QED BY <1>1, <1>2

\* The invariant holds in every reachable state.
THEOREM Inductive == Spec => []IInv
  <1>1. ASSUME IInv, [Next]_vars PROVE IInv'
    <2>1. ThrottleOK /\ BufferOK /\ FaultsOK
      BY <1>1, Halves
    <2>2. ThrottleOK' /\ BufferOK' /\ FaultsOK'
      BY <1>1, <2>1, NextThrottle, NextBuffer, NextFaults
    <2>3. IInv' <=> ThrottleOK' /\ BufferOK' /\ FaultsOK'
      BY Halves, PTL
    <2> QED BY <2>2, <2>3
  <1> QED BY InitIInv, <1>1, PTL DEF Spec

\* Type correctness: the counters stay below the number of messages, and a field of
\* the hash holds a suppressed message of its own service.
THEOREM TypeCorrect == Spec => []TypeOK
  BY Inductive, PTL DEF IInv

\* A suppressed message is in the buffer or was reported, unless it was replaced,
\* came behind the run's back, or expired (telegram_digest_worker).
THEOREM SuppressedIsAccountedFor == Spec => []GoneForAReason
  BY Inductive, PTL DEF IInv

\* A counter without a time to live has a sender that is about to give it one, or
\* that sender died: the only way in which a service is silenced for good
\* (_telegram_service_rate_limit_state, worker.py:883).
THEOREM OnlyDeathSilences == Spec => []CounterIsMortal
  BY Inductive, PTL DEF IInv
==============================================================================
