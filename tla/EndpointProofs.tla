---------------------------- MODULE EndpointProofs ----------------------------
(***************************************************************************)
(* Proofs about the five components of Endpoints: Directory, Readiness,    *)
(* Alerts, RadarPull and Matching, in that order, and about the behaviours *)
(* of Endpoints at the end.  They hold for every number of contacts,       *)
(* groups, rules, channels, requests, dispatchers, incidents, workers,     *)
(* lines and pulls, every list of rules, and every bound.                  *)
(***************************************************************************)
EXTENDS Endpoints, FiniteSetTheorems, SequenceTheorems, WellFoundedInduction, TLAPS

(***************************************************************************)
(* Directory.  What a request has found still holds unless another session *)
(* has committed (Held), and what a dispatcher has read it has done or     *)
(* will come to, unless a membership was removed (Planned).                *)
(***************************************************************************)
\* The parts of TypeOK that the arguments below need.
Typed ==
  /\ contacts \subseteq Contact /\ groups \subseteq Group
  /\ ruleGroup \in [Rule -> Group \cup {None}]
  /\ op \in [Request -> Op \cup {None}] /\ passed \in [Request -> Nat]
  /\ disturbed \in [Request -> BOOLEAN]
  /\ place \in [Dispatcher -> {"idle", "failed", "reading", "inserting"}]
  /\ target \in [Dispatcher -> Group \cup {None}]
  /\ read \in [Dispatcher -> SUBSET Contact]
  /\ left \in [Dispatcher -> SUBSET (Contact \X Channel)]
  /\ kept \in [Dispatcher -> SUBSET (Contact \X Channel)]
  /\ holding \in [Dispatcher -> Contact \X Channel \cup {None}]
  /\ removed \in [Dispatcher -> BOOLEAN]

\* What a request has found still holds, unless another session has committed.
Held ==
  \A q \in Request :
    /\ op[q] = None => passed[q] = 0
    /\ op[q] # None /\ ~ disturbed[q] => \A i \in 1 .. passed[q] : Checks(op[q])[i]

\* What a dispatcher has read it has done, is at, or has before it; and every
\* membership it has read is there, unless it was removed.
Todo(d) == left[d] \cup kept[d] \cup (IF holding[d] = None THEN {} ELSE {holding[d]})

Planned ==
  \A d \in Dispatcher :
    IF place[d] = "inserting"
    THEN /\ Todo(d) = read[d] \X Channel
         /\ \A c \in read[d] : <<target[d], c>> \in members \/ removed[d]
    ELSE left[d] = {} /\ kept[d] = {} /\ holding[d] = None

\* The rest of TypeOK.  An identifier that a request is about to create is not
\* there and has not been, and one that it is about to delete is or was.
Pending(q) ==
  op[q] # None =>
    /\ passed[q] <= Len(Checks(op[q]))
    /\ op[q].kind = "toggle_rule" /\ passed[q] > 0 => loaded[q] \in BOOLEAN
    /\ op[q].kind = "create_contact" => op[q].contact \notin contacts \cup gone
    /\ op[q].kind = "create_group" => op[q].group \notin groups \cup gone
    /\ op[q].kind = "delete_contact" /\ passed[q] > 0 => op[q].contact \in contacts \cup gone
    /\ op[q].kind = "delete_group" /\ passed[q] > 0 => op[q].group \in groups \cup gone

Creator(q) == op[q] # None /\ op[q].kind \in {"create_contact", "create_group"}

Formed ==
  /\ active \in [Rule -> BOOLEAN]
  /\ loaded \in [Request -> Group \cup BOOLEAN \cup {None}]
  /\ expired \in [Dispatcher -> BOOLEAN]
  /\ \A d \in Dispatcher : kept[d] \subseteq notified
  /\ gone \subseteq Contact \cup Group /\ gone \cap (contacts \cup groups) = {}
  /\ \A q \in Request : Pending(q)
  /\ \A p, q \in Request : p # q /\ Creator(p) => op[p] # op[q]

DirectoryInv == Typed /\ References /\ Held /\ Planned /\ Formed

-----------------------------------------------------------------------------
LEMMA DirectoryInit == Init => DirectoryInv
  BY DEF Init, DirectoryInv, Typed, References, Held, Planned, Todo, Formed, Pending, Creator

\* A request whose checks all hold has nothing to fear from the constraints.
LEMMA ChecksSuffice ==
  ASSUME NEW o \in Op, o.kind # "create_rule", \A i \in 1 .. Len(Checks(o)) : Checks(o)[i]
  PROVE  ~ Breaks(o)
  <1>1. CASE o.kind = "delete_contact"
    <2>1. Checks(o) =
            << o.contact \in contacts, ~ HasNotifications(o.contact), ~ IsMember(o.contact) >>
      BY <1>1 DEF Checks
    <2>2. Len(Checks(o)) = 3 /\ 2 \in 1 .. 3 /\ 3 \in 1 .. 3
      BY <2>1
    <2>3. ~ HasNotifications(o.contact)
      <3>1. Checks(o)[2] = (~ HasNotifications(o.contact))
        BY <2>1
      <3>2. Checks(o)[2]
        BY <2>2, Zenon
      <3> QED BY <3>1, <3>2, Zenon
    <2>4. ~ IsMember(o.contact)
      <3>1. Checks(o)[3] = (~ IsMember(o.contact))
        BY <2>1
      <3>2. Checks(o)[3]
        BY <2>2, Zenon
      <3> QED BY <3>1, <3>2, Zenon
    <2> QED BY <1>1, <2>3, <2>4 DEF Breaks
  <1>2. CASE o.kind = "delete_group"
    <2>1. Checks(o) = << o.group \in groups, ~ HasRules(o.group), ~ HasMembers(o.group) >>
      BY <1>2 DEF Checks
    <2>2. Len(Checks(o)) = 3 /\ 2 \in 1 .. 3 /\ 3 \in 1 .. 3
      BY <2>1
    <2>3. ~ HasRules(o.group)
      <3>1. Checks(o)[2] = (~ HasRules(o.group))
        BY <2>1
      <3>2. Checks(o)[2]
        BY <2>2, Zenon
      <3> QED BY <3>1, <3>2, Zenon
    <2>4. ~ HasMembers(o.group)
      <3>1. Checks(o)[3] = (~ HasMembers(o.group))
        BY <2>1
      <3>2. Checks(o)[3]
        BY <2>2, Zenon
      <3> QED BY <3>1, <3>2, Zenon
    <2> QED BY <1>2, <2>3, <2>4 DEF Breaks
  <1>3. CASE o.kind = "add_member"
    <2>1. Checks(o) =
            << o.group \in groups, o.contact \in contacts, <<o.group, o.contact>> \notin members >>
      BY <1>3 DEF Checks
    <2>2. Len(Checks(o)) = 3 /\ 1 \in 1 .. 3 /\ 2 \in 1 .. 3 /\ 3 \in 1 .. 3
      BY <2>1
    <2>3. o.group \in groups
      <3>1. Checks(o)[1] = (o.group \in groups)
        BY <2>1
      <3>2. Checks(o)[1]
        BY <2>2, Zenon
      <3> QED BY <3>1, <3>2, Zenon
    <2>4. o.contact \in contacts
      <3>1. Checks(o)[2] = (o.contact \in contacts)
        BY <2>1
      <3>2. Checks(o)[2]
        BY <2>2, Zenon
      <3> QED BY <3>1, <3>2, Zenon
    <2>5. <<o.group, o.contact>> \notin members
      <3>1. Checks(o)[3] = (<<o.group, o.contact>> \notin members)
        BY <2>1
      <3>2. Checks(o)[3]
        BY <2>2, Zenon
      <3> QED BY <3>1, <3>2, Zenon
    <2> QED BY <1>3, <2>3, <2>4, <2>5 DEF Breaks
  <1>4. CASE o.kind = "update_contact"
    <2>1. Checks(o) = << o.contact \in contacts >>
      BY <1>4 DEF Checks
    <2>2. Len(Checks(o)) = 1 /\ 1 \in 1 .. 1
      BY <2>1
    <2>3. o.contact \in contacts
      <3>1. Checks(o)[1] = (o.contact \in contacts)
        BY <2>1
      <3>2. Checks(o)[1]
        BY <2>2, Zenon
      <3> QED BY <3>1, <3>2, Zenon
    <2> QED BY <1>4, <2>3 DEF Breaks
  <1>5. CASE o.kind = "update_group"
    <2>1. Checks(o) = << o.group \in groups >>
      BY <1>5 DEF Checks
    <2>2. Len(Checks(o)) = 1 /\ 1 \in 1 .. 1
      BY <2>1
    <2>3. o.group \in groups
      <3>1. Checks(o)[1] = (o.group \in groups)
        BY <2>1
      <3>2. Checks(o)[1]
        BY <2>2, Zenon
      <3> QED BY <3>1, <3>2, Zenon
    <2> QED BY <1>5, <2>3 DEF Breaks
  <1>6. CASE o.kind = "update_rule"
    <2>1. Checks(o) = << ruleGroup[o.rule] # None, o.group \in groups >>
      BY <1>6 DEF Checks
    <2>2. Len(Checks(o)) = 2 /\ 2 \in 1 .. 2
      BY <2>1
    <2>3. o.group \in groups
      <3>1. Checks(o)[2] = (o.group \in groups)
        BY <2>1
      <3>2. Checks(o)[2]
        BY <2>2, Zenon
      <3> QED BY <3>1, <3>2, Zenon
    <2> QED BY <1>6, <2>3 DEF Breaks
  <1>7. CASE o.kind \in {"create_contact", "create_group", "delete_member", "toggle_rule"}
    BY <1>7 DEF Breaks
  <1> QED BY <1>1, <1>2, <1>3, <1>4, <1>5, <1>6, <1>7 DEF Op

\* The checks of a request depend on the tables alone.
LEMMA SameChecks ==
  ASSUME UNCHANGED tables, NEW CONSTANT o
  PROVE  Checks(o)' = Checks(o)
  BY DEF tables, Checks, HasNotifications, IsMember, HasMembers, HasRules

-----------------------------------------------------------------------------
\* What the steps do, for the case splits: Ends covers the answers without a write.
Ends(q) == op[q] # None /\ Close(q) /\ Forget(q) /\ UNCHANGED <<tables, dispatchers, removed>>
Leaves(d) == AtWork(d) /\ \E end \in {"idle", "failed"} : Return(d, end)

LEMMA Steps ==
  ASSUME [Next]_vars
  PROVE  \/ \E q \in Request, o \in Op : Receive(q, o)
         \/ \E q \in Request : Pass(q) \/ Ends(q) \/ Commit(q)
         \/ \E d \in Dispatcher, r \in Rule : ReadRule(d, r)
         \/ \E d \in Dispatcher, t \in Contact \X Channel : Take(d, t)
         \/ \E d \in Dispatcher : ReadMembers(d) \/ Keep(d) \/ Insert(d) \/ Leaves(d)
         \/ UNCHANGED vars
  <1>1. ASSUME NEW q \in Request, Refuse(q) \/ Break(q) \/ NameTaken(q) \/ Fail(q) PROVE Ends(q)
    BY <1>1 DEF Refuse, Break, NameTaken, Fail, AtCommit, Ends
  <1>2. ASSUME NEW d \in Dispatcher, Queue(d) \/ Raise(d) \/ Abort(d) PROVE Leaves(d)
    BY <1>2 DEF Queue, Raise, Abort, Leaves, AtWork
  <1> QED BY <1>1, <1>2 DEF Next

LEMMA NextTyped ==
  ASSUME DirectoryAssumption, DirectoryInv, [Next]_vars PROVE Typed'
  <1> USE DEF DirectoryAssumption, DirectoryInv, Typed
  <1>1. ASSUME NEW q \in Request, NEW o \in Op, Receive(q, o) PROVE Typed'
    BY <1>1 DEF Receive, tables, dispatchers, history
  <1>2. ASSUME NEW q \in Request, Pass(q) PROVE Typed'
    BY <1>2 DEF Pass, tables, dispatchers, history
  <1>3. ASSUME NEW q \in Request, Ends(q) PROVE Typed'
    BY <1>3 DEF Ends, Close, Forget, tables, dispatchers
  <1>4. ASSUME NEW q \in Request, Commit(q) PROVE Typed'
    <2>1. op[q] \in Op /\ Write(op[q], loaded[q]) /\ Close(q) /\ Disturb(q)
      BY <1>4 DEF Commit, AtCommit
    <2>2. contacts' \subseteq Contact /\ groups' \subseteq Group
      BY <2>1 DEF Write, Op
    <2>3. ruleGroup' \in [Rule -> Group \cup {None}]
      BY <2>1 DEF Write, Op
    <2>4. removed' \in [Dispatcher -> BOOLEAN] /\ UNCHANGED dispatchers
      BY <1>4 DEF Commit
    <2> QED BY <2>1, <2>2, <2>3, <2>4 DEF Close, Disturb, dispatchers
  <1>5. ASSUME NEW d \in Dispatcher, NEW r \in Rule, ReadRule(d, r) PROVE Typed'
    BY <1>5 DEF ReadRule, Place, tables, requests, history
  <1>6. ASSUME NEW d \in Dispatcher, NEW t \in Contact \X Channel, Take(d, t) PROVE Typed'
    BY <1>6 DEF Take, tables, requests, history
  <1>7. ASSUME NEW d \in Dispatcher, ReadMembers(d) PROVE Typed'
    BY <1>7 DEF ReadMembers, Place, tables, requests, history
  <1>8. ASSUME NEW d \in Dispatcher, Keep(d) PROVE Typed'
    <2>1. holding[d] \in Contact \X Channel
      BY <1>8 DEF Keep, References
    <2> QED BY <1>8, <2>1 DEF Keep, tables, requests, history
  <1>9. ASSUME NEW d \in Dispatcher, Insert(d) PROVE Typed'
    BY <1>9 DEF Insert, requests, Disturb
  <1>10. ASSUME NEW d \in Dispatcher, Leaves(d) PROVE Typed'
    BY <1>10 DEF Leaves, Return, Place, tables, requests
  <1>11. CASE UNCHANGED vars
    BY <1>11 DEF vars, tables, requests, dispatchers, history
  <1> QED BY <1>1, <1>2, <1>3, <1>4, <1>5, <1>6, <1>7, <1>8, <1>9, <1>10, <1>11, Steps

\* The constraints hold whatever is committed: a write that would break one is refused.
LEMMA NextReferences ==
  ASSUME DirectoryAssumption, DirectoryInv, [Next]_vars PROVE References'
  <1> USE DEF DirectoryAssumption, DirectoryInv, Typed, References
  <1>k. ASSUME UNCHANGED tables PROVE References'
    BY <1>k DEF tables
  <1>1. ASSUME NEW q \in Request, Commit(q) PROVE References'
    <2> DEFINE o == op[q]
    <2>1. /\ o \in Op /\ Write(o, loaded[q])
          /\ (o.kind = "update_rule" /\ loaded[q] = o.group) \/ ~ Breaks(o)
      BY <1>1 DEF Commit, AtCommit, Vacuous
    <2> HIDE DEF o
    <2>2. CASE o.kind = "delete_contact"
      <3>1. ~ HasNotifications(o.contact) /\ ~ IsMember(o.contact)
        BY <2>1, <2>2 DEF Breaks
      <3>2. /\ contacts' = contacts \ {o.contact} /\ groups' = groups /\ members' = members
            /\ ruleGroup' = ruleGroup /\ notified' = notified
        BY <2>1, <2>2 DEF Write
      <3>3. \A t \in notified : t[1] # o.contact
        BY <3>1 DEF HasNotifications
      <3>4. \A m \in members : m[2] # o.contact
        BY <3>1 DEF IsMember
      <3>5. members' \subseteq groups' \X contacts'
        BY <3>2, <3>4
      <3>6. notified' \subseteq contacts' \X Channel
        BY <3>2, <3>3
      <3> QED BY <3>2, <3>5, <3>6
    <2>3. CASE o.kind = "delete_group"
      <3>1. ~ HasRules(o.group) /\ ~ HasMembers(o.group)
        BY <2>1, <2>3 DEF Breaks
      <3>2. /\ groups' = groups \ {o.group} /\ contacts' = contacts /\ members' = members
            /\ ruleGroup' = ruleGroup /\ notified' = notified
        BY <2>1, <2>3 DEF Write
      <3>3. \A r \in Rule : ruleGroup[r] # o.group
        BY <3>1 DEF HasRules
      <3>4. \A m \in members : m[1] # o.group
        BY <3>1 DEF HasMembers
      <3>5. members' \subseteq groups' \X contacts'
        BY <3>2, <3>4
      <3>6. \A r \in Rule : ruleGroup'[r] \in groups' \cup {None}
        BY <3>2, <3>3
      <3> QED BY <3>2, <3>5, <3>6
    <2>4. CASE o.kind = "add_member"
      <3>1. o.group \in groups /\ o.contact \in contacts
        BY <2>1, <2>4 DEF Breaks
      <3>2. /\ members' = members \cup {<<o.group, o.contact>>}
            /\ contacts' = contacts /\ groups' = groups
            /\ ruleGroup' = ruleGroup /\ notified' = notified
        BY <2>1, <2>4 DEF Write
      <3> QED BY <3>1, <3>2
    <2>5. CASE o.kind \in {"create_rule", "update_rule"}
      <3>1. /\ o.rule \in Rule
            /\ (o.kind = "update_rule" /\ loaded[q] = o.group) \/ o.group \in groups
        BY <2>1, <2>5 DEF Breaks, Op
      <3>2. contacts' = contacts /\ groups' = groups /\ members' = members /\ notified' = notified
        BY <2>1, <2>5 DEF Write
      <3>3. \/ ruleGroup' = ruleGroup
            \/ o.group \in groups /\ ruleGroup' = [ruleGroup EXCEPT ![o.rule] = o.group]
        BY <2>1, <2>5, <3>1 DEF Write
      <3> QED BY <3>2, <3>3
    <2>6. CASE o.kind \in {"create_contact", "create_group", "update_contact", "update_group",
                           "delete_member", "toggle_rule"}
      <3>1. /\ contacts \subseteq contacts' /\ groups \subseteq groups' /\ members' \subseteq members
            /\ ruleGroup' = ruleGroup /\ notified' = notified
        BY <2>1, <2>6 DEF Write
      <3> QED BY <3>1
    <2> QED BY <2>1, <2>2, <2>3, <2>4, <2>5, <2>6 DEF Op
  <1>2. ASSUME NEW d \in Dispatcher, Insert(d) PROVE References'
    BY <1>2 DEF Insert
  <1>3. \/ UNCHANGED tables
        \/ \E q \in Request : Commit(q)
        \/ \E d \in Dispatcher : Insert(d)
    BY Steps DEF Receive, Pass, Ends, ReadRule, Take, ReadMembers, Keep, Leaves, Return, vars
  <1> QED BY <1>k, <1>1, <1>2, <1>3

\* A commit disturbs whoever has asked something.
LEMMA NextHeld ==
  ASSUME DirectoryAssumption, DirectoryInv, [Next]_vars PROVE Held'
  <1> USE DEF DirectoryAssumption, DirectoryInv, Typed
  <1> DEFINE Sound(p) == /\ op[p] = None => passed[p] = 0
                         /\ op[p] # None /\ ~ disturbed[p] =>
                              \A i \in 1 .. passed[p] : Checks(op[p])[i]
  <1> SUFFICES ASSUME NEW p \in Request PROVE Sound(p)'
    BY DEF Held
  <1>s. Sound(p)
    BY DEF Held
  <1>k. ASSUME UNCHANGED tables, op'[p] = op[p], passed'[p] = passed[p], disturbed'[p] = disturbed[p]
        PROVE  Sound(p)'
    <2>1. \A o : Checks(o)' = Checks(o)
      BY <1>k, SameChecks
    <2> QED BY <1>s, <1>k, <2>1
  <1>z. ASSUME passed'[p] = 0 PROVE Sound(p)'
    BY <1>z
  <1>1. ASSUME NEW q \in Request, NEW o \in Op, Receive(q, o) PROVE Sound(p)'
    <2>1. CASE p = q
      <3>1. passed'[p] = 0
        BY <1>1, <1>s, <2>1 DEF Receive
      <3> QED BY <3>1, <1>z
    <2>2. CASE p # q
      BY <1>1, <1>k, <2>2 DEF Receive, history
    <2> QED BY <2>1, <2>2
  <1>2. ASSUME NEW q \in Request, Pass(q) PROVE Sound(p)'
    <2>1. CASE p = q
      <3>1. /\ op[p] # None /\ op' = op /\ UNCHANGED tables /\ disturbed' = disturbed
            /\ passed'[p] = passed[p] + 1 /\ Checks(op[p])[passed[p] + 1]
        BY <1>2, <2>1 DEF Pass, history
      <3>2. Checks(op[p])' = Checks(op[p])
        <4>1. \A o : Checks(o)' = Checks(o)
          BY <3>1, SameChecks
        <4> QED BY <3>1, <4>1
      <3>3. ASSUME ~ disturbed[p], NEW i \in 1 .. passed[p] + 1 PROVE Checks(op[p])[i]
        <4>1. i \in 1 .. passed[p] \/ i = passed[p] + 1
          BY <3>3
        <4> QED BY <1>s, <3>1, <3>3, <4>1
      <3> QED BY <3>1, <3>2, <3>3
    <2>2. CASE p # q
      BY <1>2, <1>k, <2>2 DEF Pass, history
    <2> QED BY <2>1, <2>2
  <1>3. ASSUME NEW q \in Request, Ends(q) PROVE Sound(p)'
    <2>1. CASE p = q
      BY <1>3, <1>z, <2>1 DEF Ends, Close
    <2>2. CASE p # q
      BY <1>3, <1>k, <2>2 DEF Ends, Close, Forget
    <2> QED BY <2>1, <2>2
  <1>4. ASSUME NEW q \in Request, Commit(q) PROVE Sound(p)'
    <2>1. CASE p = q \/ passed[p] = 0
      BY <1>4, <1>z, <2>1 DEF Commit, Close
    <2>2. CASE p # q /\ passed[p] # 0
      <3>1. passed[p] > 0 /\ op[p] # None
        BY <1>s, <2>2
      <3>2. op'[p] = op[p] /\ passed'[p] = passed[p]
        BY <1>4, <2>2 DEF Commit, Close
      <3>3. disturbed'[p] = (p # q /\ (disturbed[p] \/ passed[p] > 0))
        BY <1>4 DEF Commit, Disturb
      <3> QED BY <2>2, <3>1, <3>2, <3>3
    <2> QED BY <2>1, <2>2
  <1>5. ASSUME NEW d \in Dispatcher, Insert(d) PROVE Sound(p)'
    <2>1. op' = op /\ passed' = passed
      BY <1>5 DEF Insert, requests
    <2>2. CASE passed[p] = 0
      BY <1>z, <2>1, <2>2
    <2>3. CASE passed[p] # 0
      <3>1. passed[p] > 0 /\ op[p] # None /\ p # None
        BY <1>s, <2>3
      <3>2. disturbed'[p] = (p # None /\ (disturbed[p] \/ passed[p] > 0))
        BY <1>5 DEF Insert, Disturb
      <3> QED BY <2>1, <3>1, <3>2
    <2> QED BY <2>2, <2>3
  <1>6. \/ UNCHANGED <<tables, requests, disturbed>>
        \/ \E q \in Request, o \in Op : Receive(q, o)
        \/ \E q \in Request : Pass(q) \/ Ends(q) \/ Commit(q)
        \/ \E d \in Dispatcher : Insert(d)
    BY Steps DEF ReadRule, Take, ReadMembers, Keep, Leaves, Return, vars, history
  <1>7. CASE UNCHANGED <<tables, requests, disturbed>>
    BY <1>7, <1>k DEF requests
  <1> HIDE DEF Sound
  <1> QED BY <1>1, <1>2, <1>3, <1>4, <1>5, <1>6, <1>7

\* Only a commit takes a membership away, and it is remembered against whoever has read it.
LEMMA NextPlanned ==
  ASSUME DirectoryAssumption, DirectoryInv, Typed', [Next]_vars PROVE Planned'
  <1> USE DEF DirectoryAssumption, DirectoryInv, Typed
  <1> DEFINE Sound(d) ==
        IF place[d] = "inserting"
        THEN /\ Todo(d) = read[d] \X Channel
             /\ \A c \in read[d] : <<target[d], c>> \in members \/ removed[d]
        ELSE left[d] = {} /\ kept[d] = {} /\ holding[d] = None
  <1> SUFFICES ASSUME NEW d \in Dispatcher PROVE Sound(d)'
    BY DEF Planned
  <1>s. Sound(d)
    BY DEF Planned
  \* A step of somebody else that takes no membership away.
  <1>k. ASSUME place'[d] = place[d], target'[d] = target[d], read'[d] = read[d], left'[d] = left[d],
               kept'[d] = kept[d], holding'[d] = holding[d], removed'[d] = removed[d],
               members \subseteq members'
        PROVE  Sound(d)'
    BY <1>k, <1>s DEF Todo
  <1>1. ASSUME NEW q \in Request, Commit(q) PROVE Sound(d)'
    <2>1. UNCHANGED dispatchers /\ op[q] \in Op /\ Write(op[q], loaded[q])
      BY <1>1 DEF Commit, AtCommit
    <2>2. CASE op[q].kind = "delete_member"
      <3>1. members' = members \ {<<op[q].group, op[q].contact>>}
        BY <2>1, <2>2 DEF Write
      <3>2. removed'[d] =
              (removed[d] \/ (op[q].group = target[d] /\ op[q].contact \in read[d]))
        BY <1>1, <2>2 DEF Commit
      <3> QED BY <1>s, <2>1, <3>1, <3>2 DEF dispatchers, Todo
    <2>3. CASE op[q].kind # "delete_member"
      <3>1. members \subseteq members' /\ removed'[d] = removed[d]
        BY <1>1, <2>1, <2>3 DEF Commit, Write
      <3> QED BY <2>1, <3>1, <1>k DEF dispatchers
    <2> QED BY <2>2, <2>3
  <1>2. ASSUME NEW e \in Dispatcher, NEW r \in Rule, ReadRule(e, r) PROVE Sound(d)'
    BY <1>2, <1>k, <1>s DEF ReadRule, AtWork, Place, tables, history
  <1>3. ASSUME NEW e \in Dispatcher, ReadMembers(e) PROVE Sound(d)'
    <2>1. CASE e # d
      BY <1>3, <1>k, <2>1 DEF ReadMembers, Place, tables, history
    <2>2. CASE e = d
      <3>1. kept[d] = {} /\ holding[d] = None
        BY <1>3, <1>s, <2>2 DEF ReadMembers
      <3>2. /\ place'[d] = "inserting" /\ read'[d] = {c \in Contact : <<target[d], c>> \in members}
            /\ left'[d] = read'[d] \X Channel
            /\ UNCHANGED <<kept, holding, target, members>>
        BY <1>3, <2>2 DEF ReadMembers, Place, tables
      <3> QED BY <3>1, <3>2 DEF Todo
    <2> QED BY <2>1, <2>2
  <1>4. ASSUME NEW e \in Dispatcher, NEW t \in Contact \X Channel, Take(e, t) PROVE Sound(d)'
    <2>1. CASE e # d
      BY <1>4, <1>k, <2>1 DEF Take, tables, history
    <2>2. CASE e = d
      <3>1. /\ place[d] = "inserting" /\ holding[d] = None /\ t \in left[d] /\ t # None
            /\ left'[d] = left[d] \ {t} /\ holding'[d] = t
            /\ UNCHANGED <<place, target, read, kept, members, removed>>
        BY <1>4, <2>2 DEF Take, tables, history
      <3>2. Todo(d)' = Todo(d)
        BY <3>1 DEF Todo
      <3> QED BY <1>s, <3>1, <3>2
    <2> QED BY <2>1, <2>2
  <1>5. ASSUME NEW e \in Dispatcher, Keep(e) \/ Insert(e) PROVE Sound(d)'
    <2>0. members' = members /\ removed' = removed
      BY <1>5 DEF Keep, Insert, tables, history
    <2>1. CASE e # d
      BY <1>5, <2>0, <1>k, <2>1 DEF Keep, Insert
    <2>2. CASE e = d
      <3>1. /\ holding[d] # None /\ kept'[d] = kept[d] \cup {holding[d]} /\ holding'[d] = None
            /\ UNCHANGED <<place, target, read, left>>
        BY <1>5, <2>2 DEF Keep, Insert, References
      <3>2. Todo(d)' = Todo(d)
        BY <3>1 DEF Todo
      <3> QED BY <1>s, <2>0, <3>1, <3>2
    <2> QED BY <2>1, <2>2
  <1>6. ASSUME NEW e \in Dispatcher, Leaves(e) PROVE Sound(d)'
    <2>0. PICK end \in {"idle", "failed"} : Return(e, end)
      BY <1>6 DEF Leaves
    <2>1. CASE e # d
      <3>1. members' = members
        BY <2>0 DEF Return, tables
      <3> QED BY <2>0, <1>k, <2>1, <3>1 DEF Return, Place
    <2>2. CASE e = d
      BY <2>0, <2>2 DEF Return, Place
    <2> QED BY <2>1, <2>2
  <1>7. \/ UNCHANGED <<dispatchers, members, removed>>
        \/ \E q \in Request : Commit(q)
        \/ \E e \in Dispatcher, r \in Rule : ReadRule(e, r)
        \/ \E e \in Dispatcher, t \in Contact \X Channel : Take(e, t)
        \/ \E e \in Dispatcher : ReadMembers(e) \/ Keep(e) \/ Insert(e) \/ Leaves(e)
    BY Steps DEF Receive, Pass, Ends, vars, tables, history
  <1>8. CASE UNCHANGED <<dispatchers, members, removed>>
    BY <1>8, <1>k DEF dispatchers
  <1> HIDE DEF Sound
  <1> QED BY <1>1, <1>2, <1>3, <1>4, <1>5, <1>6, <1>7, <1>8

\* How many checks there are.
LEMMA FewChecks ==
  ASSUME NEW o \in Op
  PROVE  Len(Checks(o)) \in 0 .. 3
  <1>1. o.kind \in {"delete_contact", "delete_group", "add_member", "delete_member"} => Len(Checks(o)) = 3
    BY DEF Checks
  <1>2. o.kind = "update_rule" => Len(Checks(o)) = 2
    BY DEF Checks
  <1>3. o.kind \in {"update_contact", "update_group", "toggle_rule"} => Len(Checks(o)) = 1
    BY DEF Checks
  <1>4. o.kind \in {"create_contact", "create_group", "create_rule"} => Len(Checks(o)) = 0
    BY DEF Checks
  <1>5. \/ o.kind \in {"delete_contact", "delete_group", "add_member", "delete_member"}
        \/ o.kind = "update_rule"
        \/ o.kind \in {"update_contact", "update_group", "toggle_rule"}
        \/ o.kind \in {"create_contact", "create_group", "create_rule"}
    BY DEF Op
  <1> QED BY <1>1, <1>2, <1>3, <1>4, <1>5

\* The first check of what deletes or toggles is for the row.
LEMMA FirstCheck ==
  ASSUME NEW o \in Op
  PROVE  /\ o.kind = "delete_contact" => Len(Checks(o)) = 3 /\ (Checks(o)[1] <=> o.contact \in contacts)
         /\ o.kind = "delete_group" => Len(Checks(o)) = 3 /\ (Checks(o)[1] <=> o.group \in groups)
         /\ o.kind = "toggle_rule" => Len(Checks(o)) = 1
  BY DEF Checks

LEMMA SameLength ==
  ASSUME NEW CONSTANT o \in Op
  PROVE  Len(Checks(o))' = Len(Checks(o))
  <1>1. CASE o.kind = "delete_contact"
    BY <1>1 DEF Checks
  <1>2. CASE o.kind = "delete_group"
    BY <1>2 DEF Checks
  <1>3. CASE o.kind = "add_member"
    BY <1>3 DEF Checks
  <1>4. CASE o.kind = "delete_member"
    BY <1>4 DEF Checks
  <1>5. CASE o.kind = "update_rule"
    BY <1>5 DEF Checks
  <1>6. CASE o.kind \in {"update_contact", "update_group", "toggle_rule"}
    BY <1>6 DEF Checks
  <1>7. CASE o.kind \in {"create_contact", "create_group", "create_rule"}
    BY <1>7 DEF Checks
  <1> QED BY <1>1, <1>2, <1>3, <1>4, <1>5, <1>6, <1>7 DEF Op

\* A request that others do not disturb stays as it is, while no row comes or goes
\* but by a request with an identifier of its own.
LEMMA StaysPending ==
  ASSUME NEW CONSTANT p \in Request, Typed, Pending(p),
         op'[p] = op[p], passed'[p] = passed[p], loaded'[p] = loaded[p],
         contacts \cup gone \subseteq (contacts \cup gone)',
         groups \cup gone \subseteq (groups \cup gone)',
         op[p] # None /\ op[p].kind = "create_contact" => op[p].contact \notin (contacts \cup gone)',
         op[p] # None /\ op[p].kind = "create_group" => op[p].group \notin (groups \cup gone)'
  PROVE  Pending(p)'
  <1>1. \A o \in Op : Len(Checks(o))' = Len(Checks(o))
    BY SameLength
  <1>2. op[p] # None => op[p] \in Op
    BY DEF Typed
  <1> QED BY <1>1, <1>2 DEF Pending

LEMMA NextPending ==
  ASSUME DirectoryAssumption, DirectoryInv, [Next]_vars, NEW CONSTANT p \in Request
  PROVE  Pending(p)'
  <1> USE DEF DirectoryAssumption, DirectoryInv, Typed
  <1>s. Pending(p) /\ (op[p] = None => passed[p] = 0) /\ Typed
    BY DEF Formed, Held
  <1>n. ASSUME op'[p] = None PROVE Pending(p)'
    BY <1>n DEF Pending
  <1>k. ASSUME op'[p] = op[p], passed'[p] = passed[p], loaded'[p] = loaded[p],
               contacts' = contacts, groups' = groups, gone' = gone
        PROVE  Pending(p)'
    <2>1. /\ op[p] # None /\ op[p].kind = "create_contact" => op[p].contact \notin (contacts \cup gone)'
          /\ op[p] # None /\ op[p].kind = "create_group" => op[p].group \notin (groups \cup gone)'
      BY <1>s, <1>k DEF Pending
    <2> QED BY <1>s, <1>k, <2>1, StaysPending
  <1>1. ASSUME NEW q \in Request, NEW o \in Op, Receive(q, o) PROVE Pending(p)'
    <2>1. CASE p # q
      BY <1>1, <1>k, <2>1 DEF Receive, tables
    <2>2. CASE p = q
      <3>1. op'[p] = o /\ passed'[p] = 0
        BY <1>1, <1>s, <2>2 DEF Receive
      <3>2. /\ o.kind = "create_contact" => o.contact \notin (contacts \cup gone)'
            /\ o.kind = "create_group" => o.group \notin (groups \cup gone)'
        BY <1>1 DEF Receive, tables
      <3>3. (Len(Checks(o)) \in Nat)'
        BY FewChecks, SameLength
      <3> QED BY <3>1, <3>2, <3>3 DEF Pending
    <2> QED BY <2>1, <2>2
  <1>2. ASSUME NEW q \in Request, Pass(q) PROVE Pending(p)'
    <2>1. CASE p # q
      BY <1>2, <1>k, <2>1 DEF Pass, tables
    <2>2. CASE p = q
      <3>1. PICK o \in Op : o = op[p]
        BY <1>2, <2>2 DEF Pass
      <3>2. /\ op'[p] = o /\ passed'[p] = passed[p] + 1 /\ passed[p] + 1 <= Len(Checks(o))
            /\ Checks(o)[passed[p] + 1] /\ UNCHANGED tables
            /\ loaded' = [loaded EXCEPT ![p] =
                 IF passed[p] + 1 > 1 THEN @
                 ELSE CASE o.kind = "toggle_rule" -> active[o.rule]
                        [] o.kind = "update_rule" -> ruleGroup[o.rule]
                        [] OTHER -> None]
        BY <1>2, <2>2, <3>1 DEF Pass
      <3>3. (Len(Checks(o)))' = Len(Checks(o))
        BY SameLength
      <3>4. o.kind = "toggle_rule" => loaded'[p] \in BOOLEAN
        <4>1. SUFFICES ASSUME o.kind = "toggle_rule" PROVE loaded'[p] \in BOOLEAN
          OBVIOUS
        <4>2. passed[p] = 0
          BY <3>2, <4>1, FirstCheck
        <4>3. loaded'[p] = active[o.rule] /\ o.rule \in Rule
          BY <3>2, <4>1, <4>2 DEF Formed, Op
        <4> QED BY <4>3 DEF Formed
      <3>5. o.kind = "delete_contact" => o.contact \in contacts \cup gone
        <4>1. CASE passed[p] = 0
          BY <3>2, <4>1, FirstCheck
        <4>2. CASE passed[p] # 0
          BY <1>s, <3>1, <3>2, <4>2 DEF Pending
        <4> QED BY <4>1, <4>2
      <3>6. o.kind = "delete_group" => o.group \in groups \cup gone
        <4>1. CASE passed[p] = 0
          BY <3>2, <4>1, FirstCheck
        <4>2. CASE passed[p] # 0
          BY <1>s, <3>1, <3>2, <4>2 DEF Pending
        <4> QED BY <4>1, <4>2
      <3>7. /\ o.kind = "create_contact" => o.contact \notin contacts \cup gone
            /\ o.kind = "create_group" => o.group \notin groups \cup gone
        BY <1>s, <1>2, <2>2, <3>1 DEF Pending, Pass
      <3> QED BY <3>2, <3>3, <3>4, <3>5, <3>6, <3>7 DEF Pending, tables
    <2> QED BY <2>1, <2>2
  <1>3. ASSUME NEW q \in Request, Ends(q) PROVE Pending(p)'
    <2>1. CASE p = q
      BY <1>3, <1>n, <2>1 DEF Ends, Close
    <2>2. CASE p # q
      BY <1>3, <1>k, <2>2 DEF Ends, Close, tables
    <2> QED BY <2>1, <2>2
  <1>4. ASSUME NEW q \in Request, Commit(q) PROVE Pending(p)'
    <2>1. CASE p = q
      BY <1>4, <1>n, <2>1 DEF Commit, Close
    <2>2. CASE p # q
      <3>1. /\ op[q] \in Op /\ Write(op[q], loaded[q]) /\ passed[q] = Len(Checks(op[q]))
            /\ op[q] # None /\ op'[p] = op[p] /\ passed'[p] = passed[p] /\ loaded'[p] = loaded[p]
        BY <1>4, <2>2 DEF Commit, AtCommit, Close, Formed
      <3>2. /\ contacts \cup gone \subseteq (contacts \cup gone)'
            /\ groups \cup gone \subseteq (groups \cup gone)'
        BY <3>1 DEF Write
      <3>3. ASSUME op[p] # None, op[p].kind = "create_contact"
            PROVE  op[p].contact \notin (contacts \cup gone)'
        <4>1. op[p].contact \notin contacts \cup gone /\ op[p] \in Op /\ op[p] # op[q]
          BY <1>s, <2>2, <3>3 DEF Pending, Formed, Creator
        <4>2. op[p].contact \in Contact /\ op[p] = [kind |-> "create_contact", contact |-> op[p].contact]
          BY <3>3, <4>1 DEF Op
        <4>3. CASE op[q].kind = "create_contact"
          <5>1. op[q] = [kind |-> "create_contact", contact |-> op[q].contact]
            BY <3>1, <4>3 DEF Op
          <5>2. contacts' = contacts \cup {op[q].contact} /\ gone' = gone
            BY <3>1, <4>3 DEF Write
          <5> QED BY <4>1, <4>2, <5>1, <5>2
        <4>4. CASE op[q].kind = "delete_contact"
          <5>1. op[q].contact \in contacts \cup gone
            <6>1. Pending(q) /\ passed[q] > 0
              BY <3>1, <4>4, FirstCheck DEF Formed
            <6> QED BY <3>1, <4>4, <6>1 DEF Pending
          <5>2. contacts' \subseteq contacts /\ gone' = gone \cup {op[q].contact}
            BY <3>1, <4>4 DEF Write
          <5> QED BY <4>1, <5>1, <5>2
        <4>5. CASE op[q].kind = "delete_group"
          <5>1. op[q].group \in Group
            BY <3>1, <4>5 DEF Op
          <5>2. contacts' = contacts /\ gone' = gone \cup {op[q].group}
            BY <3>1, <4>5 DEF Write
          <5> QED BY <4>1, <4>2, <5>1, <5>2
        <4>6. CASE op[q].kind \notin {"create_contact", "delete_contact", "delete_group"}
          <5>1. contacts' = contacts /\ gone' = gone
            BY <3>1, <4>6 DEF Write
          <5> QED BY <4>1, <5>1
        <4> QED BY <4>3, <4>4, <4>5, <4>6
      <3>4. ASSUME op[p] # None, op[p].kind = "create_group"
            PROVE  op[p].group \notin (groups \cup gone)'
        <4>1. op[p].group \notin groups \cup gone /\ op[p] \in Op /\ op[p] # op[q]
          BY <1>s, <2>2, <3>4 DEF Pending, Formed, Creator
        <4>2. op[p].group \in Group /\ op[p] = [kind |-> "create_group", group |-> op[p].group]
          BY <3>4, <4>1 DEF Op
        <4>3. CASE op[q].kind = "create_group"
          <5>1. op[q] = [kind |-> "create_group", group |-> op[q].group]
            BY <3>1, <4>3 DEF Op
          <5>2. groups' = groups \cup {op[q].group} /\ gone' = gone
            BY <3>1, <4>3 DEF Write
          <5> QED BY <4>1, <4>2, <5>1, <5>2
        <4>4. CASE op[q].kind = "delete_group"
          <5>1. op[q].group \in groups \cup gone
            <6>1. Pending(q) /\ passed[q] > 0
              BY <3>1, <4>4, FirstCheck DEF Formed
            <6> QED BY <3>1, <4>4, <6>1 DEF Pending
          <5>2. groups' \subseteq groups /\ gone' = gone \cup {op[q].group}
            BY <3>1, <4>4 DEF Write
          <5> QED BY <4>1, <5>1, <5>2
        <4>5. CASE op[q].kind = "delete_contact"
          <5>1. op[q].contact \in Contact
            BY <3>1, <4>5 DEF Op
          <5>2. groups' = groups /\ gone' = gone \cup {op[q].contact}
            BY <3>1, <4>5 DEF Write
          <5> QED BY <4>1, <4>2, <5>1, <5>2
        <4>6. CASE op[q].kind \notin {"create_group", "delete_group", "delete_contact"}
          <5>1. groups' = groups /\ gone' = gone
            BY <3>1, <4>6 DEF Write
          <5> QED BY <4>1, <5>1
        <4> QED BY <4>3, <4>4, <4>5, <4>6
      <3> QED BY <1>s, <3>1, <3>2, <3>3, <3>4, StaysPending
    <2> QED BY <2>1, <2>2
  <1>5. ASSUME NEW d \in Dispatcher, Insert(d) PROVE Pending(p)'
    BY <1>5, <1>k DEF Insert, requests
  <1>6. \/ UNCHANGED <<tables, requests>>
        \/ \E q \in Request, o \in Op : Receive(q, o)
        \/ \E q \in Request : Pass(q) \/ Ends(q) \/ Commit(q)
        \/ \E d \in Dispatcher : Insert(d)
    BY Steps DEF ReadRule, Take, ReadMembers, Keep, Leaves, Return, vars
  <1>7. CASE UNCHANGED <<tables, requests>>
    BY <1>7, <1>k DEF requests, tables
  <1> QED BY <1>1, <1>2, <1>3, <1>4, <1>5, <1>6, <1>7

\* The rest of what Formed says.
LEMMA NextFormed ==
  ASSUME DirectoryAssumption, DirectoryInv, [Next]_vars PROVE Formed'
  <1>p. \A p \in Request : Pending(p)'
    BY NextPending
  <1> USE DEF DirectoryAssumption, DirectoryInv, Typed
  <1> DEFINE Rows ==
        /\ active \in [Rule -> BOOLEAN]
        /\ loaded \in [Request -> Group \cup BOOLEAN \cup {None}]
        /\ expired \in [Dispatcher -> BOOLEAN]
        /\ \A d \in Dispatcher : kept[d] \subseteq notified
        /\ gone \subseteq Contact \cup Group /\ gone \cap (contacts \cup groups) = {}
      Single == \A p, q \in Request : p # q /\ Creator(p) => op[p] # op[q]
  <1>s. Rows /\ Single
    BY DEF Formed
  <1>f. ASSUME Rows', Single' PROVE Formed'
    BY <1>p, <1>f DEF Formed
  <1>o. ASSUME \A p \in Request : op'[p] \in {op[p], None} PROVE Single'
    BY <1>o, <1>s DEF Creator
  <1>1. ASSUME NEW q \in Request, NEW o \in Op, Receive(q, o) PROVE Formed'
    <2>1. Rows'
      BY <1>1, <1>s DEF Receive, tables, dispatchers
    <2>2. Single'
      <3>1. /\ op' = [op EXCEPT ![q] = o]
            /\ \A p \in Request : Creator(p) => op[p] # o
        BY <1>1 DEF Receive, Creator
      <3>2. \A p \in Request : Creator(q)' => op[p] # o
        BY <3>1 DEF Creator
      <3> QED BY <1>s, <3>1, <3>2 DEF Creator
    <2> QED BY <1>f, <2>1, <2>2
  <1>2. ASSUME NEW q \in Request, Pass(q) PROVE Formed'
    <2>1. UNCHANGED <<tables, op, dispatchers>>
      BY <1>2 DEF Pass
    <2>2. loaded' \in [Request -> Group \cup BOOLEAN \cup {None}]
      <3>1. op[q] \in Op
        BY <1>2 DEF Pass
      <3>2. op[q].kind = "toggle_rule" => active[op[q].rule] \in BOOLEAN
        BY <1>s, <3>1 DEF Op
      <3>3. op[q].kind = "update_rule" => ruleGroup[op[q].rule] \in Group \cup {None}
        BY <3>1 DEF Op
      <3> QED BY <1>s, <1>2, <3>2, <3>3 DEF Pass
    <2>3. Rows'
      BY <1>s, <2>1, <2>2 DEF tables, dispatchers
    <2> QED BY <1>f, <1>o, <2>1, <2>3
  <1>3. ASSUME NEW q \in Request, Ends(q) PROVE Formed'
    <2>1. Rows'
      BY <1>3, <1>s DEF Ends, Close, tables, dispatchers
    <2>2. \A p \in Request : op'[p] \in {op[p], None}
      BY <1>3 DEF Ends, Close
    <2> QED BY <1>f, <1>o, <2>1, <2>2
  <1>4. ASSUME NEW q \in Request, Commit(q) PROVE Formed'
    <2>1. /\ op[q] \in Op /\ op[q] # None /\ Write(op[q], loaded[q]) /\ Close(q)
          /\ passed[q] = Len(Checks(op[q])) /\ UNCHANGED dispatchers /\ Pending(q)
      BY <1>4 DEF Commit, AtCommit, Formed
    <2>2. active' \in [Rule -> BOOLEAN]
      <3>1. CASE op[q].kind = "toggle_rule"
        <4>1. loaded[q] \in BOOLEAN
          <5>1. Len(Checks(op[q])) = 1
            BY <2>1, <3>1, FirstCheck
          <5>2. passed[q] = 1
            BY <2>1, <5>1
          <5>3. passed[q] > 0
            BY <5>2
          <5> QED BY <2>1, <3>1, <5>3 DEF Pending
        <4>2. active' = [active EXCEPT ![op[q].rule] = ~ loaded[q]]
          BY <2>1, <3>1 DEF Write
        <4> QED BY <1>s, <4>1, <4>2
      <3>2. CASE op[q].kind # "toggle_rule"
        <4>1. active' = active \/ active' = [active EXCEPT ![op[q].rule] = TRUE]
          BY <2>1, <3>2 DEF Write
        <4> QED BY <1>s, <4>1
      <3> QED BY <3>1, <3>2
    <2>3. gone' \subseteq Contact \cup Group /\ gone' \cap (contacts' \cup groups') = {}
      <3>1. CASE op[q].kind = "create_contact"
        <4>1. contacts' = contacts \cup {op[q].contact} /\ groups' = groups /\ gone' = gone
          BY <2>1, <3>1 DEF Write
        <4> QED BY <1>s, <2>1, <3>1, <4>1 DEF Pending
      <3>2. CASE op[q].kind = "create_group"
        <4>1. contacts' = contacts /\ groups' = groups \cup {op[q].group} /\ gone' = gone
          BY <2>1, <3>2 DEF Write
        <4> QED BY <1>s, <2>1, <3>2, <4>1 DEF Pending
      <3>3. CASE op[q].kind = "delete_contact"
        <4>1. /\ contacts' = contacts \ {op[q].contact} /\ groups' = groups
              /\ gone' = gone \cup {op[q].contact} /\ op[q].contact \in Contact
          BY <2>1, <3>3 DEF Write, Op
        <4> QED BY <1>s, <4>1
      <3>4. CASE op[q].kind = "delete_group"
        <4>1. /\ contacts' = contacts /\ groups' = groups \ {op[q].group}
              /\ gone' = gone \cup {op[q].group} /\ op[q].group \in Group
          BY <2>1, <3>4 DEF Write, Op
        <4> QED BY <1>s, <4>1
      <3>5. CASE op[q].kind \notin {"create_contact", "create_group", "delete_contact", "delete_group"}
        <4>1. contacts' = contacts /\ groups' = groups /\ gone' = gone
          BY <2>1, <3>5 DEF Write
        <4> QED BY <1>s, <4>1
      <3> QED BY <3>1, <3>2, <3>3, <3>4, <3>5
    <2>4. Rows'
      <3>1. loaded' \in [Request -> Group \cup BOOLEAN \cup {None}] /\ notified' = notified
        BY <1>s, <2>1 DEF Close, Write
      <3> QED BY <1>s, <2>1, <2>2, <2>3, <3>1 DEF dispatchers
    <2>5. \A p \in Request : op'[p] \in {op[p], None}
      BY <2>1 DEF Close
    <2> QED BY <1>f, <1>o, <2>4, <2>5
  <1>5. ASSUME NEW d \in Dispatcher, Keep(d) \/ Insert(d) PROVE Formed'
    <2>1. Rows'
      <3>1. CASE Keep(d)
        BY <1>s, <3>1 DEF Keep, tables, requests
      <3>2. CASE Insert(d)
        <4>1. /\ notified' = notified \cup {holding[d]} /\ kept' = [kept EXCEPT ![d] = @ \cup {holding[d]}]
              /\ expired' = [expired EXCEPT ![d] = TRUE]
              /\ UNCHANGED <<contacts, groups, active, gone, loaded>>
          BY <3>2 DEF Insert, requests
        <4>2. \A e \in Dispatcher : kept'[e] \subseteq notified'
          BY <1>s, <4>1
        <4> QED BY <1>s, <4>1, <4>2
      <3> QED BY <1>5, <3>1, <3>2
    <2>2. op' = op
      BY <1>5 DEF Keep, Insert, requests
    <2> QED BY <1>f, <1>o, <2>1, <2>2
  <1>6. ASSUME NEW d \in Dispatcher, Leaves(d) PROVE Formed'
    <2>1. Rows' /\ op' = op
      BY <1>6, <1>s DEF Leaves, Return, tables, requests
    <2> QED BY <1>f, <1>o, <2>1
  <1>7. \/ UNCHANGED <<tables, requests, kept, expired>>
        \/ \E q \in Request, o \in Op : Receive(q, o)
        \/ \E q \in Request : Pass(q) \/ Ends(q) \/ Commit(q)
        \/ \E d \in Dispatcher : Keep(d) \/ Insert(d) \/ Leaves(d)
    BY Steps DEF ReadRule, Take, ReadMembers, vars, dispatchers
  <1>8. CASE UNCHANGED <<tables, requests, kept, expired>>
    <2>1. Rows' /\ op' = op
      BY <1>8, <1>s DEF tables, requests
    <2> QED BY <1>f, <1>o, <2>1
  <1> QED BY <1>1, <1>2, <1>3, <1>4, <1>5, <1>6, <1>7, <1>8

\* All that TypeOK says follows.
LEMMA TypeFollows == DirectoryInv => TypeOK
  <1> SUFFICES ASSUME DirectoryInv PROVE TypeOK
    OBVIOUS
  <1>1. passed \in [Request -> 0 .. 3]
    <2>1. ASSUME NEW q \in Request PROVE passed[q] \in 0 .. 3
      <3>1. CASE op[q] = None
        BY <3>1 DEF DirectoryInv, Held
      <3>2. CASE op[q] # None
        <4>1. op[q] \in Op /\ passed[q] \in Nat /\ passed[q] <= Len(Checks(op[q]))
          BY <3>2 DEF DirectoryInv, Typed, Formed, Pending
        <4>2. PICK n \in 0 .. 3 : n = Len(Checks(op[q]))
          BY <4>1, FewChecks
        <4>3. PICK m \in Nat : m = passed[q]
          BY <4>1
        <4>4. m <= n
          BY <4>1, <4>2, <4>3, Zenon
        <4>5. m \in 0 .. 3
          BY <4>4
        <4> QED BY <4>3, <4>5
      <3> QED BY <3>1, <3>2
    <2> QED BY <2>1 DEF DirectoryInv, Typed
  <1>2. ASSUME NEW d \in Dispatcher PROVE left[d] \cup kept[d] \subseteq read[d] \X Channel
    BY DEF DirectoryInv, Planned, Todo
  <1> QED BY <1>1, <1>2 DEF DirectoryInv, Typed, Formed, TypeOK

-----------------------------------------------------------------------------
\* What the theorems below follow from.
THEOREM DirectoryInductive == Spec => []DirectoryInv
  <1>0. DirectoryAssumption
    BY EndpointsAssumption DEF EndpointsAssumption
  <1>1. ASSUME DirectoryInv, [Next]_vars PROVE DirectoryInv'
    BY <1>0, <1>1, NextTyped, NextReferences, NextHeld, NextPlanned, NextFormed DEF DirectoryInv
  <1> QED BY DirectoryInit, <1>1, PTL DEF Spec

\* An endpoint that PostgreSQL refuses has been overtaken by another session, but for
\* create_rule, which asks for nothing first.
THEOREM Races == Spec => ErrorOnlyFromARace
  <1>1. ASSUME DirectoryInv, NEW q \in Request, Break(q), op[q].kind # "create_rule" PROVE disturbed[q]
    <2>1. op[q] \in Op /\ op[q] # None /\ passed[q] = Len(Checks(op[q])) /\ Breaks(op[q])
      BY <1>1 DEF Break, AtCommit, DirectoryInv, Typed
    <2>2. ASSUME ~ disturbed[q] PROVE FALSE
      <3>1. \A i \in 1 .. Len(Checks(op[q])) : Checks(op[q])[i]
        BY <1>1, <2>1, <2>2 DEF DirectoryInv, Held
      <3> QED BY <1>1, <2>1, <3>1, ChecksSuffice
    <2> QED BY <2>2
  <1>2. ASSUME DirectoryInv, [Next]_vars
        PROVE  [\A q \in Request : Break(q) /\ op[q].kind # "create_rule" => disturbed[q]]_vars
    BY <1>1, <1>2
  <1> QED BY DirectoryInductive, <1>2, PTL DEF Spec, ErrorOnlyFromARace

\* dispatch_incident ends with a row for every member it has read and every channel,
\* or because one of the memberships was removed, or because a query or commit failed:
\* the foreign keys leave no other way for it to raise.
THEOREM Reached == Spec => DispatchReachesMembers
  <1>1. ASSUME DirectoryInv, [Next]_vars, NEW d \in Dispatcher, AtWork(d), place'[d] = "idle"
        PROVE  kept[d] = read[d] \X Channel \/ removed[d]
    <2> USE DEF DirectoryInv, Typed
    <2>w. place[d] \in {"reading", "inserting"}
      BY <1>1 DEF AtWork
    <2>2. Queue(d) \/ Raise(d)
      <3>1. ASSUME NEW e \in Dispatcher, Queue(e) \/ Raise(e) PROVE e = d
        BY <1>1, <2>w, <3>1 DEF Queue, Raise, Return, Place
      <3>2. ASSUME place' = place PROVE FALSE
        BY <2>w, <1>1, <3>2
      <3>3. ASSUME NEW e \in Dispatcher, ReadMembers(e) PROVE FALSE
        BY <1>1, <2>w, <3>3 DEF ReadMembers, Place
      <3>4. ASSUME NEW e \in Dispatcher, NEW r \in Rule, ReadRule(e, r) PROVE FALSE
        BY <1>1, <2>w, <3>4 DEF ReadRule, Place
      <3>5. ASSUME NEW q \in Request,
                   \/ \E o \in Op : Receive(q, o)
                   \/ Pass(q) \/ Refuse(q) \/ Commit(q) \/ Break(q) \/ NameTaken(q) \/ Fail(q)
            PROVE  FALSE
        BY <3>2, <3>5
          DEF Receive, Pass, Refuse, Commit, Break, NameTaken, Fail, dispatchers
      <3>6. ASSUME NEW e \in Dispatcher,
                   \/ \E t \in Contact \X Channel : Take(e, t)
                   \/ Keep(e) \/ Insert(e)
            PROVE  FALSE
        BY <3>2, <3>6 DEF Take, Keep, Insert
      <3>7. ASSUME UNCHANGED vars PROVE FALSE
        BY <3>2, <3>7 DEF vars, dispatchers
      <3>8. ASSUME NEW e \in Dispatcher, Abort(e) PROVE FALSE
        BY <1>1, <2>w, <3>8 DEF Abort, Return, Place
      <3> QED BY <1>1, <3>1, <3>3, <3>4, <3>5, <3>6, <3>7, <3>8 DEF Next
    <2>1. /\ Todo(d) = read[d] \X Channel
          /\ \A c \in read[d] : <<target[d], c>> \in members \/ removed[d]
      <3>1. place[d] = "inserting"
        BY <2>2 DEF Queue, Raise
      <3> QED BY <1>1, <3>1 DEF Planned
    <2>3. CASE Queue(d)
      BY <2>1, <2>3 DEF Queue, Todo
    <2>4. CASE Raise(d)
      <3>1. PICK t \in Todo(d) : t[1] \in read[d] /\ <<target[d], t[1]>> \notin members
        <4>1. \A t \in Todo(d) : t[1] \in read[d]
          BY <2>1
        <4>2. CASE holding[d] = None /\ \E t \in left[d] : Gone(d, t)
          BY <4>1, <4>2 DEF Gone, Todo
        <4>3. CASE holding[d] # None /\ holding[d][1] \notin contacts
          <5>1. holding[d] \in Todo(d)
            BY <4>3 DEF Todo
          <5>2. \A x : <<target[d], x>> \in members => x \in contacts
            BY <1>1 DEF References
          <5>3. <<target[d], holding[d][1]>> \notin members
            BY <4>3, <5>2
          <5> QED BY <4>1, <5>1, <5>3
        <4> QED BY <2>4, <4>2, <4>3 DEF Raise
      <3> QED BY <2>1, <3>1
    <2> QED BY <2>2, <2>3, <2>4
  <1>0. DirectoryAssumption
    BY EndpointsAssumption DEF EndpointsAssumption
  <1>2. ASSUME DirectoryInv, [Next]_vars
        PROVE  [\A d \in Dispatcher :
                  AtWork(d) /\ ~ AtWork(d)' =>
                    \/ kept[d] = read[d] \X Channel
                    \/ removed[d]
                    \/ place'[d] = "failed"]_vars
    <2>1. ASSUME NEW d \in Dispatcher, AtWork(d), ~ AtWork(d)', place'[d] # "failed"
          PROVE  kept[d] = read[d] \X Channel \/ removed[d]
      <3>1. Typed'
        BY <1>0, <1>2, NextTyped
      <3>2. place'[d] = "idle"
        BY <2>1, <3>1 DEF Typed, AtWork
      <3> QED BY <1>1, <1>2, <2>1, <3>2
    <2> QED BY <2>1
  <1> QED BY DirectoryInductive, <1>2, PTL DEF Spec, DispatchReachesMembers

-----------------------------------------------------------------------------
(***************************************************************************)
(* Readiness.  An incident with an ESCALATED entry has left OPEN, and what *)
(* the endpoint has read of an incident is out of date only if the         *)
(* incident was written meanwhile.                                         *)
(***************************************************************************)
ReadinessInv ==
  /\ O!TypeOK
  /\ \A i \in Incident : <<"ESCALATED", i>> \in logs => status[i] \notin {"none", "OPEN"}
  /\ asked > 0 => \A i \in Incident \ meanwhile : told.status[i] = status[i]

LEMMA ReadinessInit == O!Init => ReadinessInv
  <1> SUFFICES ASSUME O!Init PROVE ReadinessInv
    OBVIOUS
  <1>1. Registered \subseteq Task /\ MaxCommits \in Nat
    BY EndpointsAssumption DEF EndpointsAssumption, O!ReadinessAssumption
  <1>2. told \in [status : [Incident -> O!Statuses], logs : SUBSET logs, report : BOOLEAN]
    BY DEF O!Init, O!Unseen, O!Statuses
  <1>3. status \in [Incident -> O!Statuses] /\ beat \in [Task -> {"none", "ok", "error"}]
    BY DEF O!Init, O!Statuses
  <1>4. logs = {} /\ asked = 0 /\ meanwhile = {} /\ commits = 0
        /\ \A t \in Task \ Registered : beat[t] = "none"
    BY DEF O!Init
  <1>5. O!TypeOK
    <2>1. logs \subseteq O!Actions \X {i \in Incident : status[i] # "none"}
      BY <1>4
    <2>2. meanwhile \subseteq {i \in Incident : asked > 0}
      BY <1>4
    <2>3. asked \in 0 .. 3 /\ commits \in 0 .. MaxCommits
      BY <1>1, <1>4
    <2>4. report \in BOOLEAN
      BY DEF O!Init
    <2> QED BY <1>2, <1>3, <1>4, <2>1, <2>2, <2>3, <2>4 DEF O!TypeOK
  <1> QED BY <1>4, <1>5 DEF ReadinessInv

\* A commit writes one incident, and an escalation never leaves it OPEN.
LEMMA BecomeKeeps ==
  ASSUME ReadinessInv, NEW i \in Incident, NEW new \in O!Statuses \ {"none"}, NEW action \in O!Actions,
         O!Become(i, new, action),
         new = "OPEN" => status[i] \in {"none", "OPEN"} /\ action # "ESCALATED"
  PROVE  ReadinessInv'
  <1> USE DEF ReadinessInv, O!TypeOK
  <1>1. /\ commits' \in 0 .. MaxCommits
        /\ status' = [status EXCEPT ![i] = new] /\ logs' = logs \cup {<<action, i>>}
        /\ meanwhile' = (IF asked = 0 THEN {} ELSE meanwhile \cup {i})
        /\ UNCHANGED <<beat, report, asked, told>>
    <2>1. MaxCommits \in Nat
      BY EndpointsAssumption DEF EndpointsAssumption, O!ReadinessAssumption
    <2> QED BY <2>1 DEF O!Become
  <1>2. status' \in [Incident -> O!Statuses]
    BY <1>1
  <1>3. logs' \subseteq O!Actions \X {j \in Incident : status'[j] # "none"}
    <2>1. \A j \in Incident : status[j] # "none" => status'[j] # "none"
      BY <1>1
    <2>2. status'[i] # "none"
      BY <1>1
    <2> QED BY <1>1, <2>1, <2>2
  <1>4. told \in [status : [Incident -> O!Statuses], logs : SUBSET logs', report : BOOLEAN]
    BY <1>1
  <1>5. meanwhile' \subseteq {j \in Incident : asked > 0}
    BY <1>1
  <1>6. ASSUME NEW j \in Incident, <<"ESCALATED", j>> \in logs' PROVE status'[j] \notin {"none", "OPEN"}
    <2>1. CASE j = i
      <3>1. status'[j] = new
        BY <1>1, <2>1
      <3>2. new # "OPEN"
        BY <1>1, <1>6, <2>1
      <3> QED BY <3>1, <3>2
    <2>2. CASE j # i
      BY <1>1, <1>6, <2>2
    <2> QED BY <2>1, <2>2
  <1>7. asked > 0 => \A j \in Incident \ meanwhile' : told.status[j] = status'[j]
    BY <1>1
  <1> HIDE DEF ReadinessInv, O!TypeOK
  <1>8. beat' = beat /\ report' = report /\ asked' = asked /\ told' = told
    BY <1>1
  <1> QED BY <1>1, <1>2, <1>3, <1>4, <1>5, <1>6, <1>7, <1>8 DEF ReadinessInv, O!TypeOK

LEMMA ReadinessNext ==
  ASSUME ReadinessInv, [O!Next]_(O!vars) PROVE ReadinessInv'
  <1> USE DEF ReadinessInv, O!TypeOK
  <1>0. Registered \subseteq Task
    BY EndpointsAssumption DEF EndpointsAssumption, O!ReadinessAssumption
  <1>1. ASSUME NEW i \in Incident, O!Create(i) \/ O!Duplicate(i) PROVE ReadinessInv'
    <2>1. \E action \in O!Actions \ {"ESCALATED"} :
            O!Become(i, "OPEN", action) /\ status[i] \in {"none", "OPEN"}
      BY <1>1 DEF O!Create, O!Duplicate, O!Actions
    <2> HIDE DEF ReadinessInv
    <2> QED BY <2>1, BecomeKeeps DEF O!Statuses
  <1>2. ASSUME NEW i \in Incident, O!Acknowledge(i) \/ O!Escalate(i) \/ O!Resolve(i) PROVE ReadinessInv'
    <2>1. \E action \in O!Actions, new \in {"ACKNOWLEDGED", "ESCALATED", "RESOLVED"} : O!Become(i, new, action)
      BY <1>2 DEF O!Acknowledge, O!Escalate, O!Resolve, O!Actions
    <2> HIDE DEF ReadinessInv
    <2> QED BY <2>1, BecomeKeeps DEF O!Statuses
  <1>3. ASSUME NEW t \in Registered, NEW outcome \in {"ok", "error"}, O!EndTask(t, outcome) PROVE ReadinessInv'
    BY <1>0, <1>3 DEF O!EndTask
  <1>4. CASE O!EndReplay \/ O!ExpireReport
    BY <1>4 DEF O!EndReplay, O!ExpireReport
  <1>5. CASE O!ExpireMetrics
    BY <1>5 DEF O!ExpireMetrics
  <1>6. CASE O!Ask
    <2>1. /\ asked < 3 /\ asked' = asked + 1
          /\ UNCHANGED <<status, logs, beat, report, commits, meanwhile>>
      BY <1>6 DEF O!Ask
    <2>2. CASE asked = 0
      <3>1. told' = [told EXCEPT !.status = status]
        BY <1>6, <2>2 DEF O!Ask
      <3> QED BY <2>1, <2>2, <3>1
    <2>3. CASE asked = 1
      <3>1. told' = [told EXCEPT !.logs = logs]
        BY <1>6, <2>3 DEF O!Ask
      <3> QED BY <2>1, <2>3, <3>1
    <2>4. CASE asked = 2
      <3>1. told' = [told EXCEPT !.report = report]
        BY <1>6, <2>4 DEF O!Ask
      <3> QED BY <2>1, <2>4, <3>1
    <2> QED BY <2>1, <2>2, <2>3, <2>4
  <1>7. CASE O!Answer
    <2>1. /\ asked' = 0 /\ told' = O!Unseen /\ meanwhile' = {}
          /\ UNCHANGED <<status, logs, beat, report, commits>>
      BY <1>7 DEF O!Answer
    <2>2. told' \in [status : [Incident -> O!Statuses], logs : SUBSET logs, report : BOOLEAN]
      BY <2>1 DEF O!Unseen, O!Statuses
    <2> QED BY <2>1, <2>2
  <1>8. CASE UNCHANGED O!vars
    BY <1>8 DEF O!vars
  <1> HIDE DEF ReadinessInv, O!TypeOK
  <1> QED BY <1>1, <1>2, <1>3, <1>4, <1>5, <1>6, <1>7, <1>8 DEF O!Next

LEMMA GuardIsTorn == ReadinessInv => O!GuardOnlyFromTornRead
  BY DEF ReadinessInv, O!TypeOK, O!GuardOnlyFromTornRead, O!EscalationGuard, O!Logged

-----------------------------------------------------------------------------
(***************************************************************************)
(* Alerts.  While no refresh is on its way, was lost or came late, the     *)
(* field is the length of the list, or missing; and a worker that nobody   *)
(* has overtaken was told of the length.                                   *)
(***************************************************************************)
AlertsInv ==
  /\ A!TypeOK
  /\ ~ behind /\ ~ A!Refreshing => size \in {A!Missing, length}
  /\ \A w \in Worker : at[w] = "counted" /\ w \notin stale => counted[w] = length
  /\ step > 0 /\ before.fresh => seen.size \in {A!Missing, before.length}
  /\ step = 3 => A!Cardinality(before.created) <= seen.total

LEMMA AlertsConstants ==
  IsFiniteSet(Recent) /\ MaxLength \in Nat /\ MaxChanges \in Nat /\ MaxFaults \in Nat
  BY EndpointsAssumption DEF EndpointsAssumption, A!AlertsAssumption, A!IsFiniteSet, IsFiniteSet

\* Sets of recent incidents have a size, and a part of one is no larger.
LEMMA PartOfRecent ==
  ASSUME NEW S \in SUBSET Recent, NEW T \in SUBSET S
  PROVE  A!Cardinality(T) <= A!Cardinality(S) /\ A!Cardinality(S) \in Nat /\ A!Cardinality(T) \in Nat
  <1>1. \A U : A!Cardinality(U) = Cardinality(U)
    BY DEF A!Cardinality, Cardinality
  <1>2. IsFiniteSet(S)
    BY AlertsConstants, FS_Subset
  <1>3. IsFiniteSet(T) /\ Cardinality(T) <= Cardinality(S) /\ Cardinality(S) \in Nat /\ Cardinality(T) \in Nat
    BY <1>2, FS_Subset, FS_CardinalityType
  <1> QED BY <1>1, <1>3

LEMMA AlertsInit == A!Init => AlertsInv
  <1> SUFFICES ASSUME A!Init PROVE AlertsInv
    OBVIOUS
  <1>1. /\ created = {} /\ acked = {} /\ length = 0 /\ size = -1 /\ changes = 0 /\ faults = 0
        /\ stale = {} /\ behind = FALSE /\ step = 0
        /\ job = [w \in Worker |-> "none"] /\ at = [w \in Worker |-> "idle"] /\ counted = [w \in Worker |-> 0]
    BY DEF A!Init, A!Missing
  <1>2. /\ seen \in [size : A!Missing .. MaxLength, length : 0 .. MaxLength, total : Nat]
        /\ before \in [created : SUBSET created, length : 0 .. MaxLength, fresh : BOOLEAN]
    BY AlertsConstants DEF A!Init, A!Unseen, A!NotBefore, A!Missing
  <1>3. A!TypeOK
    <2>1. /\ acked \subseteq created /\ created \subseteq Recent /\ behind \in BOOLEAN
          /\ stale \subseteq {w \in Worker : at[w] = "counted"}
      BY <1>1
    <2>2. /\ length \in 0 .. MaxLength /\ size \in A!Missing .. MaxLength /\ step \in 0 .. 3
          /\ changes \in 0 .. MaxChanges /\ faults \in 0 .. MaxFaults
      BY AlertsConstants, <1>1 DEF A!Missing
    <2>3. /\ job \in [Worker -> {"none", "push", "replay", "prune"}]
          /\ at \in [Worker -> {"idle", "changed", "counted", "written"}]
          /\ counted \in [Worker -> 0 .. MaxLength]
      BY AlertsConstants, <1>1
    <2> QED BY <1>2, <2>1, <2>2, <2>3 DEF A!TypeOK
  <1> QED BY <1>1, <1>3 DEF AlertsInv, A!Missing

\* What a step that leaves the endpoint alone must show.
LEMMA AlertsSplit ==
  ASSUME AlertsInv, UNCHANGED <<created, step, seen, before>>,
         acked' \subseteq created,
         length' \in 0 .. MaxLength, size' \in A!Missing .. MaxLength,
         job' \in [Worker -> {"none", "push", "replay", "prune"}],
         at' \in [Worker -> {"idle", "changed", "counted", "written"}],
         counted' \in [Worker -> 0 .. MaxLength],
         changes' \in 0 .. MaxChanges, faults' \in 0 .. MaxFaults,
         stale' \subseteq {w \in Worker : at'[w] = "counted"}, behind' \in BOOLEAN,
         (~ behind /\ ~ A!Refreshing => size \in {A!Missing, length})',
         \A w \in Worker : at'[w] = "counted" /\ w \notin stale' => counted'[w] = length'
  PROVE  AlertsInv'
  BY DEF AlertsInv, A!TypeOK

\* The list changes under a worker: who was told of its length is overtaken.
LEMMA ResizeKeeps ==
  ASSUME AlertsInv, NEW w \in Worker, NEW n \in 0 .. MaxLength, A!Resize(w, n),
         job' \in [Worker -> {"none", "push", "replay", "prune"}],
         at[w] # "counted"
  PROVE  AlertsInv'
  <1> USE AlertsConstants DEF AlertsInv, A!TypeOK
  <1>1. /\ length' = n /\ at' = [at EXCEPT ![w] = "changed"]
        /\ UNCHANGED <<created, acked, size, counted, behind, step, seen, before, faults>>
    BY DEF A!Resize, A!Goto, A!incidents, A!endpoint
  <1>2. at' \in [Worker -> {"idle", "changed", "counted", "written"}]
    BY <1>1
  <1>3. A!Refreshing'
    BY <1>1, <1>2 DEF A!Refreshing
  <1>4. \A v \in Worker : at'[v] = "counted" <=> at[v] = "counted"
    BY <1>1
  <1>5. CASE n = length /\ UNCHANGED <<changes, stale>>
    <2>1. stale' \subseteq {v \in Worker : at'[v] = "counted"}
      BY <1>4, <1>5
    <2>2. \A v \in Worker : at'[v] = "counted" /\ v \notin stale' => counted'[v] = length'
      BY <1>1, <1>4, <1>5
    <2> HIDE DEF AlertsInv, A!TypeOK
    <2> QED BY <1>1, <1>2, <1>3, <1>5, <2>1, <2>2, AlertsSplit DEF AlertsInv, A!TypeOK
  <1>6. CASE /\ changes < MaxChanges /\ changes' = changes + 1
             /\ stale' = {v \in Worker : at[v] = "counted"}
    <2>1. stale' = {v \in Worker : at'[v] = "counted"}
      BY <1>4, <1>6
    <2>2. changes' \in 0 .. MaxChanges
      BY <1>6
    <2> HIDE DEF AlertsInv, A!TypeOK
    <2> QED BY <1>1, <1>2, <1>3, <2>1, <2>2, AlertsSplit DEF AlertsInv, A!TypeOK
  <1> QED BY <1>5, <1>6 DEF A!Resize

\* A worker that leaves before its refresh leaves the field behind.
LEMMA LeaveKeeps ==
  ASSUME AlertsInv, NEW w \in Worker, A!Leave(w), faults' \in 0 .. MaxFaults
  PROVE  AlertsInv'
  <1> USE AlertsConstants DEF AlertsInv, A!TypeOK
  <1>1. /\ job' = [job EXCEPT ![w] = "none"] /\ at' = [at EXCEPT ![w] = "idle"]
        /\ counted' = [counted EXCEPT ![w] = 0] /\ stale' = stale \ {w}
        /\ behind' = (behind \/ at[w] \in {"changed", "counted"})
        /\ UNCHANGED <<created, acked, length, size, step, seen, before, changes>>
    BY DEF A!Leave, A!Goto, A!incidents, A!endpoint
  <1>2. /\ job' \in [Worker -> {"none", "push", "replay", "prune"}]
        /\ at' \in [Worker -> {"idle", "changed", "counted", "written"}]
        /\ counted' \in [Worker -> 0 .. MaxLength]
    BY <1>1
  <1>3. ~ behind' /\ ~ A!Refreshing' => ~ behind /\ ~ A!Refreshing
    BY <1>1 DEF A!Refreshing
  <1>4. \A v \in Worker : at'[v] = "counted" => v # w /\ at[v] = "counted" /\ counted'[v] = counted[v]
    BY <1>1
  <1>5. stale' \subseteq {v \in Worker : at'[v] = "counted"}
    BY <1>1
  <1>6. \A v \in Worker : at'[v] = "counted" /\ v \notin stale' => counted'[v] = length'
    BY <1>1, <1>4
  <1>7. (~ behind /\ ~ A!Refreshing => size \in {A!Missing, length})'
    BY <1>1, <1>3 DEF A!Missing
  <1>8. behind' \in BOOLEAN
    BY <1>1
  <1> HIDE DEF AlertsInv, A!TypeOK
  <1> QED BY <1>1, <1>2, <1>5, <1>6, <1>7, <1>8, AlertsSplit DEF AlertsInv, A!TypeOK

LEMMA AlertsNext ==
  ASSUME AlertsInv, [A!Next]_(A!vars) PROVE AlertsInv'
  <1> USE AlertsConstants
  <1>t. A!TypeOK
    BY DEF AlertsInv
  <1>1. ASSUME NEW i \in Recent, A!Create(i) \/ A!Acknowledge(i) PROVE AlertsInv'
    <2>1. /\ created \subseteq created' /\ created' \subseteq Recent /\ acked' \subseteq created'
          /\ UNCHANGED <<length, size, job, at, counted, stale, behind, step, seen, before, changes, faults>>
      BY <1>1 DEF A!Create, A!Acknowledge, A!workers, A!endpoint, AlertsInv, A!TypeOK
    <2>2. before' \in [created : SUBSET created', length : 0 .. MaxLength, fresh : BOOLEAN]
      BY <2>1, <1>t DEF A!TypeOK
    <2>3. A!Refreshing' = A!Refreshing
      BY <2>1 DEF A!Refreshing
    <2> QED BY <2>1, <2>2, <2>3 DEF AlertsInv, A!TypeOK
  <1>2. ASSUME NEW w \in Worker, A!Push(w) PROVE AlertsInv'
    <2>1. /\ length + 1 \in 0 .. MaxLength /\ A!Resize(w, length + 1) /\ at[w] # "counted"
          /\ job' \in [Worker -> {"none", "push", "replay", "prune"}]
      BY <1>2, <1>t DEF A!Push, A!TypeOK
    <2> QED BY <2>1, ResizeKeeps
  <1>3. ASSUME NEW w \in Worker, A!Trim(w) PROVE AlertsInv'
    <2>1. /\ length - 1 \in 0 .. MaxLength /\ A!Resize(w, length - 1) /\ at[w] # "counted"
          /\ job' \in [Worker -> {"none", "push", "replay", "prune"}]
      BY <1>3, <1>t DEF A!Trim, A!TypeOK
    <2> QED BY <2>1, ResizeKeeps
  <1>4. ASSUME NEW w \in Worker, NEW n \in 0 .. MaxLength, A!Replay(w, n) \/ A!Prune(w, n) PROVE AlertsInv'
    <2>1. /\ A!Resize(w, n) /\ at[w] # "counted"
          /\ job' \in [Worker -> {"none", "push", "replay", "prune"}]
      BY <1>4, <1>t DEF A!Replay, A!Prune, A!TypeOK
    <2> QED BY <2>1, ResizeKeeps
  <1>5. ASSUME NEW w \in Worker, A!Count(w) PROVE AlertsInv'
    <2> USE DEF AlertsInv, A!TypeOK
    <2>1. /\ at[w] = "changed"
          /\ counted' = [counted EXCEPT ![w] = length] /\ at' = [at EXCEPT ![w] = "counted"]
          /\ UNCHANGED <<created, acked, length, size, job, stale, behind, step, seen, before, changes, faults>>
      BY <1>5 DEF A!Count, A!Goto, A!incidents, A!endpoint
    <2>2. /\ at' \in [Worker -> {"idle", "changed", "counted", "written"}]
          /\ counted' \in [Worker -> 0 .. MaxLength]
      BY <2>1
    <2>3. A!Refreshing'
      BY <2>1, <2>2 DEF A!Refreshing
    <2>4. stale' \subseteq {v \in Worker : at'[v] = "counted"}
      BY <2>1
    <2>5. \A v \in Worker : at'[v] = "counted" /\ v \notin stale' => counted'[v] = length'
      BY <2>1
    <2> HIDE DEF AlertsInv, A!TypeOK
    <2> QED BY <2>1, <2>2, <2>3, <2>4, <2>5, AlertsSplit DEF AlertsInv, A!TypeOK
  <1>6. ASSUME NEW w \in Worker, A!Refresh(w) PROVE AlertsInv'
    <2> USE DEF AlertsInv, A!TypeOK
    <2>1. /\ at[w] = "counted" /\ size' = counted[w] /\ behind' = (w \in stale) /\ stale' = stale \ {w}
          /\ counted' = [counted EXCEPT ![w] = 0] /\ at' = [at EXCEPT ![w] = "written"]
          /\ UNCHANGED <<created, acked, length, job, step, seen, before, changes, faults>>
      BY <1>6 DEF A!Refresh, A!Goto, A!incidents, A!endpoint
    <2>2. /\ at' \in [Worker -> {"idle", "changed", "counted", "written"}]
          /\ counted' \in [Worker -> 0 .. MaxLength] /\ size' \in A!Missing .. MaxLength
      BY <2>1 DEF A!Missing
    <2>3. ~ behind' => size' = length'
      BY <2>1
    <2>4. \A v \in Worker : at'[v] = "counted" => v # w /\ at[v] = "counted" /\ counted'[v] = counted[v]
      BY <2>1
    <2>5. stale' \subseteq {v \in Worker : at'[v] = "counted"}
      BY <2>1
    <2>6. \A v \in Worker : at'[v] = "counted" /\ v \notin stale' => counted'[v] = length'
      BY <2>1, <2>4
    <2>7. behind' \in BOOLEAN
      BY <2>1
    <2> HIDE DEF AlertsInv, A!TypeOK
    <2> QED BY <2>1, <2>2, <2>3, <2>5, <2>6, <2>7, AlertsSplit DEF AlertsInv, A!TypeOK
  <1>7. ASSUME NEW w \in Worker, A!Finish(w) \/ A!Fail(w) PROVE AlertsInv'
    <2>1. A!Leave(w) /\ faults' \in 0 .. MaxFaults
      BY <1>7, <1>t DEF A!Finish, A!Fail, A!TypeOK
    <2> QED BY <2>1, LeaveKeeps
  <1>8. CASE A!Expire
    <2>1. /\ size' = A!Missing /\ behind' = FALSE
          /\ UNCHANGED <<created, acked, length, job, at, counted, stale, step, seen, before, changes, faults>>
      BY <1>8 DEF A!Expire, A!incidents, A!workers, A!endpoint
    <2>2. size' \in A!Missing .. MaxLength
      BY <2>1 DEF A!Missing
    <2> QED BY <2>1, <2>2, <1>t, AlertsSplit DEF AlertsInv, A!TypeOK
  <1>9. CASE A!Ask
    <2> USE DEF AlertsInv, A!TypeOK
    <2>1. /\ step < 3 /\ step' = step + 1
          /\ UNCHANGED <<created, acked, length, size, job, at, counted, stale, behind, changes, faults>>
      BY <1>9 DEF A!Ask, A!incidents, A!workers
    <2>r. A!Refreshing' = A!Refreshing
      BY <2>1 DEF A!Refreshing
    <2>2. CASE step = 0
      <3>1. /\ seen' = [seen EXCEPT !.size = size]
            /\ before' = [created |-> created, length |-> length, fresh |-> ~ behind /\ ~ A!Refreshing]
        BY <1>9, <2>2 DEF A!Ask
      <3>2. /\ before' \in [created : SUBSET created, length : 0 .. MaxLength, fresh : BOOLEAN]
            /\ before'.length = length /\ (before'.fresh => ~ behind /\ ~ A!Refreshing)
        BY <3>1
      <3>3. seen' \in [size : A!Missing .. MaxLength, length : 0 .. MaxLength, total : Nat] /\ seen'.size = size
        BY <3>1
      <3> QED BY <2>1, <2>2, <2>r, <3>2, <3>3
    <2>3. CASE step = 1
      <3>1. seen' = [seen EXCEPT !.length = length] /\ before' = before
        BY <1>9, <2>3 DEF A!Ask
      <3>2. seen' \in [size : A!Missing .. MaxLength, length : 0 .. MaxLength, total : Nat] /\ seen'.size = seen.size
        BY <3>1
      <3> QED BY <2>1, <2>3, <2>r, <3>1, <3>2
    <2>4. CASE step = 2
      <3>1. seen' = [seen EXCEPT !.total = A!Cardinality(created)] /\ before' = before
        BY <1>9, <2>4 DEF A!Ask
      <3>2. A!Cardinality(created) \in Nat /\ A!Cardinality(before.created) <= A!Cardinality(created)
        BY PartOfRecent
      <3>3. /\ seen' \in [size : A!Missing .. MaxLength, length : 0 .. MaxLength, total : Nat]
            /\ seen'.size = seen.size /\ seen'.total = A!Cardinality(created)
        BY <3>1, <3>2
      <3> QED BY <2>1, <2>4, <2>r, <3>1, <3>2, <3>3
    <2> QED BY <2>1, <2>2, <2>3, <2>4
  <1>10. CASE A!Answer
    <2>1. /\ step' = 0 /\ seen' = A!Unseen /\ before' = A!NotBefore
          /\ UNCHANGED <<created, acked, length, size, job, at, counted, stale, behind, changes, faults>>
      BY <1>10 DEF A!Answer, A!incidents, A!workers
    <2>2. A!Refreshing' = A!Refreshing
      BY <2>1 DEF A!Refreshing
    <2>3. /\ seen' \in [size : A!Missing .. MaxLength, length : 0 .. MaxLength, total : Nat]
          /\ before' \in [created : SUBSET created, length : 0 .. MaxLength, fresh : BOOLEAN]
      BY <2>1 DEF A!Unseen, A!NotBefore, A!Missing
    <2> QED BY <2>1, <2>2, <2>3 DEF AlertsInv, A!TypeOK
  <1>11. CASE UNCHANGED A!vars
    <2>1. /\ UNCHANGED <<created, acked, length, size, job, at, counted, stale, behind, step, seen, before, changes, faults>>
          /\ A!Refreshing' = A!Refreshing
      BY <1>11 DEF A!vars, A!incidents, A!workers, A!endpoint, A!Refreshing
    <2> QED BY <2>1 DEF AlertsInv, A!TypeOK
  <1> QED BY <1>1, <1>2, <1>3, <1>4, <1>5, <1>6, <1>7, <1>8, <1>9, <1>10, <1>11 DEF A!Next

LEMMA AlertFollows == AlertsInv => A!AlertIsReal
  <1> SUFFICES ASSUME AlertsInv, step = 3
               PROVE  /\ A!AlertSize \in {before.length, seen.length} \/ ~ before.fresh
                      /\ A!Cardinality(acked) > seen.total => acked \ before.created # {}
    BY DEF A!AlertIsReal
  <1> USE DEF AlertsInv, A!TypeOK
  <1>1. A!AlertSize \in {before.length, seen.length} \/ ~ before.fresh
    BY DEF A!AlertSize
  <1>2. ASSUME acked \subseteq before.created PROVE ~ (A!Cardinality(acked) > seen.total)
    <2>1. /\ A!Cardinality(acked) <= A!Cardinality(before.created)
          /\ A!Cardinality(acked) \in Nat /\ A!Cardinality(before.created) \in Nat
      BY <1>2, PartOfRecent
    <2> QED BY <2>1
  <1> QED BY <1>1, <1>2

-----------------------------------------------------------------------------
(***************************************************************************)
(* RadarPull.  What a batch or the cursor passes is settled (Batch,        *)
(* Passed), and a line with a key was claimed (Keyed).  Every claim of a   *)
(* line is the lifetime of a key later than the one before it, and comes   *)
(* while some batch may still have the line (InTime, Paced).               *)
(***************************************************************************)
InPull(l) == \E p \in Pull : current[p] = l

LineSettled(l) ==
  handed[l] > 0 \/ InPull(l) \/ l \in burnt \cup late \cup cut \cup aged

Claimed(l) == handed[l] > 0 \/ InPull(l) \/ l \in burnt

Places ==
  \A p \in Pull :
    /\ current[p] # NoLine <=> pc[p] = "ingesting"
    /\ current[p] # NoLine => current[p] \in got[p]
    /\ todo[p] # {} => pc[p] # "idle"
    /\ got[p] # {} <=> pc[p] # "idle"

Passed == \A l \in stored : At[l] <= cursor => LineSettled(l)

Batch ==
  \A p \in Pull : \A m \in got[p], l \in stored :
    At[l] <= At[m] => LineSettled(l) \/ l \in todo[p]

Keyed == \A l \in Line : keyUntil[l] > 0 \/ l \in duplicates => Claimed(l)

Filed == \A l \in Line : handed[l] > 0 => l \in filed \/ R!Shadowed(l)

InTime ==
  /\ \A l \in stored : At[l] < clock
  /\ \A p \in Pull : pc[p] # "idle" =>
       /\ since[p] <= clock /\ clock - since[p] <= Span
       /\ \A l \in got[p] : At[l] >= since[p] - LookbackMax

\* The claims of a line that led, or may yet lead, to ingest_event.
Holders(l) == {p \in Pull : current[p] = l}
Claims(l) == handed[l] + Cardinality(Holders(l))

Paced ==
  \A l \in Line : Claims(l) > 0 =>
    /\ keyUntil[l] > At[l] + Claims(l) * KeyTTL
    /\ (Claims(l) - 1) * KeyTTL < LookbackMax + Span

RadarInv == R!TypeOK /\ Places /\ Passed /\ Batch /\ Keyed /\ Filed /\ InTime /\ Paced

-----------------------------------------------------------------------------
LEMMA RadarConstants ==
  /\ IsFiniteSet(Line) /\ At \in [Line -> Nat \ {0}] /\ NoLine \notin Line
  /\ \A l, m \in Line : IdOf[l] = IdOf[m] => At[l] = At[m]
  /\ Limit \in Nat \ {0} /\ IsFiniteSet(Pull)
  /\ LookbackMin \in Nat /\ LookbackMax \in Nat /\ KeyTTL \in Nat /\ Span \in Nat
  /\ MaxTime \in Nat /\ MaxFaults \in Nat
  <1>1. R!RadarPullAssumption
    BY EndpointsAssumption DEF EndpointsAssumption
  <1> QED BY <1>1 DEF R!RadarPullAssumption, R!IsFiniteSet, IsFiniteSet

\* A set of natural numbers that is bounded and not empty contains its greatest
\* element.
LEMMA MaxIsMember ==
  ASSUME NEW T \in SUBSET Nat, T # {}, NEW bound \in Nat, \A x \in T : x <= bound
  PROVE  R!Max(T) \in T /\ \A x \in T : R!Max(T) >= x
  <1> DEFINE Rel == OpToRel(<, Nat)
             U == {n \in Nat : \A x \in T : x <= n}
  <1>1. IsWellFoundedOn(Rel, Nat) /\ U \in SUBSET Nat /\ bound \in U
    BY NatLessThanWellFounded
  <1>2. \A x, y \in Nat : <<x, y>> \in Rel <=> x < y
    BY DEF OpToRel
  <1> HIDE DEF Rel
  <1>3. PICK m \in U : \A y \in U : ~ (<<y, m>> \in Rel)
    BY <1>1, WFMin
  <1>4. \A y \in U : ~ (y < m)
    BY <1>2, <1>3
  <1>5. m \in T
    <2>1. ASSUME m \notin T PROVE FALSE
      <3>1. \A x \in T : x < m
        BY <1>3, <2>1
      <3>2. PICK x \in T : x < m
        BY <3>1
      <3>3. m - 1 \in Nat /\ \A y \in T : y <= m - 1
        BY <3>1, <3>2
      <3> QED BY <1>4, <3>3
    <2> QED BY <2>1
  <1>6. \A x \in T : m >= x
    BY <1>3
  <1> QED BY <1>5, <1>6 DEF R!Max

\* The newest line of a batch is one of them.
LEMMA NewestIsThere ==
  ASSUME NEW S \in SUBSET Line, S # {}, NEW bound \in Nat, \A l \in S : At[l] <= bound
  PROVE  (\E l \in S : R!Newest(S) = At[l]) /\ \A l \in S : R!Newest(S) >= At[l]
  <1> DEFINE T == {At[l] : l \in S}
  <1>1. T \in SUBSET Nat /\ T # {} /\ \A x \in T : x <= bound
    BY RadarConstants
  <1>2. R!Max(T) \in T /\ \A x \in T : R!Max(T) >= x
    BY <1>1, MaxIsMember
  <1> QED BY <1>2 DEF R!Newest

LEMMA EmptyBatch == R!Cardinality({}) = 0
  <1>1. R!Cardinality({}) = Cardinality({})
    BY DEF R!Cardinality, Cardinality
  <1> QED BY <1>1, FS_EmptySet

LEMMA RadarInit == R!Init => RadarInv
  <1> SUFFICES ASSUME R!Init PROVE RadarInv
    OBVIOUS
  <1> USE RadarConstants DEF R!Init
  <1>1. R!TypeOK
    <2>1. \A p \in Pull : todo[p] \subseteq got[p] /\ R!Cardinality(got[p]) <= Limit
      BY EmptyBatch
    <2>2. /\ pc \in [Pull -> {"idle", "reading", "ingesting"}] /\ got \in [Pull -> SUBSET stored]
          /\ todo \in [Pull -> SUBSET stored] /\ current \in [Pull -> Line \cup {NoLine}] /\ since \in [Pull -> 0 .. MaxTime]
      OBVIOUS
    <2>3. handed \in [Line -> Nat] /\ keyUntil \in [Line -> 0 .. MaxTime + KeyTTL]
      OBVIOUS
    <2> QED BY <2>1, <2>2, <2>3 DEF R!TypeOK
  <1>2. Places
    BY DEF Places
  <1>3. Passed /\ Batch /\ InTime
    BY DEF Passed, Batch, InTime
  <1>4. Keyed /\ Filed
    BY DEF Keyed, Filed
  <1>5. Paced
    <2>1. ASSUME NEW l \in Line PROVE Claims(l) = 0
      <3>1. Holders(l) = {} /\ handed[l] = 0
        BY DEF Holders
      <3>2. Cardinality(Holders(l)) = 0
        BY <3>1, FS_EmptySet
      <3> QED BY <3>1, <3>2 DEF Claims
    <2> QED BY <2>1 DEF Paced
  <1> QED BY <1>1, <1>2, <1>3, <1>4, <1>5 DEF RadarInv

LEMMA RadarSteps ==
  ASSUME [R!Next]_(R!vars)
  PROVE  \/ R!Tick
         \/ \E l \in Line : R!Store(l)
         \/ \E p \in Pull, S \in SUBSET stored, lookback \in LookbackMin .. LookbackMax : R!Fetch(p, S, lookback)
         \/ \E p \in Pull, l \in Line : R!Claim(p, l)
         \/ \E p \in Pull : R!Hand(p)
         \/ \E p \in Pull : R!SaveCursor(p)
         \/ \E p \in Pull : R!Fail(p)
         \/ UNCHANGED R!vars
  BY DEF R!Next, R!Proceed

LEMMA RadarTyped ==
  ASSUME R!TypeOK, Places, InTime, [R!Next]_(R!vars)
  PROVE  R!TypeOK'
  <1> USE RadarConstants DEF R!TypeOK, R!loki, R!redis, R!pulls, R!history, R!Goto
  <1>1. CASE R!Tick
    BY <1>1 DEF R!Tick
  <1>2. ASSUME NEW l \in Line, R!Store(l) PROVE R!TypeOK'
    <2>1. /\ stored' = stored \cup {l} /\ late' \subseteq late \cup {l}
          /\ UNCHANGED <<clock, cursor, keyUntil, pc, got, todo, current, since,
                         filed, handed, duplicates, burnt, cut, aged, faults>>
      BY <1>2 DEF R!Store
    <2>2. got' \in [Pull -> SUBSET stored'] /\ todo' \in [Pull -> SUBSET stored']
      BY <2>1
    <2>3. cursor' \in {0} \cup {At[m] : m \in stored'}
      BY <2>1
    <2> QED BY <2>1, <2>2, <2>3
  <1>3. ASSUME NEW p \in Pull, NEW S \in SUBSET stored, NEW b \in LookbackMin .. LookbackMax, R!Fetch(p, S, b)
        PROVE  R!TypeOK'
    <2>1. /\ got' = [got EXCEPT ![p] = S] /\ todo' = [todo EXCEPT ![p] = S]
          /\ since' = [since EXCEPT ![p] = clock] /\ pc' = [pc EXCEPT ![p] = "reading"]
          /\ cut' \subseteq cut \cup R!Window(b) /\ aged' \subseteq aged \cup stored
          /\ R!Cardinality(S) <= Limit
          /\ UNCHANGED <<clock, stored, cursor, keyUntil, current, filed, handed, duplicates, burnt, late, faults>>
      BY <1>3 DEF R!Fetch
    <2>2. /\ got' \in [Pull -> SUBSET stored] /\ todo' \in [Pull -> SUBSET stored] /\ since' \in [Pull -> 0 .. MaxTime]
          /\ pc' \in [Pull -> {"idle", "reading", "ingesting"}]
      BY <2>1
    <2>3. \A q \in Pull : todo'[q] \subseteq got'[q] /\ R!Cardinality(got'[q]) <= Limit
      BY <2>1
    <2>4. late' \cup cut' \cup aged' \subseteq stored
      BY <2>1 DEF R!Window
    <2> QED BY <2>1, <2>2, <2>3, <2>4
  <1>4. ASSUME NEW p \in Pull, NEW l \in Line, R!Claim(p, l) PROVE R!TypeOK'
    <2>1. /\ todo' = [todo EXCEPT ![p] = @ \ {l}]
          /\ \/ UNCHANGED <<keyUntil, pc, current>>
             \/ /\ keyUntil' = [keyUntil EXCEPT ![l] = clock + KeyTTL]
                /\ current' = [current EXCEPT ![p] = l] /\ pc' = [pc EXCEPT ![p] = "ingesting"]
          /\ duplicates' \subseteq duplicates \cup {l}
          /\ UNCHANGED <<clock, stored, cursor, got, since, filed, handed, burnt, late, cut, aged, faults>>
      BY <1>4 DEF R!Claim
    <2>2. (\A q \in Pull : todo'[q] \subseteq got[q]) /\ todo' \in [Pull -> SUBSET stored]
      BY <2>1
    <2>3. /\ keyUntil' \in [Line -> 0 .. MaxTime + KeyTTL]
          /\ current' \in [Pull -> Line \cup {NoLine}]
          /\ pc' \in [Pull -> {"idle", "reading", "ingesting"}]
      BY <2>1
    <2> QED BY <2>1, <2>2, <2>3
  <1>5. ASSUME NEW p \in Pull, R!Hand(p) PROVE R!TypeOK'
    <2>1. /\ pc[p] = "ingesting"
          /\ filed' \subseteq filed \cup {current[p]}
          /\ handed' = [handed EXCEPT ![current[p]] = @ + 1]
          /\ current' = [current EXCEPT ![p] = NoLine] /\ pc' = [pc EXCEPT ![p] = "reading"]
          /\ UNCHANGED <<clock, stored, cursor, keyUntil, got, todo, since, duplicates, burnt, late, cut, aged, faults>>
      BY <1>5 DEF R!Hand
    <2>2. current[p] \in Line
      BY <2>1 DEF Places
    <2>3. /\ handed' \in [Line -> Nat] /\ \A l \in Line : handed[l] > 0 \/ l = current[p] => handed'[l] > 0
      BY <2>1, <2>2
    <2>4. /\ current' \in [Pull -> Line \cup {NoLine}]
          /\ pc' \in [Pull -> {"idle", "reading", "ingesting"}]
      BY <2>1
    <2>5. filed' \subseteq {l \in Line : handed'[l] > 0}
      BY <2>1, <2>2, <2>3
    <2> QED BY <2>1, <2>3, <2>4, <2>5
  <1>6. ASSUME NEW p \in Pull, R!SaveCursor(p) PROVE R!TypeOK'
    <2>1. /\ pc[p] = "reading" /\ cursor' = R!Newest(got[p])
          /\ got' = [got EXCEPT ![p] = {}] /\ todo[p] = {}
          /\ since' = [since EXCEPT ![p] = 0] /\ pc' = [pc EXCEPT ![p] = "idle"]
          /\ UNCHANGED <<clock, stored, keyUntil, todo, current, filed, handed, duplicates, burnt, late, cut, aged, faults>>
      BY <1>6 DEF R!SaveCursor
    <2>2. \E l \in got[p] : cursor' = At[l]
      <3>1. got[p] \in SUBSET Line /\ got[p] # {} /\ \A l \in got[p] : At[l] <= clock
        BY <2>1 DEF Places, InTime
      <3> QED BY <2>1, <3>1, NewestIsThere
    <2>3. \A q \in Pull : todo'[q] \subseteq got'[q] /\ R!Cardinality(got'[q]) <= Limit
      BY <2>1, EmptyBatch
    <2>4. /\ got' \in [Pull -> SUBSET stored] /\ todo' \in [Pull -> SUBSET stored] /\ since' \in [Pull -> 0 .. MaxTime]
          /\ pc' \in [Pull -> {"idle", "reading", "ingesting"}]
      BY <2>1
    <2>5. cursor' \in {0} \cup {At[l] : l \in stored}
      BY <2>2
    <2> QED BY <2>1, <2>3, <2>4, <2>5
  <1>7. ASSUME NEW p \in Pull, R!Fail(p) PROVE R!TypeOK'
    <2>1. /\ burnt' = burnt \cup ({current[p]} \cap Line)
          /\ got' = [got EXCEPT ![p] = {}] /\ todo' = [todo EXCEPT ![p] = {}]
          /\ current' = [current EXCEPT ![p] = NoLine]
          /\ since' = [since EXCEPT ![p] = 0] /\ pc' = [pc EXCEPT ![p] = "idle"]
          /\ faults' = faults + 1 /\ faults < MaxFaults
          /\ UNCHANGED <<clock, stored, cursor, keyUntil, filed, handed, duplicates, late, cut, aged>>
      BY <1>7 DEF R!Fail
    <2>2. \A q \in Pull : todo'[q] \subseteq got'[q] /\ R!Cardinality(got'[q]) <= Limit
      BY <2>1, EmptyBatch
    <2>3. /\ got' \in [Pull -> SUBSET stored] /\ todo' \in [Pull -> SUBSET stored] /\ since' \in [Pull -> 0 .. MaxTime]
          /\ current' \in [Pull -> Line \cup {NoLine}]
          /\ pc' \in [Pull -> {"idle", "reading", "ingesting"}]
      BY <2>1
    <2> QED BY <2>1, <2>2, <2>3
  <1>8. CASE UNCHANGED R!vars
    BY <1>8 DEF R!vars
  <1> QED BY <1>1, <1>2, <1>3, <1>4, <1>5, <1>6, <1>7, <1>8, RadarSteps

\* What is settled stays settled: a line in hand is handed on or burnt.
LEMMA RadarMoves ==
  ASSUME R!TypeOK, Places, [R!Next]_(R!vars)
  PROVE  /\ clock <= clock' /\ stored \subseteq stored' /\ filed \subseteq filed'
         /\ \A l \in Line : LineSettled(l) => LineSettled(l)'
         /\ \A l \in Line : Claimed(l) => Claimed(l)'
  <1> DEFINE Kept(l) ==
        /\ handed[l] > 0 => handed'[l] > 0
        /\ InPull(l) => InPull(l)' \/ handed'[l] > 0 \/ l \in burnt'
  <1> USE RadarConstants DEF R!TypeOK, R!loki, R!redis, R!pulls, R!history, R!Goto
  <1>0. SUFFICES /\ clock' \in Nat /\ clock <= clock' /\ stored \subseteq stored' /\ filed \subseteq filed'
                 /\ burnt \subseteq burnt' /\ late \subseteq late' /\ cut \subseteq cut' /\ aged \subseteq aged'
                 /\ \A l \in Line : Kept(l)
    BY DEF LineSettled, Claimed
  <1>1. CASE R!Tick
    BY <1>1 DEF R!Tick, InPull
  <1>2. ASSUME NEW l \in Line, R!Store(l) PROVE <1>0!1
    BY <1>2 DEF R!Store, InPull
  <1>3. ASSUME NEW p \in Pull, NEW S \in SUBSET stored, NEW b \in LookbackMin .. LookbackMax, R!Fetch(p, S, b)
        PROVE  <1>0!1
    BY <1>3 DEF R!Fetch, InPull
  <1>4. ASSUME NEW p \in Pull, NEW l \in Line, R!Claim(p, l) PROVE <1>0!1
    <2>1. /\ pc[p] = "reading"
          /\ \/ UNCHANGED current
             \/ current' = [current EXCEPT ![p] = l]
          /\ UNCHANGED <<clock, stored, filed, handed, burnt, late, cut, aged>>
      BY <1>4 DEF R!Claim
    <2>2. current[p] = NoLine
      BY <2>1 DEF Places
    <2>3. \A m \in Line : InPull(m) => InPull(m)'
      <3>1. \A m \in Line, q \in Pull : current[q] = m => current'[q] = m
        BY <2>1, <2>2
      <3> QED BY <3>1 DEF InPull
    <2> QED BY <2>1, <2>3
  <1>5. ASSUME NEW p \in Pull, R!Hand(p) PROVE <1>0!1
    <2>1. /\ pc[p] = "ingesting"
          /\ filed \subseteq filed'
          /\ handed' = [handed EXCEPT ![current[p]] = @ + 1]
          /\ current' = [current EXCEPT ![p] = NoLine]
          /\ UNCHANGED <<clock, stored, burnt, late, cut, aged>>
      BY <1>5 DEF R!Hand
    <2>2. current[p] \in Line
      BY <2>1 DEF Places
    <2>3. handed'[current[p]] > 0 /\ \A l \in Line : handed[l] > 0 => handed'[l] > 0
      BY <2>1, <2>2
    <2>4. \A m \in Line, q \in Pull : current[q] = m => m = current[p] \/ current'[q] = m
      BY <2>1
    <2> QED BY <2>1, <2>3, <2>4 DEF InPull
  <1>6. ASSUME NEW p \in Pull, R!SaveCursor(p) PROVE <1>0!1
    BY <1>6 DEF R!SaveCursor, InPull
  <1>7. ASSUME NEW p \in Pull, R!Fail(p) PROVE <1>0!1
    <2>1. /\ burnt' = burnt \cup ({current[p]} \cap Line)
          /\ current' = [current EXCEPT ![p] = NoLine]
          /\ UNCHANGED <<clock, stored, filed, handed, late, cut, aged>>
      BY <1>7 DEF R!Fail
    <2>2. \A m \in Line, q \in Pull : current[q] = m => m \in burnt' \/ current'[q] = m
      BY <2>1
    <2> QED BY <2>1, <2>2 DEF InPull
  <1>8. CASE UNCHANGED R!vars
    BY <1>8 DEF R!vars, InPull
  <1> QED BY <1>1, <1>2, <1>3, <1>4, <1>5, <1>6, <1>7, <1>8, RadarSteps

LEMMA RadarPlaces ==
  ASSUME R!TypeOK, Places, [R!Next]_(R!vars)
  PROVE  Places'
  <1> USE RadarConstants DEF R!TypeOK, R!loki, R!redis, R!pulls, R!history, R!Goto, Places
  <1>1. ASSUME UNCHANGED <<pc, got, todo, current>> PROVE Places'
    BY <1>1
  <1>2. ASSUME NEW p \in Pull, NEW S \in SUBSET stored, NEW b \in LookbackMin .. LookbackMax, R!Fetch(p, S, b)
        PROVE  Places'
    BY <1>2 DEF R!Fetch
  <1>3. ASSUME NEW p \in Pull, NEW l \in Line, R!Claim(p, l) PROVE Places'
    <2>1. /\ pc[p] = "reading" /\ l \in todo[p] /\ todo' = [todo EXCEPT ![p] = @ \ {l}] /\ UNCHANGED got
          /\ \/ UNCHANGED <<pc, current>>
             \/ current' = [current EXCEPT ![p] = l] /\ pc' = [pc EXCEPT ![p] = "ingesting"]
      BY <1>3 DEF R!Claim
    <2>2. l \in got[p]
      BY <2>1
    <2>3. CASE UNCHANGED <<pc, current>>
      BY <2>1, <2>2, <2>3
    <2>4. CASE current' = [current EXCEPT ![p] = l] /\ pc' = [pc EXCEPT ![p] = "ingesting"]
      BY <2>1, <2>2, <2>4
    <2> QED BY <2>1, <2>3, <2>4
  <1>4. ASSUME NEW p \in Pull, R!Hand(p) PROVE Places'
    BY <1>4 DEF R!Hand
  <1>5. ASSUME NEW p \in Pull, R!SaveCursor(p) PROVE Places'
    BY <1>5 DEF R!SaveCursor
  <1>6. ASSUME NEW p \in Pull, R!Fail(p) PROVE Places'
    BY <1>6 DEF R!Fail
  <1>7. CASE R!Tick \/ UNCHANGED R!vars
    BY <1>1, <1>7 DEF R!Tick, R!vars
  <1>8. ASSUME NEW l \in Line, R!Store(l) PROVE Places'
    BY <1>1, <1>8 DEF R!Store
  <1> QED BY <1>2, <1>3, <1>4, <1>5, <1>6, <1>7, <1>8, RadarSteps

LEMMA RadarInTime ==
  ASSUME R!TypeOK, Places, InTime, [R!Next]_(R!vars)
  PROVE  InTime'
  <1> USE RadarConstants DEF R!TypeOK, R!loki, R!redis, R!pulls, R!history, R!Goto, InTime
  <1>1. CASE R!Tick
    BY <1>1 DEF R!Tick, R!Working
  <1>2. ASSUME NEW l \in Line, R!Store(l) PROVE InTime'
    BY <1>2 DEF R!Store
  <1>3. ASSUME NEW p \in Pull, NEW S \in SUBSET stored, NEW b \in LookbackMin .. LookbackMax, R!Fetch(p, S, b)
        PROVE  InTime'
    <2>1. /\ \A l \in S : At[l] >= clock - b
          /\ got' = [got EXCEPT ![p] = S]
          /\ since' = [since EXCEPT ![p] = clock] /\ pc' = [pc EXCEPT ![p] = "reading"]
          /\ UNCHANGED <<clock, stored>>
      BY <1>3 DEF R!Fetch, R!Window
    <2> QED BY <2>1
  <1>4. ASSUME NEW p \in Pull, NEW l \in Line, R!Claim(p, l) PROVE InTime'
    BY <1>4 DEF R!Claim
  <1>5. ASSUME NEW p \in Pull, R!Hand(p) PROVE InTime'
    BY <1>5 DEF R!Hand
  <1>6. ASSUME NEW p \in Pull, R!SaveCursor(p) \/ R!Fail(p) PROVE InTime'
    BY <1>6 DEF R!SaveCursor, R!Fail
  <1>7. CASE UNCHANGED R!vars
    BY <1>7 DEF R!vars
  <1> QED BY <1>1, <1>2, <1>3, <1>4, <1>5, <1>6, <1>7, RadarSteps

\* The cursor moves to the newest line of a batch whose lines are all settled.
LEMMA RadarPassed ==
  ASSUME RadarInv, [R!Next]_(R!vars)
  PROVE  Passed'
  <1>0. R!TypeOK /\ Places /\ InTime /\ Passed /\ Batch
    BY DEF RadarInv
  <1>m. \A l \in Line : LineSettled(l) => LineSettled(l)'
    BY <1>0, RadarMoves
  <1> USE RadarConstants DEF R!TypeOK, R!loki, R!redis, R!pulls, R!history, R!Goto
  <1>1. ASSUME UNCHANGED <<stored, cursor>> PROVE Passed'
    BY <1>0, <1>m, <1>1 DEF Passed
  <1>2. ASSUME NEW l \in Line, R!Store(l) PROVE Passed'
    <2>1. stored' = stored \cup {l} /\ cursor' = cursor /\ (At[l] <= cursor => l \in late')
      BY <1>2 DEF R!Store
    <2>2. l \in late' => LineSettled(l)'
      BY DEF LineSettled
    <2> QED BY <1>0, <1>m, <2>1, <2>2 DEF Passed
  <1>3. ASSUME NEW p \in Pull, R!SaveCursor(p) PROVE Passed'
    <2>1. pc[p] = "reading" /\ todo[p] = {} /\ cursor' = R!Newest(got[p]) /\ stored' = stored
      BY <1>3 DEF R!SaveCursor
    <2>2. PICK m \in got[p] : cursor' = At[m]
      <3>1. got[p] \in SUBSET Line /\ got[p] # {} /\ clock \in Nat /\ \A l \in got[p] : At[l] <= clock
        BY <1>0, <2>1 DEF Places, InTime
      <3> QED BY <2>1, <3>1, NewestIsThere
    <2>3. \A l \in stored : At[l] <= At[m] => LineSettled(l)
      BY <1>0, <2>1 DEF Batch
    <2> QED BY <1>0, <1>m, <2>1, <2>2, <2>3 DEF Passed
  <1>4. \/ UNCHANGED <<stored, cursor>>
        \/ \E l \in Line : R!Store(l)
        \/ \E p \in Pull : R!SaveCursor(p)
    BY RadarSteps DEF R!Tick, R!Fetch, R!Claim, R!Hand, R!Fail, R!vars
  <1> QED BY <1>1, <1>2, <1>3, <1>4

\* A batch has the oldest lines of the window, so that what it passes was passed by
\* the cursor, is too old, or was cut off; and a line is taken from the batch once
\* it is in hand, or has a key.
LEMMA RadarBatch ==
  ASSUME RadarInv, [R!Next]_(R!vars)
  PROVE  Batch'
  <1>0. R!TypeOK /\ Places /\ InTime /\ Passed /\ Batch /\ Keyed
    BY DEF RadarInv
  <1>m. \A l \in Line : LineSettled(l) => LineSettled(l)'
    BY <1>0, RadarMoves
  <1> USE RadarConstants DEF R!TypeOK, R!loki, R!redis, R!pulls, R!history, R!Goto
  <1>1. ASSUME UNCHANGED <<stored, got, todo>> PROVE Batch'
    BY <1>0, <1>m, <1>1 DEF Batch
  <1>2. ASSUME NEW l \in Line, R!Store(l) PROVE Batch'
    <2>1. /\ stored' = stored \cup {l} /\ UNCHANGED <<got, todo>>
          /\ (\E p \in Pull : \E m \in got[p] : At[l] <= At[m]) => l \in late'
      BY <1>2 DEF R!Store
    <2>2. l \in late' => LineSettled(l)'
      BY DEF LineSettled
    <2> QED BY <1>0, <1>m, <2>1, <2>2 DEF Batch
  <1>3. ASSUME NEW p \in Pull, NEW S \in SUBSET stored, NEW b \in LookbackMin .. LookbackMax, R!Fetch(p, S, b)
        PROVE  Batch'
    <2>1. /\ S # {} /\ S \subseteq R!Window(b) /\ \A l \in S, m \in R!Window(b) \ S : At[l] <= At[m]
          /\ got' = [got EXCEPT ![p] = S] /\ todo' = [todo EXCEPT ![p] = S]
          /\ {l \in R!Window(b) \ S : At[l] = R!Newest(S)} \subseteq cut'
          /\ {l \in stored : cursor < At[l] /\ At[l] < clock - b} \subseteq aged'
          /\ UNCHANGED <<clock, stored>>
      BY <1>3 DEF R!Fetch
    <2>2. /\ \E m \in S : R!Newest(S) = At[m]
          /\ \A m \in S : R!Newest(S) >= At[m]
      <3>1. S \in SUBSET Line /\ clock \in Nat /\ \A l \in S : At[l] <= clock
        BY <1>0 DEF InTime
      <3> QED BY <2>1, <3>1, NewestIsThere
    <2>3. ASSUME NEW m \in S, NEW l \in stored, At[l] <= At[m], l \notin S
          PROVE  LineSettled(l)'
      <3>1. At[l] \in Nat /\ At[m] \in Nat /\ l \in Line
        BY <1>0
      <3>2. CASE l \in R!Window(b)
        <4>1. \A k \in S : At[k] <= At[l]
          BY <2>1, <2>3, <3>2
        <4>2. At[l] = R!Newest(S)
          BY <1>0, <2>2, <2>3, <3>1, <4>1
        <4>3. l \in cut'
          BY <2>1, <2>3, <3>2, <4>2
        <4> QED BY <4>3 DEF LineSettled
      <3>3. CASE At[l] <= cursor
        BY <1>0, <1>m, <3>1, <3>3 DEF Passed
      <3>4. CASE cursor < At[l] /\ At[l] < clock - b
        BY <2>1, <3>4 DEF LineSettled
      <3>5. cursor \in Nat /\ clock \in Nat
        BY <1>0
      <3> QED BY <3>1, <3>2, <3>3, <3>4, <3>5 DEF R!Window
    <2>4. ASSUME NEW q \in Pull, NEW m \in got'[q], NEW l \in stored', At[l] <= At[m]
          PROVE  LineSettled(l)' \/ l \in todo'[q]
      <3>1. CASE q = p
        BY <1>0, <2>1, <2>3, <2>4, <3>1
      <3>2. CASE q # p
        <4>1. m \in got[q] /\ l \in stored /\ todo'[q] = todo[q] /\ l \in Line
          BY <1>0, <2>1, <2>4, <3>2
        <4> QED BY <1>0, <1>m, <2>4, <4>1 DEF Batch
      <3> QED BY <3>1, <3>2
    <2> QED BY <2>4 DEF Batch
  <1>4. ASSUME NEW p \in Pull, NEW k \in Line, R!Claim(p, k) PROVE Batch'
    <2>1. /\ UNCHANGED <<clock, stored, got>> /\ pc[p] = "reading"
          /\ todo' = [todo EXCEPT ![p] = @ \ {k}]
          /\ \/ clock < keyUntil[k]
             \/ current' = [current EXCEPT ![p] = k]
      BY <1>4 DEF R!Claim, R!KeyExists
    <2>2. LineSettled(k)'
      <3>1. CASE clock < keyUntil[k]
        <4>1. Claimed(k)
          BY <1>0, <3>1 DEF Keyed
        <4>2. LineSettled(k)
          BY <4>1 DEF Claimed, LineSettled
        <4> QED BY <1>m, <4>2
      <3>2. CASE current' = [current EXCEPT ![p] = k]
        <4>1. current'[p] = k
          BY <1>0, <3>2
        <4> QED BY <4>1 DEF LineSettled, InPull
      <3> QED BY <2>1, <3>1, <3>2
    <2>3. ASSUME NEW q \in Pull, NEW l \in todo[q] PROVE l = k \/ l \in todo'[q]
      BY <1>0, <2>1, <2>3
    <2>4. ASSUME NEW q \in Pull, NEW m \in got[q], NEW l \in stored, At[l] <= At[m]
          PROVE  LineSettled(l)' \/ l \in todo'[q]
      <3>1. LineSettled(l) \/ l \in todo[q]
        BY <1>0, <2>4 DEF Batch
      <3> QED BY <1>0, <1>m, <2>2, <2>3, <3>1
    <2> QED BY <2>1, <2>4 DEF Batch
  <1>5. ASSUME NEW p \in Pull, R!SaveCursor(p) \/ R!Fail(p) PROVE Batch'
    <2>1. /\ got' = [got EXCEPT ![p] = {}] /\ UNCHANGED <<clock, stored>>
          /\ \A q \in Pull : q # p => todo'[q] = todo[q]
      BY <1>0, <1>5 DEF R!SaveCursor, R!Fail
    <2>2. ASSUME NEW q \in Pull, NEW m \in got'[q], NEW l \in stored', At[l] <= At[m]
          PROVE  LineSettled(l)' \/ l \in todo'[q]
      <3>1. q # p /\ m \in got[q] /\ l \in stored /\ todo'[q] = todo[q] /\ l \in Line
        BY <1>0, <2>1, <2>2
      <3> QED BY <1>0, <1>m, <2>2, <3>1 DEF Batch
    <2> QED BY <2>2 DEF Batch
  <1>6. \/ UNCHANGED <<stored, got, todo>>
        \/ \E l \in Line : R!Store(l)
        \/ \E p \in Pull, S \in SUBSET stored, b \in LookbackMin .. LookbackMax : R!Fetch(p, S, b)
        \/ \E p \in Pull, l \in Line : R!Claim(p, l)
        \/ \E p \in Pull : R!SaveCursor(p) \/ R!Fail(p)
    BY RadarSteps DEF R!Tick, R!Hand, R!vars
  <1> QED BY <1>1, <1>2, <1>3, <1>4, <1>5, <1>6

\* A key is set with the line in hand, and a duplicate has a key; a line that was
\* handed on is an event, or has the external id of one.
LEMMA RadarKeyed ==
  ASSUME RadarInv, [R!Next]_(R!vars)
  PROVE  Keyed' /\ Filed'
  <1>0. R!TypeOK /\ Places /\ Keyed /\ Filed
    BY DEF RadarInv
  <1>m. /\ filed \subseteq filed'
        /\ \A l \in Line : Claimed(l) => Claimed(l)'
    BY <1>0, RadarMoves
  <1> USE RadarConstants DEF R!TypeOK, R!loki, R!redis, R!pulls, R!history, R!Goto
  <1>1. ASSUME UNCHANGED <<keyUntil, duplicates>> PROVE Keyed'
    BY <1>0, <1>m, <1>1 DEF Keyed
  <1>2. ASSUME UNCHANGED handed PROVE Filed'
    BY <1>0, <1>m, <1>2 DEF Filed, R!Shadowed
  <1>3. ASSUME NEW p \in Pull, NEW k \in Line, R!Claim(p, k) PROVE Keyed' /\ Filed'
    <2>1. /\ handed' = handed /\ pc[p] = "reading"
          /\ \/ clock < keyUntil[k] /\ duplicates' = duplicates \cup {k} /\ keyUntil' = keyUntil
             \/ /\ keyUntil' = [keyUntil EXCEPT ![k] = clock + KeyTTL] /\ duplicates' = duplicates
                /\ current' = [current EXCEPT ![p] = k]
      BY <1>3 DEF R!Claim, R!KeyExists
    <2>2. Claimed(k)'
      <3>1. CASE clock < keyUntil[k]
        BY <1>0, <1>m, <3>1 DEF Keyed
      <3>2. CASE current' = [current EXCEPT ![p] = k]
        <4>1. current'[p] = k
          BY <1>0, <3>2
        <4> QED BY <4>1 DEF Claimed, InPull
      <3> QED BY <2>1, <3>1, <3>2
    <2>3. ASSUME NEW l \in Line, l # k, keyUntil'[l] > 0 \/ l \in duplicates'
          PROVE  keyUntil[l] > 0 \/ l \in duplicates
      BY <1>0, <2>1, <2>3
    <2> QED BY <1>0, <1>2, <1>m, <2>1, <2>2, <2>3 DEF Keyed
  <1>4. ASSUME NEW p \in Pull, R!Hand(p) PROVE Keyed' /\ Filed'
    <2>1. /\ pc[p] = "ingesting" /\ UNCHANGED <<keyUntil, duplicates>>
          /\ filed' = filed \cup {l \in {current[p]} : \A m \in filed : IdOf[m] # IdOf[l]}
          /\ handed' = [handed EXCEPT ![current[p]] = @ + 1]
      BY <1>4 DEF R!Hand
    <2>2. current[p] \in filed' \/ \E m \in filed : IdOf[m] = IdOf[current[p]]
      BY <2>1
    <2>3. ASSUME NEW l \in Line, handed'[l] > 0 PROVE l \in filed' \/ R!Shadowed(l)'
      <3>1. CASE l = current[p]
        BY <1>m, <2>2, <3>1 DEF R!Shadowed
      <3>2. CASE l # current[p]
        <4>1. handed[l] > 0
          BY <1>0, <2>1, <2>3, <3>2
        <4> QED BY <1>0, <1>m, <4>1 DEF Filed, R!Shadowed
      <3> QED BY <3>1, <3>2
    <2> QED BY <1>1, <2>1, <2>3 DEF Filed
  <1>5. \/ UNCHANGED <<keyUntil, duplicates, handed>>
        \/ \E p \in Pull, l \in Line : R!Claim(p, l)
        \/ \E p \in Pull : R!Hand(p)
    BY RadarSteps DEF R!Tick, R!Store, R!Fetch, R!SaveCursor, R!Fail, R!vars
  <1> QED BY <1>1, <1>2, <1>3, <1>4, <1>5

LEMMA TimesMonotone ==
  ASSUME NEW m \in Nat, NEW n \in Nat, NEW k \in Nat, m <= n
  PROVE  m * k <= n * k /\ (m - 1) * k <= (n - 1) * k /\ (n + 1) * k = n * k + k /\ n * k \in Nat
  <1>1. n - m \in Nat /\ (n - m) * k \in Nat
    OBVIOUS
  <1>2. n * k = m * k + (n - m) * k /\ (n - 1) * k = (m - 1) * k + (n - m) * k
    OBVIOUS
  <1> QED BY <1>1, <1>2

\* The pulls that have a line in hand can be counted.
LEMMA ClaimsCount ==
  ASSUME R!TypeOK, NEW l \in Line
  PROVE  /\ IsFiniteSet(Holders(l)) /\ Cardinality(Holders(l)) \in Nat
         /\ handed[l] \in Nat /\ Claims(l) \in Nat
  <1>1. Holders(l) \in SUBSET Pull
    BY DEF Holders
  <1>2. IsFiniteSet(Holders(l)) /\ Cardinality(Holders(l)) \in Nat
    BY <1>1, RadarConstants, FS_Subset, FS_CardinalityType
  <1> QED BY <1>2 DEF Claims, R!TypeOK

\* A line that loses claims, and keeps its key, is as well paced as before.
LEMMA FewerClaims ==
  ASSUME R!TypeOK, R!TypeOK', Paced, NEW l \in Line,
         Claims(l)' <= Claims(l), keyUntil'[l] = keyUntil[l], Claims(l)' > 0, Claims(l)' \in Nat
  PROVE  /\ keyUntil'[l] > At[l] + Claims(l)' * KeyTTL
         /\ (Claims(l)' - 1) * KeyTTL < LookbackMax + Span
  <1>1. Claims(l) \in Nat /\ keyUntil[l] \in Nat /\ At[l] \in Nat
    BY ClaimsCount, RadarConstants DEF R!TypeOK
  <1>2. keyUntil[l] > At[l] + Claims(l) * KeyTTL /\ (Claims(l) - 1) * KeyTTL < LookbackMax + Span
    BY <1>1 DEF Paced
  <1> DEFINE m == Claims(l)'
             n == Claims(l)
  <1>3. m \in Nat /\ n \in Nat /\ m <= n
    BY <1>1
  <1> HIDE DEF m, n
  <1>4. m * KeyTTL <= n * KeyTTL /\ (m - 1) * KeyTTL <= (n - 1) * KeyTTL
    BY <1>3, RadarConstants, TimesMonotone
  <1>5. /\ m * KeyTTL \in Int /\ n * KeyTTL \in Int
        /\ (m - 1) * KeyTTL \in Int /\ (n - 1) * KeyTTL \in Int
    BY <1>3, RadarConstants
  <1>6. keyUntil[l] > At[l] + n * KeyTTL /\ (n - 1) * KeyTTL < LookbackMax + Span
    BY <1>2 DEF n
  <1>7. keyUntil[l] > At[l] + m * KeyTTL /\ (m - 1) * KeyTTL < LookbackMax + Span
    BY <1>1, <1>4, <1>5, <1>6, RadarConstants
  <1> QED BY <1>7 DEF m

\* A claim finds the key of the one before it expired, and the line in a batch that
\* was fetched when the line was within the longest lookback.
LEMMA RadarPaced ==
  ASSUME RadarInv, R!TypeOK', [R!Next]_(R!vars)
  PROVE  Paced'
  <1> USE RadarConstants DEF R!loki, R!redis, R!pulls, R!history, R!Goto
  <1>0. R!TypeOK /\ Places /\ InTime /\ Paced
    BY DEF RadarInv
  <1> DEFINE Fine(l) == Claims(l)' > 0 =>
               /\ keyUntil'[l] > At[l] + Claims(l)' * KeyTTL
               /\ (Claims(l)' - 1) * KeyTTL < LookbackMax + Span
  <1>f. SUFFICES ASSUME NEW l \in Line PROVE Fine(l)
    BY DEF Paced
  <1>n. /\ Claims(l)' \in Nat /\ IsFiniteSet(Holders(l)) /\ handed[l] \in Nat /\ Claims(l) \in Nat
        /\ Cardinality(Holders(l)) \in Nat /\ Cardinality(Holders(l)') \in Nat
        /\ handed'[l] \in Nat
    <2>1. IsFiniteSet(Holders(l)') /\ Holders(l)' \in SUBSET Pull
      BY FS_Subset DEF Holders
    <2>2. Cardinality(Holders(l)') \in Nat /\ handed'[l] \in Nat
      BY <2>1, FS_CardinalityType DEF R!TypeOK
    <2> QED BY <1>0, <2>2, ClaimsCount DEF Claims
  <1>1. ASSUME Claims(l)' <= Claims(l), keyUntil'[l] = keyUntil[l] PROVE Fine(l)
    BY <1>0, <1>1, <1>n, FewerClaims
  <1>2. ASSUME Holders(l)' \subseteq Holders(l), handed'[l] = handed[l], keyUntil'[l] = keyUntil[l]
        PROVE  Fine(l)
    <2>1. Cardinality(Holders(l)') <= Cardinality(Holders(l))
      BY <1>2, <1>n, FS_Subset
    <2> QED BY <1>1, <1>2, <1>n, <2>1 DEF Claims
  <1> HIDE DEF Fine
  <1>3. CASE UNCHANGED <<keyUntil, handed, current>>
    BY <1>2, <1>3 DEF Holders
  <1>4. ASSUME NEW p \in Pull, R!Fail(p) PROVE Fine(l)
    BY <1>0, <1>2, <1>4 DEF R!Fail, Holders, R!TypeOK
  <1>5. ASSUME NEW p \in Pull, R!Hand(p) PROVE Fine(l)
    <2>1. /\ pc[p] = "ingesting" /\ keyUntil' = keyUntil
          /\ handed' = [handed EXCEPT ![current[p]] = @ + 1]
          /\ current' = [current EXCEPT ![p] = NoLine]
      BY <1>5 DEF R!Hand
    <2>2. CASE l # current[p]
      BY <1>0, <1>2, <2>1, <2>2 DEF Holders, R!TypeOK
    <2>3. CASE l = current[p]
      <3>1. Holders(l)' = Holders(l) \ {p} /\ p \in Holders(l)
        BY <1>0, <2>1, <2>3 DEF Holders, R!TypeOK
      <3>2. Cardinality(Holders(l)') = Cardinality(Holders(l)) - 1
        BY <1>n, <3>1, FS_RemoveElement
      <3>3. handed'[l] = handed[l] + 1
        BY <1>0, <2>1, <2>3 DEF R!TypeOK
      <3>4. Claims(l)' <= Claims(l)
        BY <1>n, <3>2, <3>3 DEF Claims
      <3> QED BY <1>1, <2>1, <3>4
    <2> QED BY <2>2, <2>3
  <1>6. ASSUME NEW p \in Pull, NEW k \in Line, R!Claim(p, k) PROVE Fine(l)
    <2>1. CASE UNCHANGED <<keyUntil, current>>
      BY <1>2, <1>6, <2>1 DEF R!Claim, Holders
    <2>2. CASE ~ (clock < keyUntil[k]) /\ keyUntil' = [keyUntil EXCEPT ![k] = clock + KeyTTL]
               /\ current' = [current EXCEPT ![p] = k]
      <3>1. handed' = handed /\ k \in todo[p] /\ pc[p] = "reading"
        BY <1>6 DEF R!Claim
      <3>2. k \in got[p] /\ current[p] = NoLine
        BY <1>0, <3>1 DEF Places, R!TypeOK
      <3>3. CASE l # k
        BY <1>0, <1>2, <2>2, <3>1, <3>2, <3>3 DEF Holders, R!TypeOK
      <3>4. CASE l = k
        <4>1. /\ At[l] >= since[p] - LookbackMax /\ clock - since[p] <= Span /\ At[l] < clock
              /\ since[p] \in Nat /\ clock \in Nat /\ At[l] \in Nat
          BY <1>0, <3>1, <3>2, <3>4 DEF InTime, R!TypeOK
        <4>2. Holders(l)' = Holders(l) \cup {p} /\ p \notin Holders(l)
          BY <1>0, <2>2, <3>2, <3>4 DEF Holders, R!TypeOK
        <4>3. Cardinality(Holders(l)') = Cardinality(Holders(l)) + 1
          BY <1>n, <4>2, FS_AddElement
        <4> DEFINE n == Claims(l)
        <4>4. Claims(l)' = n + 1 /\ n \in Nat
          BY <1>n, <3>1, <4>3 DEF Claims
        <4>5. keyUntil'[l] = clock + KeyTTL /\ keyUntil[l] <= clock /\ keyUntil[l] \in Nat
          BY <1>0, <2>2, <3>4, <4>1 DEF R!TypeOK
        <4>6. n * KeyTTL \in Nat /\ (n + 1) * KeyTTL = n * KeyTTL + KeyTTL
          BY <4>4, TimesMonotone
        <4>7. At[l] + n * KeyTTL < clock
          <5>1. CASE n = 0
            BY <4>1, <5>1
          <5>2. CASE n > 0
            <6>1. keyUntil[l] > At[l] + n * KeyTTL
              BY <1>0, <5>2 DEF Paced
            <6> QED BY <4>1, <4>5, <4>6, <6>1
          <5> QED BY <4>4, <5>1, <5>2
        <4> HIDE DEF n
        <4>8. /\ keyUntil'[l] > At[l] + (n + 1) * KeyTTL
              /\ n * KeyTTL < LookbackMax + Span
          BY <4>1, <4>5, <4>6, <4>7
        <4>9. (Claims(l)' - 1) * KeyTTL = n * KeyTTL /\ Claims(l)' * KeyTTL = (n + 1) * KeyTTL
          BY <4>4
        <4> QED BY <4>8, <4>9 DEF Fine
      <3> QED BY <3>3, <3>4
    <2> QED BY <1>6, <2>1, <2>2 DEF R!Claim, R!KeyExists
  <1>7. \/ UNCHANGED <<keyUntil, handed, current>>
        \/ \E p \in Pull, k \in Line : R!Claim(p, k)
        \/ \E p \in Pull : R!Hand(p) \/ R!Fail(p)
    BY RadarSteps DEF R!Tick, R!Store, R!Fetch, R!SaveCursor, R!vars
  <1> QED BY <1>3, <1>4, <1>5, <1>6, <1>7

LEMMA RadarNext ==
  ASSUME RadarInv, [R!Next]_(R!vars) PROVE RadarInv'
  <1>1. R!TypeOK /\ Places /\ InTime
    BY DEF RadarInv
  <1>2. R!TypeOK' /\ Places' /\ InTime'
    BY <1>1, RadarTyped, RadarPlaces, RadarInTime
  <1> QED BY <1>2, RadarPassed, RadarBatch, RadarKeyed, RadarPaced DEF RadarInv

LEMMA RadarFollows ==
  ASSUME RadarInv PROVE R!HandedBounded /\ R!SkippedForAReason /\ R!DuplicateWasHanded
  <1>1. R!HandedBounded
    <2> SUFFICES ASSUME NEW l \in Line, handed[l] > 0
                 PROVE  (handed[l] - 1) * KeyTTL < LookbackMax + Span
      BY DEF R!HandedBounded
    <2>1. handed[l] \in Nat /\ Claims(l) \in Nat /\ handed[l] <= Claims(l)
      BY ClaimsCount DEF RadarInv, R!TypeOK, Claims
    <2>2. (Claims(l) - 1) * KeyTTL < LookbackMax + Span
      BY <2>1 DEF RadarInv, Paced
    <2>3. (handed[l] - 1) * KeyTTL <= (Claims(l) - 1) * KeyTTL
      BY <2>1, RadarConstants, TimesMonotone
    <2>4. (handed[l] - 1) * KeyTTL \in Int /\ (Claims(l) - 1) * KeyTTL \in Int
      BY <2>1, RadarConstants
    <2> QED BY <2>2, <2>3, <2>4, RadarConstants
  <1>2. R!SkippedForAReason
    <2> SUFFICES ASSUME NEW l \in stored, At[l] <= cursor, l \notin filed, ~ R!InHand(l)
                 PROVE  \/ l \in burnt \cup late \cup cut \cup aged
                        \/ handed[l] > 0 /\ R!Shadowed(l)
      BY DEF R!SkippedForAReason
    <2>1. l \in Line /\ LineSettled(l) /\ ~ InPull(l)
      BY DEF RadarInv, R!TypeOK, Passed, R!InHand, InPull
    <2> QED BY <2>1 DEF RadarInv, Filed, LineSettled
  <1>3. R!DuplicateWasHanded
    BY DEF RadarInv, R!TypeOK, Keyed, Claimed, InPull, R!DuplicateWasHanded, R!InHand
  <1> QED BY <1>1, <1>2, <1>3

-----------------------------------------------------------------------------
(***************************************************************************)
(* Matching.  The loop of evaluate_rules is a recursive function.  That it *)
(* is defined is shown with a function that has its values (First), and    *)
(* what it computes with its greatest counterexample.                      *)
(***************************************************************************)
\* The least element of a set of numbers that is not empty.
First(S) == CHOOSE j \in S : \A k \in S : j <= k

LEMMA FirstIsLeast ==
  ASSUME NEW S \in SUBSET Nat, S # {}
  PROVE  First(S) \in S /\ \A k \in S : First(S) <= k
  <1> DEFINE Rel == OpToRel(<, Nat)
  <1>1. IsWellFoundedOn(Rel, Nat)
    BY NatLessThanWellFounded
  <1>2. \A x, y \in Nat : <<x, y>> \in Rel <=> x < y
    BY DEF OpToRel
  <1> HIDE DEF Rel
  <1>3. PICK m \in S : \A y \in S : ~ (<<y, m>> \in Rel)
    BY <1>1, WFMin
  <1>4. ASSUME NEW y \in S PROVE m <= y
    <2>1. m \in Nat /\ y \in Nat /\ ~ (y < m)
      BY <1>2, <1>3
    <2> QED BY <2>1
  <1> QED BY <1>3, <1>4 DEF First

\* The numbers of the rules in a list that match an event, from one of them on.
Hits(list, e, i) == {j \in 1 .. Len(list) : j >= i /\ M!Matches(list[j], e)}

\* evaluate_rules finds the first rule that matches, or none if there is none.
LEMMA EvaluateFindsTheFirst ==
  ASSUME NEW list, NEW e, Len(list) \in Nat
  PROVE  M!Evaluate(list, e) = IF Hits(list, e, 1) = {} THEN 0 ELSE First(Hits(list, e, 1))
  <1> DEFINE n == Len(list)
             Loop(f) == f = [i \in 1 .. n + 1 |->
                               IF i > n THEN 0 ELSE IF M!Matches(list[i], e) THEN i ELSE f[i + 1]]
             Value(i) == IF Hits(list, e, i) = {} THEN 0 ELSE First(Hits(list, e, i))
             at0 == CHOOSE f : Loop(f)
  <1>1. ASSUME NEW i \in 1 .. n + 1
        PROVE  Value(i) = IF i > n THEN 0 ELSE IF M!Matches(list[i], e) THEN i ELSE Value(i + 1)
    <2>1. CASE i > n
      BY <2>1 DEF Hits
    <2>2. CASE i <= n /\ M!Matches(list[i], e)
      <3>1. i \in Hits(list, e, i) /\ Hits(list, e, i) \in SUBSET Nat /\ \A j \in Hits(list, e, i) : i <= j
        BY <2>2 DEF Hits
      <3>2. First(Hits(list, e, i)) \in Hits(list, e, i) /\ First(Hits(list, e, i)) <= i
        BY <3>1, FirstIsLeast
      <3>3. First(Hits(list, e, i)) = i
        BY <3>1, <3>2
      <3> QED BY <2>2, <3>1, <3>3
    <2>3. CASE i <= n /\ ~ M!Matches(list[i], e)
      <3>1. Hits(list, e, i) = Hits(list, e, i + 1)
        BY <2>3 DEF Hits
      <3> QED BY <2>3, <3>1
    <2> QED BY <2>1, <2>2, <2>3
  <1>2. Loop([i \in 1 .. n + 1 |-> Value(i)])
    <2> HIDE DEF Value
    <2> QED BY <1>1
  <1>3. Loop(at0)
    BY <1>2
  <1>4. M!Evaluate(list, e) = at0[1]
    BY DEF M!Evaluate
  <1> HIDE DEF at0, Value
  <1>5. \A i \in 1 .. n + 1 : at0[i] = Value(i)
    <2> DEFINE Rel == OpToRel(<, Nat)
               Bad == {k \in 0 .. n : at0[n + 1 - k] # Value(n + 1 - k)}
    <2>1. IsWellFoundedOn(Rel, Nat)
      BY NatLessThanWellFounded
    <2>2. \A x, y \in Nat : <<x, y>> \in Rel <=> x < y
      BY DEF OpToRel
    <2> HIDE DEF Rel
    <2>3. ASSUME Bad # {} PROVE FALSE
      <3>1. Bad \in SUBSET Nat
        OBVIOUS
      <3>2. PICK k \in Bad : \A y \in Bad : ~ (<<y, k>> \in Rel)
        BY <2>1, <2>3, <3>1, WFMin
      <3>3. k \in 0 .. n /\ at0[n + 1 - k] # Value(n + 1 - k)
        OBVIOUS
      <3>4. k > 0 => at0[n + 1 - (k - 1)] = Value(n + 1 - (k - 1))
        <4> SUFFICES ASSUME k > 0, at0[n + 1 - (k - 1)] # Value(n + 1 - (k - 1)) PROVE FALSE
          OBVIOUS
        <4>1. k - 1 \in Bad /\ k - 1 \in Nat /\ k \in Nat /\ k - 1 < k
          BY <3>3
        <4>2. <<k - 1, k>> \in Rel
          BY <2>2, <4>1
        <4> QED BY <3>2, <4>1, <4>2
      <3>5. PICK i \in 1 .. n + 1 : i = n + 1 - k
        BY <3>3
      <3>6. at0[i] # Value(i) /\ (i <= n => at0[i + 1] = Value(i + 1))
        <4>1. i <= n => k > 0 /\ n + 1 - (k - 1) = i + 1
          BY <3>3, <3>5
        <4> QED BY <3>3, <3>4, <3>5, <4>1
      <3>7. at0[i] = IF i > n THEN 0 ELSE IF M!Matches(list[i], e) THEN i ELSE at0[i + 1]
        BY <1>3
      <3> QED BY <1>1, <3>6, <3>7
    <2>4. ASSUME NEW i \in 1 .. n + 1 PROVE at0[i] = Value(i)
      <3>1. n + 1 - i \in 0 .. n /\ n + 1 - (n + 1 - i) = i
        OBVIOUS
      <3>2. n + 1 - i \notin Bad
        BY <2>3
      <3> QED BY <3>1, <3>2
    <2> QED BY <2>4
  <1> QED BY <1>4, <1>5 DEF Value

-----------------------------------------------------------------------------
\* The texts that the classifiers look for, and the entries of their tables.
Texts ==
  {"authentication failed", "too many connections", "lock timeout",
   "duration over 5 s", "not yet accepting", "could not write to file", "invalid page",
   "relation mapping", "is shut down", "panic:", "server initialized", "maxmemory",
   "latency latest", "aof rewrite failed", "redis is down", "oom", "retry in",
   "max retries", "time limit exceeded", "broker unreachable", "restart loop",
   "no consumer", "s3error", "slow request", "disk full", "connection refused",
   "weed server exit", "telegram error", "dlq replay failure", "three pull failures",
   "pull failure", "heartbeat overdue", "all roles down", "batch noise",
   "database refused", "celery refused", "pncp timeout", "parser failed",
   "worker unregistered", "fatal", "critical", "error", "warn"}

Entries == Texts \X M!Severity

\* Every entry stands for an alarm, except for the noise of redis and loki, and
\* for the last of the words.
Loud == Texts \X M!Alarming
Noise(of) == CASE of = "redis" -> {<<"server initialized", "INFO">>}
               [] of = "loki" -> {<<"batch noise", "INFO">>}
               [] OTHER -> {}

\* Sequences of as many entries as the tables have.
LEMMA SeqOfOne ==
  ASSUME NEW S, NEW a \in S
  PROVE  <<a>> \in Seq(S)
  OBVIOUS

LEMMA SeqOfFour ==
  ASSUME NEW S, NEW a \in S, NEW b \in S, NEW c \in S, NEW d \in S
  PROVE  <<a, b, c, d>> \in Seq(S)
  OBVIOUS

LEMMA SeqOfFive ==
  ASSUME NEW S, NEW a \in S, NEW b \in S, NEW c \in S, NEW d \in S, NEW e \in S
  PROVE  <<a, b, c, d, e>> \in Seq(S)
  OBVIOUS

LEMMA SeqOfSix ==
  ASSUME NEW S, NEW a \in S, NEW b \in S, NEW c \in S, NEW d \in S, NEW e \in S,
         NEW f \in S
  PROVE  <<a, b, c, d, e, f>> \in Seq(S)
  OBVIOUS

LEMMA SeqOfSeven ==
  ASSUME NEW S, NEW a \in S, NEW b \in S, NEW c \in S, NEW d \in S, NEW e \in S,
         NEW f \in S, NEW g \in S
  PROVE  <<a, b, c, d, e, f, g>> \in Seq(S)
  OBVIOUS

LEMMA SeqOfTen ==
  ASSUME NEW S, NEW a \in S, NEW b \in S, NEW c \in S, NEW d \in S, NEW e \in S,
         NEW f \in S, NEW g \in S, NEW h \in S, NEW i \in S, NEW j \in S
  PROVE  <<a, b, c, d, e, f, g, h, i, j>> \in Seq(S)
  OBVIOUS

\* The patterns of every service.
LEMMA PatternTables ==
  ASSUME NEW of
  PROVE  M!Patterns(of) \in Seq(Loud \cup Noise(of))
  <1>1. CASE of = "postgres"
    <2>1. /\ <<"authentication failed", "ERROR">> \in Loud /\ <<"too many connections", "ERROR">> \in Loud
          /\ <<"lock timeout", "ERROR">> \in Loud /\ <<"duration over 5 s", "ERROR">> \in Loud
          /\ <<"not yet accepting", "CRITICAL">> \in Loud /\ <<"could not write to file", "CRITICAL">> \in Loud
          /\ <<"invalid page", "FATAL">> \in Loud /\ <<"relation mapping", "FATAL">> \in Loud
          /\ <<"is shut down", "FATAL">> \in Loud /\ <<"panic:", "FATAL">> \in Loud
      BY DEF Loud, Texts, M!Alarming
    <2>2. M!Patterns("postgres") \in Seq(Loud \cup Noise("postgres"))
      BY <2>1, SeqOfTen DEF M!Patterns
    <2> QED BY <1>1, <2>2
  <1>2. CASE of = "redis"
    <2>1. /\ <<"server initialized", "INFO">> \in Noise("redis") /\ <<"maxmemory", "ERROR">> \in Loud
          /\ <<"latency latest", "ERROR">> \in Loud /\ <<"aof rewrite failed", "CRITICAL">> \in Loud
          /\ <<"redis is down", "FATAL">> \in Loud /\ <<"oom", "FATAL">> \in Loud
      BY DEF Loud, Texts, M!Alarming, Noise
    <2>2. M!Patterns("redis") \in Seq(Loud \cup Noise("redis"))
      BY <2>1, SeqOfSix DEF M!Patterns
    <2> QED BY <1>2, <2>2
  <1>3. CASE of = "celery"
    <2>1. /\ <<"retry in", "ERROR">> \in Loud /\ <<"max retries", "ERROR">> \in Loud
          /\ <<"time limit exceeded", "ERROR">> \in Loud /\ <<"broker unreachable", "CRITICAL">> \in Loud
          /\ <<"restart loop", "CRITICAL">> \in Loud /\ <<"no consumer", "CRITICAL">> \in Loud
      BY DEF Loud, Texts, M!Alarming
    <2>2. M!Patterns("celery") \in Seq(Loud \cup Noise("celery"))
      BY <2>1, SeqOfSix DEF M!Patterns
    <2> QED BY <1>3, <2>2
  <1>4. CASE of = "sargaco"
    <2>1. /\ <<"s3error", "ERROR">> \in Loud /\ <<"slow request", "ERROR">> \in Loud
          /\ <<"disk full", "CRITICAL">> \in Loud /\ <<"connection refused", "CRITICAL">> \in Loud
          /\ <<"weed server exit", "FATAL">> \in Loud
      BY DEF Loud, Texts, M!Alarming
    <2>2. M!Patterns("sargaco") \in Seq(Loud \cup Noise("sargaco"))
      BY <2>1, SeqOfFive DEF M!Patterns
    <2> QED BY <1>4, <2>2
  <1>5. CASE of = "seriema"
    <2>1. /\ <<"telegram error", "ERROR">> \in Loud /\ <<"dlq replay failure", "ERROR">> \in Loud
          /\ <<"three pull failures", "CRITICAL">> \in Loud /\ <<"pull failure", "ERROR">> \in Loud
          /\ <<"broker unreachable", "CRITICAL">> \in Loud /\ <<"heartbeat overdue", "CRITICAL">> \in Loud
          /\ <<"all roles down", "FATAL">> \in Loud
      BY DEF Loud, Texts, M!Alarming
    <2>2. M!Patterns("seriema") \in Seq(Loud \cup Noise("seriema"))
      BY <2>1, SeqOfSeven DEF M!Patterns
    <2> QED BY <1>5, <2>2
  <1>6. CASE of = "loki"
    <2>1. /\ <<"batch noise", "INFO">> \in Noise("loki")
      BY DEF Loud, Texts, M!Alarming, Noise
    <2>2. M!Patterns("loki") \in Seq(Loud \cup Noise("loki"))
      BY <2>1, SeqOfOne DEF M!Patterns
    <2> QED BY <1>6, <2>2
  <1>7. CASE of = "veredas"
    <2>1. /\ <<"database refused", "CRITICAL">> \in Loud /\ <<"celery refused", "CRITICAL">> \in Loud
          /\ <<"pncp timeout", "ERROR">> \in Loud /\ <<"parser failed", "ERROR">> \in Loud
          /\ <<"worker unregistered", "ERROR">> \in Loud
      BY DEF Loud, Texts, M!Alarming
    <2>2. M!Patterns("veredas") \in Seq(Loud \cup Noise("veredas"))
      BY <2>1, SeqOfFive DEF M!Patterns
    <2> QED BY <1>7, <2>2
  <1>8. CASE of \notin {"postgres", "redis", "celery", "sargaco", "seriema", "loki", "veredas"}
    <2>1. M!Patterns(of) = << >>
      BY <1>8 DEF M!Patterns
    <2> QED BY <2>1
  <1> QED BY <1>1, <1>2, <1>3, <1>4, <1>5, <1>6, <1>7, <1>8

LEMMA SeqGrows ==
  ASSUME NEW S, NEW T, S \subseteq T, NEW s \in Seq(S) PROVE s \in Seq(T)
  BY ElementOfSeq, SeqDef

LEMMA WordTable ==
  /\ M!Words \in Seq(Entries) /\ Len(M!Words) = 4
  /\ M!Words[1] = <<"fatal", "FATAL">> /\ M!Words[2] = <<"critical", "CRITICAL">>
  /\ M!Words[3] = <<"error", "ERROR">> /\ M!Words[4] = <<"warn", "WARN">>
  <1>1. /\ <<"fatal", "FATAL">> \in Entries /\ <<"critical", "CRITICAL">> \in Entries
        /\ <<"error", "ERROR">> \in Entries /\ <<"warn", "WARN">> \in Entries
    BY DEF Entries, Texts, M!Severity
  <1>2. M!Words \in Seq(Entries)
    BY <1>1, SeqOfFour DEF M!Words
  <1> QED BY <1>2 DEF M!Words

LEMMA Tables ==
  ASSUME NEW of
  PROVE  M!Patterns(of) \in Seq(Entries)
  <1>1. Loud \subseteq Entries
    BY DEF Loud, Entries, M!Severity, M!Alarming
  <1>2. <<"server initialized", "INFO">> \in Entries /\ <<"batch noise", "INFO">> \in Entries
    BY DEF Entries, Texts, M!Severity
  <1>3. Noise(of) \subseteq Entries
    BY <1>2 DEF Noise
  <1> QED BY <1>1, <1>3, PatternTables, SeqGrows

LEMMA FirstMatchIsThere ==
  ASSUME NEW table \in Seq(Entries), NEW text, NEW otherwise
  PROVE  M!FirstMatch(table, text, otherwise) \in M!Severity \cup {otherwise}
  <1> DEFINE hits == {i \in 1 .. Len(table) : table[i][1] \in text}
  <1>1. CASE hits = {}
    BY <1>1 DEF M!FirstMatch
  <1>2. CASE hits # {}
    <2>1. hits \in SUBSET Nat
      OBVIOUS
    <2>2. First(hits) \in hits
      BY <1>2, <2>1, FirstIsLeast
    <2>3. table[First(hits)] \in Entries
      BY <2>2, ElementOfSeq
    <2>4. M!FirstMatch(table, text, otherwise) = table[First(hits)][2]
      BY <1>2 DEF M!FirstMatch, First
    <2> QED BY <2>3, <2>4 DEF Entries
  <1> QED BY <1>1, <1>2

\* What the classifier needs to know of a line.
IsLine(text) ==
  /\ DOMAIN text = {"form", "level", "prefix", "marks", "inner"}
  /\ text.form \in {"text", "json", "bare", "tail", "wrapped"}
  /\ text.level \in M!Level \cup {"none"}
  /\ text.form = "text" => text.level = "none"
  /\ text.prefix \in M!Prefix \cup {"none"}

\* The levels, and the severity of each.
LEMMA LevelsGrade ==
  /\ M!Level = {"info", "warn", "error", "err", "critical", "alert", "fatal", "emergency"}
  /\ \A level \in M!Level : M!LevelSeverity[level] \in M!Severity
  /\ M!LevelSeverity["warn"] = "WARN"
  /\ "none" \notin M!Level
  BY DEF M!Level, M!LevelSeverity, M!Severity

\* An object declares a severity or none.
LEMMA DeclaredIs ==
  ASSUME NEW text, IsLine(text)
  PROVE  /\ M!Declared(text) \in M!Severity \cup {"none"}
         /\ M!Declared(text) # "none" <=> text.level \in M!Level
         /\ \A S \in SUBSET M!Severity : M!Declares(text, S) <=> M!Declared(text) \in S
  <1>1. "none" \notin M!Severity
    BY DEF M!Severity
  <1> QED BY <1>1, LevelsGrade DEF M!Declared, M!Declares

\* Every line gets a severity.
LEMMA ClassifyGrades ==
  ASSUME NEW of, NEW text, IsLine(text)
  PROVE  M!Classify(of, text) \in M!Severity
  <1>1. M!Declared(text) \in M!Severity \cup {"none"}
    BY DeclaredIs
  <1>2. {"INFO", "WARN", "ERROR", "CRITICAL"} \subseteq M!Severity /\ "none" \notin M!Severity
    BY DEF M!Severity
  <1>3. M!Veredas(text) \in M!Severity
    <2>1. \A s, o : M!FirstMatch(M!Words, s, o) \in M!Severity \cup {o}
      BY Tables, WordTable, FirstMatchIsThere
    <2>2. \A s, o : M!FirstMatch(M!Patterns("veredas"), s, o) \in M!Severity \cup {o}
      BY Tables, WordTable, FirstMatchIsThere
    <2> QED BY <1>1, <1>2, <2>1, <2>2 DEF M!Veredas
  <1>4. M!FirstMatch(M!Patterns(of) \o M!Words, M!Text(text), "INFO") \in M!Severity
    <2>1. M!Patterns(of) \o M!Words \in Seq(Entries)
      BY Tables, WordTable, ConcatProperties
    <2>2. M!FirstMatch(M!Patterns(of) \o M!Words, M!Text(text), "INFO") \in M!Severity \cup {"INFO"}
      BY <2>1, FirstMatchIsThere, Zenon
    <2> QED BY <1>2, <2>2
  <1> QED BY <1>1, <1>3, <1>4 DEF M!Classify, M!ByText

-----------------------------------------------------------------------------
\* A text with an alarm in it is taken for one, if no entry that stands for none
\* occurs in it before the last of the alarms.
LEMMA Hears ==
  ASSUME NEW table \in Seq(Entries), NEW text, NEW otherwise,
         \E i \in 1 .. Len(table) : table[i][1] \in text /\ table[i][2] \in M!Alarming,
         \A i, j \in 1 .. Len(table) :
           i <= j /\ table[i][1] \in text /\ table[j][2] \in M!Alarming => table[i][2] \in M!Alarming
  PROVE  M!FirstMatch(table, text, otherwise) \in M!Alarming
  <1> DEFINE hits == {i \in 1 .. Len(table) : table[i][1] \in text}
  <1>1. PICK k \in hits : table[k][2] \in M!Alarming
    OBVIOUS
  <1>2. hits \in SUBSET Nat
    OBVIOUS
  <1>3. First(hits) \in hits /\ First(hits) <= k
    BY <1>1, <1>2, FirstIsLeast
  <1>4. M!FirstMatch(table, text, otherwise) = table[First(hits)][2]
    BY <1>3 DEF M!FirstMatch, First
  <1> QED BY <1>1, <1>3, <1>4

\* What the words say.
LEMMA WordsSpell ==
  /\ \A i \in 1 .. 4 : M!Words[i][2] \in M!Alarming <=> i # 4
  /\ \A i \in 1 .. 4 : M!Words[i][1] \in {"fatal", "critical", "error", "warn"}
  /\ \A word : M!IsWord(word) /\ word # "warn" => \E i \in 1 .. 3 : M!Words[i][1] = word
  <1>1. \A i \in 1 .. 4 : i = 1 \/ i = 2 \/ i = 3 \/ i = 4
    OBVIOUS
  <1>2. \A i \in 1 .. 4 : M!Words[i][2] \in M!Alarming <=> i # 4
    BY <1>1, WordTable DEF M!Alarming
  <1>3. \A i \in 1 .. 4 : M!Words[i][1] \in {"fatal", "critical", "error", "warn"}
    BY <1>1, WordTable
  <1>4. ASSUME NEW word, M!IsWord(word), word # "warn"
        PROVE  \E i \in 1 .. 3 : M!Words[i][1] = word
    <2>1. PICK i \in 1 .. 4 : M!Words[i][1] = word
      BY <1>4, WordTable DEF M!IsWord
    <2>2. i # 4
      BY <1>4, <2>1, WordTable
    <2>3. i \in 1 .. 3
      BY <2>2
    <2> QED BY <2>1, <2>3
  <1> QED BY <1>2, <1>3, <1>4

\* A pattern stands for an alarm unless it is noise.
LEMMA PatternsAlarm ==
  ASSUME NEW of, NEW i \in 1 .. Len(M!Patterns(of)), M!Patterns(of)[i][2] \notin M!Alarming
  PROVE  \/ of = "redis" /\ M!Patterns(of)[i][1] = "server initialized"
         \/ of = "loki" /\ M!Patterns(of)[i][1] = "batch noise"
  <1>1. PICK entry \in Loud \cup Noise(of) : entry = M!Patterns(of)[i]
    BY PatternTables, ElementOfSeq
  <1>2. entry \notin Loud
    BY <1>1 DEF Loud
  <1>3. \/ of = "redis" /\ entry = <<"server initialized", "INFO">>
        \/ of = "loki" /\ entry = <<"batch noise", "INFO">>
    BY <1>1, <1>2 DEF Noise
  <1>4. /\ <<"server initialized", "INFO">>[1] = "server initialized"
        /\ <<"batch noise", "INFO">>[1] = "batch noise"
    OBVIOUS
  <1> QED BY <1>1, <1>3, <1>4, Zenon

\* Where the last word is no alarm, a search through the patterns and then the
\* words hears what is in the text.
LEMMA BothHear ==
  ASSUME NEW p \in Seq(Entries), NEW w \in Seq(Entries), Len(w) = 4,
         \A i \in 1 .. 4 : w[i][2] \in M!Alarming <=> i # 4,
         NEW text,
         \A i \in 1 .. Len(p) : p[i][1] \in text => p[i][2] \in M!Alarming,
         \/ \E i \in 1 .. Len(p) : p[i][1] \in text
         \/ \E i \in 1 .. 3 : w[i][1] \in text
  PROVE  M!FirstMatch(p \o w, text, "INFO") \in M!Alarming
  <1>1. PICK n \in Nat : n = Len(p)
    BY LenProperties
  <1>2. PICK table \in Seq(Entries) : table = p \o w
    BY ConcatProperties
  <1>3. /\ Len(table) = n + 4
        /\ \A i \in 1 .. n + 4 : table[i] = IF i <= n THEN p[i] ELSE w[i - n]
    <2>1. /\ Len(p \o w) = Len(p) + Len(w)
          /\ \A i \in 1 .. Len(p) + Len(w) : (p \o w)[i] = IF i <= Len(p) THEN p[i] ELSE w[i - Len(p)]
      BY ConcatProperties, Zenon
    <2>2. Len(w) = 4
      OBVIOUS
    <2> QED BY <1>1, <1>2, <2>1, <2>2, Zenon
  <1>4. \E i \in 1 .. n + 4 : table[i][1] \in text /\ table[i][2] \in M!Alarming
    <2>1. ASSUME NEW i \in 1 .. n, p[i][1] \in text
          PROVE  i \in 1 .. n + 4 /\ table[i][1] \in text /\ table[i][2] \in M!Alarming
      <3>1. i \in 1 .. n + 4 /\ i <= n
        OBVIOUS
      <3> QED BY <1>1, <1>3, <2>1, <3>1
    <2>2. ASSUME NEW i \in 1 .. 3, w[i][1] \in text
          PROVE  n + i \in 1 .. n + 4 /\ table[n + i][1] \in text /\ table[n + i][2] \in M!Alarming
      <3>1. n + i \in 1 .. n + 4 /\ ~ (n + i <= n) /\ n + i - n = i /\ i \in 1 .. 4 /\ i # 4
        OBVIOUS
      <3>2. table[n + i] = w[i]
        BY <1>3, <3>1
      <3> QED BY <2>2, <3>1, <3>2
    <2> QED BY <1>1, <2>1, <2>2
  <1>5. ASSUME NEW i \in 1 .. n + 4, NEW j \in 1 .. n + 4, i <= j,
               table[i][1] \in text, table[j][2] \in M!Alarming
        PROVE  table[i][2] \in M!Alarming
    <2>1. CASE i <= n
      <3>1. i \in 1 .. n
        BY <2>1
      <3> QED BY <1>1, <1>3, <1>5, <2>1, <3>1
    <2>2. CASE i > n
      <3>0. i <= j /\ i \in Int /\ j \in Int /\ i <= n + 4 /\ j <= n + 4
        BY <1>5
      <3>1. ~ (i <= n) /\ ~ (j <= n) /\ i - n \in 1 .. 4 /\ j - n \in 1 .. 4 /\ (i - n = 4 => j - n = 4)
        BY <2>2, <3>0
      <3>2. table[i] = w[i - n] /\ table[j] = w[j - n]
        BY <1>3, <3>1
      <3>3. j - n # 4
        BY <1>5, <3>1, <3>2
      <3> QED BY <3>1, <3>2, <3>3
    <2> QED BY <2>1, <2>2
  <1>6. M!FirstMatch(table, text, "INFO") \in M!Alarming
    BY <1>3, <1>4, <1>5, Hears
  <1> QED BY <1>2, <1>6

LEMMA SearchHears ==
  ASSUME NEW of, NEW text,
         of = "redis" => "server initialized" \notin text,
         of = "loki" => "batch noise" \notin text,
         \/ \E i \in 1 .. Len(M!Patterns(of)) : M!Patterns(of)[i][1] \in text
         \/ \E i \in 1 .. 3 : M!Words[i][1] \in text
  PROVE  M!FirstMatch(M!Patterns(of) \o M!Words, text, "INFO") \in M!Alarming
  <1>1. \A i \in 1 .. Len(M!Patterns(of)) :
          M!Patterns(of)[i][1] \in text => M!Patterns(of)[i][2] \in M!Alarming
    BY PatternsAlarm
  <1>2. M!Patterns(of) \in Seq(Entries) /\ M!Words \in Seq(Entries) /\ Len(M!Words) = 4
    BY Tables, WordTable
  <1> QED BY <1>1, <1>2, WordsSpell, BothHear

\* A table without noise, searched for something that may not be there.
LEMMA VeredasPatterns ==
  ASSUME NEW text
  PROVE  LET found == M!FirstMatch(M!Patterns("veredas"), text, "none") IN
         /\ found # "none" => found \in M!Alarming
         /\ found = "none" =>
              \A i \in 1 .. Len(M!Patterns("veredas")) : M!Patterns("veredas")[i][1] \notin text
  <1> DEFINE table == M!Patterns("veredas")
             hits == {i \in 1 .. Len(table) : table[i][1] \in text}
  <1>1. ASSUME NEW i \in 1 .. Len(table) PROVE table[i][2] \in M!Alarming
    <2>1. "veredas" # "redis" /\ "veredas" # "loki"
      OBVIOUS
    <2> QED BY <2>1, PatternsAlarm
  <1>2. CASE hits = {}
    BY <1>2 DEF M!FirstMatch
  <1>3. CASE hits # {}
    <2>1. hits \in SUBSET Nat
      OBVIOUS
    <2>2. First(hits) \in hits
      BY <1>3, <2>1, FirstIsLeast
    <2>3. M!FirstMatch(table, text, "none") = table[First(hits)][2]
      BY <1>3 DEF M!FirstMatch, First
    <2>4. table[First(hits)][2] \in M!Alarming /\ "none" \notin M!Alarming
      BY <1>1, <2>2 DEF M!Alarming
    <2> QED BY <2>3, <2>4
  <1> QED BY <1>2, <1>3

\* None of the patterns of veredas is a word.
LEMMA VeredasNoWord ==
  \A i \in 1 .. Len(M!Patterns("veredas")) : ~ M!IsWord(M!Patterns("veredas")[i][1])
  <1>1. Len(M!Patterns("veredas")) = 5
    BY DEF M!Patterns
  <1>2. /\ M!Patterns("veredas")[1][1] = "database refused"
        /\ M!Patterns("veredas")[2][1] = "celery refused"
        /\ M!Patterns("veredas")[3][1] = "pncp timeout"
        /\ M!Patterns("veredas")[4][1] = "parser failed"
        /\ M!Patterns("veredas")[5][1] = "worker unregistered"
    BY DEF M!Patterns
  <1>3. \A i \in 1 .. 5 : i = 1 \/ i = 2 \/ i = 3 \/ i = 4 \/ i = 5
    OBVIOUS
  <1>4. \A mark : M!IsWord(mark) => mark \in {"fatal", "critical", "error", "warn"}
    BY WordsSpell, WordTable DEF M!IsWord
  <1> QED BY <1>1, <1>2, <1>3, <1>4

\* The words alone.
LEMMA WordsHear ==
  ASSUME NEW text, NEW i \in 1 .. 3, M!Words[i][1] \in text
  PROVE  M!FirstMatch(M!Words, text, "INFO") \in M!Alarming
  <1>1. M!Words \in Seq(Entries) /\ Len(M!Words) = 4
    BY WordTable
  <1>2. i \in 1 .. 4 /\ i # 4 /\ M!Words[i][2] \in M!Alarming
    BY WordsSpell
  <1>3. \A j, k \in 1 .. 4 : j <= k /\ M!Words[k][2] \in M!Alarming => M!Words[j][2] \in M!Alarming
    <2> SUFFICES ASSUME NEW j \in 1 .. 4, NEW k \in 1 .. 4, j <= k, M!Words[k][2] \in M!Alarming
                 PROVE  M!Words[j][2] \in M!Alarming
      OBVIOUS
    <2>1. k # 4
      BY WordsSpell
    <2>2. j # 4
      BY <2>1
    <2> QED BY <2>2, WordsSpell
  <1> QED BY <1>1, <1>2, <1>3, Hears

-----------------------------------------------------------------------------
\* What is true of a line at each stage.
MatchInv ==
  /\ M!MatchingTypeOK
  /\ stage = "read" => IsLine(line)
  /\ stage = "classified" => IsLine(line) /\ severity = M!Classify(service, line)
  /\ stage = "matched" => rules \in RuleList /\ rule = M!Evaluate(rules, event)

LEMMA MatchInit == ApiInit => MatchInv
  BY DEF ApiInit, MatchInv, M!MatchingInit, M!MatchingTypeOK, M!EmptyLine

LEMMA RuleNumber ==
  ASSUME M!MatchingAssumption, NEW list \in RuleList, NEW e
  PROVE  Len(list) \in Nat /\ M!Evaluate(list, e) \in 0 .. Len(list)
  <1>1. Len(list) \in Nat
    BY LenProperties DEF M!MatchingAssumption
  <1>2. Hits(list, e, 1) # {} => First(Hits(list, e, 1)) \in 1 .. Len(list)
    <2>1. Hits(list, e, 1) \in SUBSET Nat
      BY DEF Hits
    <2> QED BY <2>1, FirstIsLeast DEF Hits
  <1> QED BY <1>1, <1>2, EvaluateFindsTheFirst

LEMMA LogLines ==
  ASSUME NEW of, NEW text \in M!LogLine(of)
  PROVE  IsLine(text)
  <1> DEFINE Forms == {"text", "json", "bare", "tail"} \cup (IF of = "veredas" THEN {"wrapped"} ELSE {})
             Sets == {S \in SUBSET M!MarksOf(of) : M!Cardinality(S) <= MaxMarks}
             Lines(form, marks) ==
               [form : {form},
                level : IF form = "text" THEN {"none"} ELSE M!Level \cup {"none"},
                prefix : IF form = "bare" THEN {"none"} ELSE M!Prefix \cup {"none"},
                marks : {marks},
                inner : IF form = "wrapped" THEN SUBSET marks ELSE {{}}]
  <1>1. text \in UNION {Lines(form, marks) : form \in Forms, marks \in Sets}
    BY DEF M!LogLine
  <1> HIDE DEF Lines, Sets
  <1>2. PICK form \in Forms, marks \in Sets : text \in Lines(form, marks)
    BY <1>1
  <1>3. /\ DOMAIN text = {"form", "level", "prefix", "marks", "inner"}
        /\ text.form = form /\ text.prefix \in M!Prefix \cup {"none"}
        /\ text.level \in M!Level \cup {"none"}
        /\ form = "text" => text.level = "none"
    BY <1>2 DEF Lines
  <1> QED BY <1>3 DEF IsLine

LEMMA MatchNext ==
  ASSUME M!MatchingAssumption, MatchInv, M!MatchingNext
  PROVE  MatchInv'
  <1> USE DEF MatchInv
  <1>1. CASE M!ReadLine
    <2>1. line' \in M!LogLine(service) /\ stage' = "read"
      BY <1>1 DEF M!ReadLine
    <2>2. IsLine(line)' /\ (DOMAIN line = DOMAIN M!EmptyLine)'
      BY <2>1, LogLines DEF IsLine, M!EmptyLine
    <2> QED BY <1>1, <2>1, <2>2 DEF M!ReadLine, M!MatchingTypeOK
  <1>2. CASE M!ClassifyLine
    <2>1. severity' = M!Classify(service, line) /\ severity' \in M!Severity /\ stage' = "classified"
      BY <1>2, ClassifyGrades DEF M!ClassifyLine
    <2>2. (severity = M!Classify(service, line))' /\ IsLine(line)'
      BY <1>2, <2>1 DEF M!ClassifyLine, IsLine
    <2> QED BY <1>2, <2>1, <2>2 DEF M!ClassifyLine, M!MatchingTypeOK
  <1>3. CASE M!DropInfo
    BY <1>3 DEF M!DropInfo, M!MatchingTypeOK, M!EmptyLine
  <1>4. ASSUME NEW label \in ServiceName \cup {"oasis-radar"}, M!RaiseEvent(label) PROVE MatchInv'
    <2>1. event' # << >>
      <3>1. event' = [source |-> "oasis-radar", service |-> label, severity |-> severity,
                      schedule_at |-> Null, team |-> Absent]
        BY <1>4 DEF M!RaiseEvent
      <3>2. "source" \in DOMAIN event' /\ "source" \notin DOMAIN << >>
        BY <3>1
      <3> QED BY <3>2
    <2> QED BY <1>4, <2>1 DEF M!RaiseEvent, M!MatchingTypeOK, M!EmptyLine
  <1>5. CASE M!MatchRules
    <2>1. rules' \in RuleList /\ rule' = M!Evaluate(rules', event) /\ stage' = "matched" /\ event' = event
      BY <1>5 DEF M!MatchRules
    <2>2. (rule = M!Evaluate(rules, event))'
      BY <2>1
    <2>3. rule' \in 0 .. Len(rules')
      BY <2>1, RuleNumber
    <2> QED BY <1>5, <2>1, <2>2, <2>3 DEF M!MatchRules, M!MatchingTypeOK
  <1>6. CASE M!Normalize
    BY <1>6 DEF M!Normalize, M!MatchingTypeOK
  <1> QED BY <1>1, <1>2, <1>3, <1>4, <1>5, <1>6 DEF M!MatchingNext

\* The engine finds the first match, and what the simulation says matches does.
LEMMA MatchFollows ==
  ASSUME M!MatchingAssumption, MatchInv
  PROVE  M!SimulationPredicts
  <1> SUFFICES ASSUME stage = "matched" PROVE
        /\ \A i \in 1 .. Len(rules) : M!Simulate(rules[i], event) => rule \in 1 .. i
        /\ (\A i \in 1 .. Len(rules) : \A entry \in rules[i] : ~ entry.regex) /\ rule > 0 =>
             M!Simulate(rules[rule], event)
    BY DEF M!SimulationPredicts
  <1>1. Len(rules) \in Nat /\ rule = M!Evaluate(rules, event)
    BY RuleNumber DEF MatchInv
  <1>2. rule = IF Hits(rules, event, 1) = {} THEN 0 ELSE First(Hits(rules, event, 1))
    BY <1>1, EvaluateFindsTheFirst
  <1>3. ASSUME Hits(rules, event, 1) # {}
        PROVE  rule \in Hits(rules, event, 1) /\ \A i \in Hits(rules, event, 1) : rule <= i
    <2>1. Hits(rules, event, 1) \in SUBSET Nat
      BY DEF Hits
    <2> QED BY <1>2, <1>3, <2>1, FirstIsLeast
  <1>4. ASSUME NEW i \in 1 .. Len(rules), M!Simulate(rules[i], event) PROVE rule \in 1 .. i
    <2>1. M!Matches(rules[i], event)
      BY <1>4 DEF M!Simulate, M!Matches, M!Holds
    <2>2. i \in Hits(rules, event, 1)
      BY <2>1 DEF Hits
    <2>3. rule \in 1 .. Len(rules) /\ rule <= i
      BY <1>3, <2>2 DEF Hits
    <2> QED BY <1>1, <2>3
  <1>5. ASSUME \A i \in 1 .. Len(rules) : \A entry \in rules[i] : ~ entry.regex, rule > 0
        PROVE  M!Simulate(rules[rule], event)
    <2>1. rule \in 1 .. Len(rules) /\ M!Matches(rules[rule], event)
      BY <1>2, <1>3, <1>5 DEF Hits
    <2> QED BY <1>5, <2>1 DEF M!Simulate, M!Matches, M!Holds
  <1> QED BY <1>4, <1>5

\* What the searched text of a line is made of.
LEMMA TextHolds ==
  ASSUME NEW text, IsLine(text)
  PROVE  /\ text.marks \subseteq M!Text(text)
         /\ M!Text(text) \subseteq text.marks \cup {"error", "none"} \cup M!Prefix \cup M!Level
         /\ text.prefix \in {"error", "critical"} => \E i \in 1 .. 3 : M!Words[i][1] \in M!Text(text)
         /\ /\ text.form \in {"bare", "tail", "wrapped"}
            /\ M!Declares(text, M!Alarming) /\ M!IsWord(text.level)
            => \E i \in 1 .. 3 : M!Words[i][1] \in M!Text(text)
  <1>1. text.marks \subseteq M!Text(text)
    BY DEF M!Text, M!Spelled
  <1>2. M!Text(text) \subseteq text.marks \cup {"error", "none"} \cup M!Prefix \cup M!Level
    BY DEF M!Text, M!Spelled, IsLine
  <1>3. ASSUME text.prefix \in {"error", "critical"} PROVE \E i \in 1 .. 3 : M!Words[i][1] \in M!Text(text)
    <2>1. text.prefix \in M!Text(text)
      BY DEF M!Text
    <2>2. M!Words[2][1] = "critical" /\ M!Words[3][1] = "error" /\ 2 \in 1 .. 3 /\ 3 \in 1 .. 3
      BY WordTable
    <2> QED BY <1>3, <2>1, <2>2
  <1>4. ASSUME text.form \in {"bare", "tail", "wrapped"}, M!Declares(text, M!Alarming), M!IsWord(text.level)
        PROVE  \E i \in 1 .. 3 : M!Words[i][1] \in M!Text(text)
    <2>1. text.level \in M!Text(text)
      BY <1>4 DEF M!Text
    <2>2. text.level # "warn"
      BY <1>4, LevelsGrade DEF M!Declares, M!Alarming
    <2>3. PICK i \in 1 .. 3 : M!Words[i][1] = text.level
      BY <1>4, <2>2, WordsSpell
    <2> QED BY <2>1, <2>3
  <1> QED BY <1>1, <1>2, <1>3, <1>4

\* An alarm in the prefix or the marks of a line, or in its level where the text
\* holds that, is heard by the search, but for the noise.
LEMMA LineHears ==
  ASSUME NEW of, NEW text, IsLine(text),
         ~ (of = "redis" /\ "server initialized" \in text.marks),
         ~ (of = "loki" /\ "batch noise" \in text.marks),
         \/ /\ text.form \in {"bare", "tail", "wrapped"}
            /\ M!Declares(text, M!Alarming) /\ M!IsWord(text.level)
         \/ text.prefix \in {"error", "critical"}
         \/ \E i \in 1 .. Len(M!Patterns(of)) : M!Patterns(of)[i][1] \in text.marks
         \/ \E i \in 1 .. 3 : M!Words[i][1] \in text.marks
  PROVE  M!FirstMatch(M!Patterns(of) \o M!Words, M!Text(text), "INFO") \in M!Alarming
  <1>1. ASSUME NEW mark \in {"server initialized", "batch noise"}, mark \in M!Text(text)
        PROVE  mark \in text.marks
    <2>1. mark \notin {"error", "none"} /\ mark \notin M!Prefix /\ mark \notin M!Level
      BY LevelsGrade DEF M!Prefix
    <2> QED BY <1>1, <2>1, TextHolds
  <1>2. \/ \E i \in 1 .. Len(M!Patterns(of)) : M!Patterns(of)[i][1] \in M!Text(text)
        \/ \E i \in 1 .. 3 : M!Words[i][1] \in M!Text(text)
    BY TextHolds
  <1> QED BY <1>1, <1>2, SearchHears

\* Where an alarm is: in an object, in the prefix, in a pattern or in a word.
LEMMA AlarmsAre ==
  ASSUME NEW of, NEW text, M!Alarms(of, text)
  PROVE  \/ M!Declares(text, M!Alarming)
         \/ text.prefix \in {"error", "critical"}
         \/ \E i \in 1 .. Len(M!Patterns(of)) : M!Patterns(of)[i][1] \in text.marks
         \/ \E i \in 1 .. 3 : M!Words[i][1] \in text.marks
  <1>1. ASSUME NEW i \in 1 .. Len(M!Words), M!Words[i][2] \in M!Alarming PROVE i \in 1 .. 3
    <2>1. i \in 1 .. 4
      BY WordTable
    <2>2. i # 4
      BY <1>1, <2>1, WordsSpell
    <2> QED BY <2>1, <2>2
  <1> QED BY <1>1 DEF M!Alarms

\* A line without the level that it declares.
LEMMA WithoutLevel ==
  ASSUME NEW of, NEW text, IsLine(text), ~ M!OnlyDeclared(of, text)
  PROVE  \/ text.prefix \in {"error", "critical"}
         \/ \E i \in 1 .. Len(M!Patterns(of)) : M!Patterns(of)[i][1] \in text.marks
         \/ \E i \in 1 .. 3 : M!Words[i][1] \in text.marks
  <1> DEFINE other == [text EXCEPT !.level = "none"]
  <1>1. M!Alarms(of, other)
    BY DEF M!OnlyDeclared
  <1>2. other.marks = text.marks /\ other.prefix = text.prefix /\ other.level = "none"
    BY DEF IsLine
  <1>3. ~ M!Declares(other, M!Alarming)
    BY <1>2, LevelsGrade DEF M!Declares
  <1> HIDE DEF other
  <1> QED BY <1>1, <1>2, <1>3, AlarmsAre

\* A line of veredas without the patterns before its object's message: what else is
\* an alarm in it stands in the message or is a word.
LEMMA WithoutBefore ==
  ASSUME NEW text, IsLine(text), ~ M!OnlyBefore("veredas", text),
         ~ M!Declares(text, M!Alarming), text.prefix \notin {"error", "critical"},
         \A i \in 1 .. Len(M!Patterns("veredas")) : M!Patterns("veredas")[i][1] \notin text.inner
  PROVE  \E i \in 1 .. 3 : M!Words[i][1] \in M!Spelled(text.marks)
  <1> DEFINE heard == {m \in M!Spelled(text.marks) : m \in text.inner \/ M!IsWord(m)}
             other == [text EXCEPT !.marks = heard]
  <1>1. M!Alarms("veredas", other)
    BY DEF M!OnlyBefore
  <1>2. other.marks = heard /\ other.prefix = text.prefix /\ other.level = text.level
    BY DEF IsLine
  <1>3. ~ M!Declares(other, M!Alarming)
    BY <1>2 DEF M!Declares
  <1>4. \A i \in 1 .. Len(M!Patterns("veredas")) : M!Patterns("veredas")[i][1] \notin heard
    BY VeredasNoWord
  <1> HIDE DEF other
  <1>5. \E i \in 1 .. 3 : M!Words[i][1] \in heard
    BY <1>1, <1>2, <1>3, <1>4, AlarmsAre
  <1> QED BY <1>5

\* veredas: the prefix or the object ends it, or the search does.
LEMMA VeredasHears ==
  ASSUME NEW text, IsLine(text), M!Alarms("veredas", text), ~ M!Muffled("veredas", text),
         M!IsObject(text) => text.level = "none"
  PROVE  M!Veredas(text) \in M!Alarming
  <1> DEFINE message == IF text.form = "wrapped" THEN text.inner ELSE text.marks
             rest == M!Text([text EXCEPT !.prefix = "none"])
             declared == IF M!EndsInObject(text) THEN M!Declared(text) ELSE "none"
             found == M!FirstMatch(M!Patterns("veredas"), message, "none")
  <1>1. text.prefix \notin {"info", "warn"}
    BY DEF M!Muffled
  <1>2. declared \notin {"INFO", "WARN"}
    <2>1. {"INFO", "WARN"} \in SUBSET M!Severity
      BY DEF M!Severity
    <2>2. ~ (M!EndsInObject(text) /\ M!Declares(text, {"INFO", "WARN"}))
      BY DEF M!Muffled
    <2> QED BY <2>1, <2>2, DeclaredIs
  <1>3. found # "none" => found \in M!Alarming
    BY VeredasPatterns
  <1>4. "CRITICAL" \in M!Alarming /\ "ERROR" \in M!Alarming
    BY DEF M!Alarming
  <1>5. declared # "none" => declared \in M!Alarming
    BY <1>2, DeclaredIs DEF M!Severity, M!Alarming
  <1>6. ASSUME text.prefix \notin {"critical", "error"}, declared = "none", found = "none"
        PROVE  M!FirstMatch(M!Words, rest, "INFO") \in M!Alarming
    <2>1. ~ M!Declares(text, M!Alarming)
      <3>1. CASE M!EndsInObject(text)
        BY <1>6, <3>1, DeclaredIs DEF M!Declares
      <3>2. CASE ~ M!EndsInObject(text)
        BY <3>2, LevelsGrade DEF IsLine, M!IsObject, M!EndsInObject, M!Declares
      <3> QED BY <3>1, <3>2
    <2>2. \A i \in 1 .. Len(M!Patterns("veredas")) : M!Patterns("veredas")[i][1] \notin message
      BY <1>6, VeredasPatterns
    <2>3. \E i \in 1 .. 3 : M!Words[i][1] \in M!Spelled(text.marks)
      <3>1. CASE text.form = "wrapped"
        <4>1. ~ M!OnlyBefore("veredas", text)
          BY <3>1 DEF M!Muffled
        <4> QED BY <1>6, <2>1, <2>2, <3>1, <4>1, WithoutBefore
      <3>2. CASE text.form # "wrapped"
        <4>1. \E i \in 1 .. 3 : M!Words[i][1] \in text.marks
          BY <1>6, <2>1, <2>2, <3>2, AlarmsAre
        <4> QED BY <4>1 DEF M!Spelled
      <3> QED BY <3>1, <3>2
    <2>4. [text EXCEPT !.prefix = "none"].marks = text.marks
      BY DEF IsLine
    <2>5. M!Spelled(text.marks) \subseteq rest
      BY <2>4 DEF M!Text
    <2> QED BY <2>3, <2>5, WordsHear
  <1>7. M!Veredas(text) =
          IF text.prefix = "info" THEN "INFO"
          ELSE IF text.prefix = "warn" THEN "WARN"
          ELSE IF declared \in {"INFO", "WARN"} THEN declared
          ELSE IF found # "none" THEN found
          ELSE IF text.prefix = "critical" THEN "CRITICAL"
          ELSE IF text.prefix = "error" THEN "ERROR"
          ELSE IF declared # "none" THEN declared
          ELSE M!FirstMatch(M!Words, rest, "INFO")
    BY DEF M!Veredas
  <1> HIDE DEF declared, found, rest
  <1> QED BY <1>1, <1>2, <1>3, <1>4, <1>5, <1>6, <1>7

\* The classifier hears every alarm that nothing muffles.
LEMMA ClassifyHears ==
  ASSUME NEW of, NEW text, IsLine(text), M!Alarms(of, text), ~ M!Muffled(of, text)
  PROVE  M!Classify(of, text) \in M!Alarming
  <1>0. {"INFO", "WARN"} \in SUBSET M!Severity /\ "none" \notin M!Level
    BY LevelsGrade DEF M!Severity
  <1>1. CASE M!IsObject(text) /\ of # "seriema" /\ text.level # "none"
    <2>1. M!Declared(text) \in M!Severity \ {"INFO", "WARN"}
      <3>1. ~ M!Declares(text, {"INFO", "WARN"})
        BY <1>1 DEF M!Muffled
      <3>2. text.level \in M!Level
        BY <1>1 DEF IsLine
      <3> QED BY <1>0, <3>1, <3>2, DeclaredIs
    <2>2. M!Declared(text) \in M!Alarming /\ M!Declared(text) # "none"
      BY <2>1 DEF M!Severity, M!Alarming
    <2> QED BY <1>1, <2>2 DEF M!Classify
  <1>2. CASE ~ (M!IsObject(text) /\ of # "seriema" /\ text.level # "none")
    <2>1. M!Classify(of, text) = M!ByText(of, text)
      <3>1. M!Declared(text) # "none" => text.level # "none"
        BY <1>0, DeclaredIs
      <3> QED BY <1>2, <3>1 DEF M!Classify
    <2>2. CASE of = "veredas"
      <3>1. M!Veredas(text) \in M!Alarming
        BY <1>2, <2>2, VeredasHears
      <3> QED BY <2>1, <2>2, <3>1 DEF M!ByText
    <2>3. CASE of # "veredas"
      <3>1. /\ ~ (of = "redis" /\ "server initialized" \in text.marks)
            /\ ~ (of = "loki" /\ "batch noise" \in text.marks)
        BY DEF M!Muffled
      <3>2. \/ /\ text.form \in {"bare", "tail", "wrapped"}
               /\ M!Declares(text, M!Alarming) /\ M!IsWord(text.level)
            \/ text.prefix \in {"error", "critical"}
            \/ \E i \in 1 .. Len(M!Patterns(of)) : M!Patterns(of)[i][1] \in text.marks
            \/ \E i \in 1 .. 3 : M!Words[i][1] \in text.marks
        <4>1. CASE M!Declares(text, M!Alarming)
          <5>1. text.form # "text" /\ text.level # "none"
            BY <1>0, <4>1 DEF IsLine, M!Declares
          <5>2. M!IsObject(text) => of = "seriema"
            BY <1>2, <5>1
          <5>3. text.form = "json" => ~ M!OnlyDeclared(of, text)
            BY <5>2 DEF M!Muffled, M!IsObject
          <5>4. ~ M!IsWord(text.level) => ~ M!OnlyDeclared(of, text)
            BY <2>3, <5>2 DEF M!Muffled
          <5>5. CASE M!OnlyDeclared(of, text)
            BY <4>1, <5>1, <5>3, <5>4, <5>5 DEF IsLine
          <5>6. CASE ~ M!OnlyDeclared(of, text)
            BY <5>6, WithoutLevel
          <5> QED BY <5>5, <5>6
        <4>2. CASE ~ M!Declares(text, M!Alarming)
          BY <4>2, AlarmsAre
        <4> QED BY <4>1, <4>2
      <3>3. M!FirstMatch(M!Patterns(of) \o M!Words, M!Text(text), "INFO") \in M!Alarming
        BY <3>1, <3>2, LineHears
      <3> QED BY <2>1, <2>3, <3>3 DEF M!ByText
    <2> QED BY <2>2, <2>3
  <1> QED BY <1>1, <1>2

LEMMA MatchHears == MatchInv => M!AlarmIsHeard
  BY ClassifyHears DEF MatchInv, M!AlarmIsHeard

-----------------------------------------------------------------------------
(***************************************************************************)
(* Endpoints.  A behaviour belongs to one component, whose invariant it    *)
(* keeps; and whosever it is, Directory makes its own steps or none.       *)
(***************************************************************************)
ApiInv ==
  /\ component \in {"radar", "matching", "directory", "readiness", "alerts"}
  /\ component = "radar" => RadarInv
  /\ component = "matching" => MatchInv
  /\ component = "readiness" => ReadinessInv
  /\ component = "alerts" => AlertsInv

\* A step that changes nothing keeps every invariant.
LEMMA ApiStutter ==
  ASSUME ApiInv, UNCHANGED apiVars PROVE ApiInv'
  <1>1. component' = component
    BY DEF apiVars
  <1>2. UNCHANGED R!vars /\ UNCHANGED O!vars /\ UNCHANGED A!vars
    BY DEF apiVars, radarVars, readinessVars, alertVars, O!vars,
           R!vars, R!loki, R!redis, R!pulls, R!history,
           A!vars, A!incidents, A!workers, A!endpoint
  <1>3. RadarInv => RadarInv'
    BY <1>2, RadarNext
  <1>4. ReadinessInv => ReadinessInv'
    BY <1>2, ReadinessNext
  <1>5. AlertsInv => AlertsInv'
    BY <1>2, AlertsNext
  <1>6. MatchInv => MatchInv'
    BY DEF apiVars, matchVars, MatchInv, M!MatchingTypeOK, IsLine
  <1> QED BY <1>1, <1>3, <1>4, <1>5, <1>6 DEF ApiInv

\* What the theorems below follow from: whosever a behaviour is, the invariant of
\* that component holds throughout.
THEOREM ApiInductive == ApiSpec => []ApiInv
  <1>0. M!MatchingAssumption
    BY EndpointsAssumption DEF EndpointsAssumption
  <1>1. ApiInit => ApiInv
    BY RadarInit, MatchInit, ReadinessInit, AlertsInit DEF ApiInit, ApiInv
  <1>2. ApiInv /\ [ApiNext]_apiVars => ApiInv'
    <2> SUFFICES ASSUME ApiInv, [ApiNext]_apiVars PROVE ApiInv'
      OBVIOUS
    <2>1. CASE RadarStep
      <3>1. component = "radar" /\ component' = "radar" /\ R!Next
        BY <2>1 DEF RadarStep, OfRadar
      <3> QED BY <3>1, RadarNext DEF ApiInv
    <2>2. CASE MatchingStep
      <3>1. component = "matching" /\ component' = "matching" /\ M!MatchingNext
        BY <2>2 DEF MatchingStep, OfMatching
      <3> QED BY <1>0, <3>1, MatchNext DEF ApiInv
    <2>3. CASE DirectoryStep
      <3>1. component = "directory" /\ component' = "directory"
        BY <2>3 DEF DirectoryStep, OfDirectory
      <3> QED BY <3>1 DEF ApiInv
    <2>4. CASE ReadinessStep
      <3>1. component = "readiness" /\ component' = "readiness" /\ O!Next
        BY <2>4 DEF ReadinessStep, OfReadiness
      <3> QED BY <3>1, ReadinessNext DEF ApiInv
    <2>5. CASE AlertsStep
      <3>1. component = "alerts" /\ component' = "alerts" /\ A!Next
        BY <2>5 DEF AlertsStep, OfAlerts
      <3> QED BY <3>1, AlertsNext DEF ApiInv
    <2>6. CASE UNCHANGED apiVars
      BY <2>6, ApiStutter
    <2> QED BY <2>1, <2>2, <2>3, <2>4, <2>5, <2>6 DEF ApiNext
  <1> QED BY <1>1, <1>2, PTL DEF ApiSpec

\* Whosever a behaviour is, it is one of the directory, which the other components
\* leave alone: what is proved of Spec holds of ApiSpec.
THEOREM Directed == ApiSpec => Spec
  <1>1. ApiInit => Init
    BY DEF ApiInit
  <1>2. [ApiNext]_apiVars => [Next]_vars
    BY DEF ApiNext, apiVars, RadarStep, OfRadar, MatchingStep, OfMatching, DirectoryStep,
           ReadinessStep, OfReadiness, AlertsStep, OfAlerts
  <1> QED BY <1>1, <1>2, PTL DEF ApiSpec, Spec

\* The variables of every component keep their types, and the tables of the directory
\* their foreign keys: no identifier of a deleted row comes back.
THEOREM ApiTyped == ApiSpec => []ApiTypeOK
  <1>1. ApiInv /\ DirectoryInv => ApiTypeOK
    BY TypeFollows DEF ApiInv, RadarInv, MatchInv, ReadinessInv, AlertsInv, ApiTypeOK
  <1> QED BY ApiInductive, Directed, DirectoryInductive, <1>1, PTL

\* pull_oasis_radar hands a line to the ingestion no more often than the lifetimes of
\* its key fit into the longest lookback and pull, in however many pulls it is: at most
\* twice while lookback and key are both as long as in the code, and no pull is longer.
THEOREM HandedFewTimes == ApiSpec => []HandedBounded
  <1>1. ApiInv => HandedBounded
    BY RadarFollows DEF ApiInv, HandedBounded
  <1> QED BY ApiInductive, <1>1, PTL

\* A line that the cursor has passed was filed or is in hand, or it is one of the
\* losses that SkippedForAReason names.
THEOREM LossesAreKnown == ApiSpec => []SkippedForAReason
  <1>1. ApiInv => SkippedForAReason
    BY RadarFollows DEF ApiInv, SkippedForAReason
  <1> QED BY ApiInductive, <1>1, PTL

\* A line that a pull leaves out as a duplicate was handed on, is in hand, or failed.
THEOREM DuplicatesWereClaimed == ApiSpec => []DuplicateWasHanded
  <1>1. ApiInv => DuplicateWasHanded
    BY RadarFollows DEF ApiInv, DuplicateWasHanded
  <1> QED BY ApiInductive, <1>1, PTL

\* Every line that raises an alarm gets a severity that is one, through the tables and
\* the special cases of all the services, but for the reasons that Muffled names.
THEOREM AlarmsAreHeard == ApiSpec => []AlarmIsHeard
  <1>1. ApiInv => AlarmIsHeard
    BY MatchHears DEF ApiInv, AlarmIsHeard
  <1> QED BY ApiInductive, <1>1, PTL

\* For every list of rules, evaluate_rules gives an event to a rule for which the
\* simulation matches or to one before it, and without patterns to the first of them.
THEOREM SimulationIsSound == ApiSpec => []SimulationPredicts
  <1>1. M!MatchingAssumption
    BY EndpointsAssumption DEF EndpointsAssumption
  <1>2. ApiInv => SimulationPredicts
    BY <1>1, MatchFollows DEF ApiInv, SimulationPredicts
  <1> QED BY ApiInductive, <1>2, PTL

\* The escalation guard of /ops/readiness passes, with escalations in its answer, only
\* if each of those incidents was written between two of its queries.
THEOREM GuardIsHonest == ApiSpec => []GuardOnlyFromTornRead
  <1>1. ApiInv => GuardOnlyFromTornRead
    BY GuardIsTorn DEF ApiInv, GuardOnlyFromTornRead
  <1> QED BY ApiInductive, <1>1, PTL

\* The size that an alert is about was true when it was asked for, or a refresh was
\* under way, lost or late; and no more incidents are acknowledged than there are but
\* for those that came in between.
THEOREM AlertsAreReal == ApiSpec => []AlertIsReal
  <1>1. ApiInv => AlertIsReal
    BY AlertFollows DEF ApiInv, AlertIsReal
  <1> QED BY ApiInductive, <1>1, PTL
==============================================================================
