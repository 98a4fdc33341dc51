------------------------------- MODULE Directory -------------------------------
(***************************************************************************)
(* The directory behind the rules: contacts, groups, memberships and rules *)
(* under the CRUD endpoints, next to dispatchers that read it.             *)
(*                                                                         *)
(* An endpoint checks what it is about to rely on with one query after the *)
(* other and then commits.  Nothing is locked in between (READ COMMITTED): *)
(* the foreign keys and the primary key of group_members have the last     *)
(* word, and what they refuse is answered with a 500.                      *)
(*                                                                         *)
(* A dispatcher keeps the membership rows it has read, but every commit of *)
(* its session expires them: a row that is gone when it is read again      *)
(* raises, before any message was queued.  So does a query or a commit     *)
(* that PostgreSQL fails, at any point.                                    *)
(***************************************************************************)
EXTENDS FiniteSets, Sequences, Naturals

CONSTANTS
  Contact, Group, Rule,
  Channel,       \* the channels of the rules
  Request,       \* requests that may be handled at once
  Dispatcher,    \* dispatcher tasks that may be active at once, all of one incident
  None,
  MaxSessions    \* bound: sessions, of requests and dispatchers, at work at once

Op ==
  [kind : {"create_contact", "update_contact", "delete_contact"}, contact : Contact]
  \cup [kind : {"create_group", "update_group", "delete_group"}, group : Group]
  \cup [kind : {"add_member", "delete_member"}, group : Group, contact : Contact]
  \cup [kind : {"create_rule", "update_rule"}, rule : Rule, group : Group]
  \cup [kind : {"toggle_rule"}, rule : Rule]

DirectoryAssumption ==
  /\ None \notin Contact \cup Group \cup BOOLEAN \cup Request \cup Contact \X Channel \cup Op
  /\ Contact \cap Group = {}
  /\ MaxSessions \in Nat

VARIABLES
  contacts, groups,   \* the rows there are
  members,            \* group_members
  ruleGroup,          \* recipient_group_id of each rule, None: no such rule
  active,             \* the flag of each rule
  notified,           \* notification rows of the incident, by contact and channel
  gone,               \* identifiers of deleted rows: they do not come back
  op, passed, loaded, \* each request: what it was asked, how many checks it has
                      \* passed, and the rule's column it has read
  disturbed,          \* history: another session has committed since its first query
  place, target,      \* each dispatcher: where it is ("failed" if its last task met
                      \* a failing query or commit), the group its rule names,
  read, left, kept,   \* ... the members it has read, the targets to come, those it
                      \* has a row for,
  holding, expired,   \* ... the one it is at, and whether what it has read expired
  removed             \* history: a membership it had read was removed

tables == <<contacts, groups, members, ruleGroup, active, notified, gone>>
requests == <<op, passed, loaded>>
dispatchers == <<place, target, read, left, kept, holding, expired>>
history == <<disturbed, removed>>
vars == <<tables, requests, dispatchers, history>>

\* The foreign keys, and what the dispatchers and requests hold.
References ==
  /\ members \subseteq groups \X contacts
  /\ \A r \in Rule : ruleGroup[r] \in groups \cup {None}
  /\ notified \subseteq contacts \X Channel

TypeOK ==
  /\ contacts \subseteq Contact /\ groups \subseteq Group
  /\ ruleGroup \in [Rule -> Group \cup {None}] /\ active \in [Rule -> BOOLEAN]
  /\ References
  /\ op \in [Request -> Op \cup {None}]
  /\ passed \in [Request -> 0 .. 3]
  /\ loaded \in [Request -> Group \cup BOOLEAN \cup {None}]
  /\ disturbed \in [Request -> BOOLEAN]
  /\ place \in [Dispatcher -> {"idle", "failed", "reading", "inserting"}]
  /\ target \in [Dispatcher -> Group \cup {None}]
  /\ read \in [Dispatcher -> SUBSET Contact]
  /\ \A d \in Dispatcher :
       left[d] \cup kept[d] \subseteq read[d] \X Channel /\ kept[d] \subseteq notified
  /\ holding \in [Dispatcher -> Contact \X Channel \cup {None}]
  /\ expired \in [Dispatcher -> BOOLEAN] /\ removed \in [Dispatcher -> BOOLEAN]
  /\ gone \subseteq Contact \cup Group /\ gone \cap (contacts \cup groups) = {}

\* Any directory the endpoints can have made before the first dispatch.
Init ==
  /\ contacts \in SUBSET Contact /\ groups \in SUBSET Group
  /\ members \in SUBSET (groups \X contacts)
  /\ ruleGroup \in [Rule -> groups \cup {None}]
  /\ active = [r \in Rule |-> ruleGroup[r] # None]
  /\ notified = {} /\ gone = {}
  /\ op = [q \in Request |-> None]
  /\ passed = [q \in Request |-> 0]
  /\ loaded = [q \in Request |-> None]
  /\ disturbed = [q \in Request |-> FALSE]
  /\ place = [d \in Dispatcher |-> "idle"]
  /\ target = [d \in Dispatcher |-> None]
  /\ read = [d \in Dispatcher |-> {}]
  /\ left = [d \in Dispatcher |-> {}]
  /\ kept = [d \in Dispatcher |-> {}]
  /\ holding = [d \in Dispatcher |-> None]
  /\ expired = [d \in Dispatcher |-> FALSE]
  /\ removed = [d \in Dispatcher |-> FALSE]

-----------------------------------------------------------------------------
\* Names that begin with Mutant are the faults that the checked properties
\* must notice; nothing else uses them.

HasNotifications(c) == \E ch \in Channel : <<c, ch>> \in notified
IsMember(c) == \E g \in Group : <<g, c>> \in members
HasMembers(g) == \E c \in Contact : <<g, c>> \in members
HasRules(g) == \E r \in Rule : ruleGroup[r] = g

\* What each endpoint asks, one query after the other, before it writes: the
\* rows it needs (404), the rows that must not refer to what it deletes (409),
\* or the row it would add (answered without a write).
Checks(o) ==
  CASE o.kind = "delete_contact" ->
         << o.contact \in contacts, ~ HasNotifications(o.contact), ~ IsMember(o.contact) >>
    [] o.kind = "delete_group" -> << o.group \in groups, ~ HasRules(o.group), ~ HasMembers(o.group) >>
    [] o.kind = "add_member" ->
         << o.group \in groups, o.contact \in contacts, <<o.group, o.contact>> \notin members >>
    [] o.kind = "delete_member" ->
         << o.group \in groups, o.contact \in contacts, <<o.group, o.contact>> \in members >>
    [] o.kind = "update_contact" -> << o.contact \in contacts >>
    [] o.kind = "update_group" -> << o.group \in groups >>
    [] o.kind = "update_rule" -> << ruleGroup[o.rule] # None, o.group \in groups >>
    [] o.kind = "toggle_rule" -> << ruleGroup[o.rule] # None >>
    [] OTHER -> << >>

\* The commit breaks a foreign or primary key, or updates a row that is gone.
\* (A DELETE that finds no row is only logged.)
Breaks(o) ==
  CASE o.kind = "delete_contact" -> HasNotifications(o.contact) \/ IsMember(o.contact)
    [] o.kind = "delete_group" -> HasRules(o.group) \/ HasMembers(o.group)
    [] o.kind = "add_member" ->
         \/ o.group \notin groups \/ o.contact \notin contacts
         \/ <<o.group, o.contact>> \in members
    [] o.kind = "update_contact" -> o.contact \notin contacts
    [] o.kind \in {"update_group", "create_rule", "update_rule"} -> o.group \notin groups
    [] OTHER -> FALSE

-----------------------------------------------------------------------------
AtWork(d) == place[d] \in {"reading", "inserting"}

Free ==
  Cardinality({q \in Request : op[q] # None}) + Cardinality({d \in Dispatcher : AtWork(d)})
    < MaxSessions

\* A request arrives.  Identifiers are fresh: what is created was not there.
Receive(q, o) ==
  /\ op[q] = None /\ Free
  /\ o.kind = "create_contact" => o.contact \notin contacts \cup gone
  /\ o.kind = "create_group" => o.group \notin groups \cup gone
  /\ o.kind = "create_rule" => ruleGroup[o.rule] = None
  /\ \A p \in Request : op[p] # None /\ op[p].kind \in {"create_contact", "create_group", "create_rule"}
       => op[p] # o
  /\ op' = [op EXCEPT ![q] = o]
  /\ UNCHANGED <<tables, passed, loaded, dispatchers, history>>

\* The session of a request is closed.
Close(q) ==
  /\ op' = [op EXCEPT ![q] = None]
  /\ passed' = [passed EXCEPT ![q] = 0]
  /\ loaded' = [loaded EXCEPT ![q] = None]

\* What becomes of disturbed when q ends, with or without a commit of its own.
Forget(q) == disturbed' = [disturbed EXCEPT ![q] = FALSE]
Disturb(q) ==
  disturbed' = [p \in Request |-> p # q /\ (disturbed[p] \/ passed[p] > 0)]

\* The next query finds what the endpoint needs ...
Pass(q) ==
  LET o == op[q]
      i == passed[q] + 1 IN
  /\ o # None /\ i <= Len(Checks(o))
  /\ Checks(o)[i]
  /\ passed' = [passed EXCEPT ![q] = i]
  /\ loaded' = [loaded EXCEPT ![q] =
       IF i > 1 THEN @
       ELSE CASE o.kind = "toggle_rule" -> active[o.rule]
              [] o.kind = "update_rule" -> ruleGroup[o.rule]
              [] OTHER -> None]
  /\ UNCHANGED <<tables, op, dispatchers, history>>

\* ... or the request is answered without a write: 404, 409, or a member that
\* is one already.
Refuse(q) ==
  LET o == op[q]
      i == passed[q] + 1 IN
  /\ o # None /\ i <= Len(Checks(o))
  /\ ~ Checks(o)[i]
  /\ Close(q) /\ Forget(q)
  /\ UNCHANGED <<tables, dispatchers, removed>>

\* The last check is left out.
MutantAtCommit(q) == op[q] # None /\ passed[q] + 1 >= Len(Checks(op[q]))

AtCommit(q) == op[q] # None /\ passed[q] = Len(Checks(op[q]))

\* The write of each endpoint.  A rule's column is written only if it differs
\* from what the request has read, and a toggle writes the negation of that.
Write(o, was) ==
  /\ contacts' = CASE o.kind = "create_contact" -> contacts \cup {o.contact}
                   [] o.kind = "delete_contact" -> contacts \ {o.contact}
                   [] OTHER -> contacts
  /\ groups' = CASE o.kind = "create_group" -> groups \cup {o.group}
                 [] o.kind = "delete_group" -> groups \ {o.group}
                 [] OTHER -> groups
  /\ members' = CASE o.kind = "add_member" -> members \cup {<<o.group, o.contact>>}
                  [] o.kind = "delete_member" -> members \ {<<o.group, o.contact>>}
                  [] OTHER -> members
  /\ ruleGroup' = IF o.kind = "create_rule" \/ (o.kind = "update_rule" /\ was # o.group)
                  THEN [ruleGroup EXCEPT ![o.rule] = o.group] ELSE ruleGroup
  /\ active' = CASE o.kind = "create_rule" -> [active EXCEPT ![o.rule] = TRUE]
                 [] o.kind = "toggle_rule" -> [active EXCEPT ![o.rule] = ~ was]
                 [] OTHER -> active
  /\ gone' = CASE o.kind = "delete_contact" -> gone \cup {o.contact}
               [] o.kind = "delete_group" -> gone \cup {o.group}
               [] OTHER -> gone
  /\ UNCHANGED notified

\* An update that changes nothing sends nothing that could fail.
Vacuous(q) == op[q].kind = "update_rule" /\ loaded[q] = op[q].group

Commit(q) ==
  LET o == op[q] IN
  /\ AtCommit(q)
  /\ Vacuous(q) \/ ~ Breaks(o)
  /\ Write(o, loaded[q])
  /\ Close(q) /\ Disturb(q)
  /\ removed' = [d \in Dispatcher |->
       \/ removed[d]
       \/ o.kind = "delete_member" /\ o.group = target[d] /\ o.contact \in read[d]]
  /\ UNCHANGED dispatchers

\* PostgreSQL refuses the commit: the exception handler answers 500.
\* create_rule asks for nothing, so that an unknown group gets that far.
Break(q) ==
  /\ AtCommit(q)
  /\ ~ Vacuous(q) /\ Breaks(op[q])
  /\ Close(q) /\ Forget(q)
  /\ UNCHANGED <<tables, dispatchers, removed>>

\* The name of a group is unique: if another group has it, the answer is a 500.
NameTaken(q) ==
  /\ AtCommit(q)
  /\ op[q].kind \in {"create_group", "update_group"}
  /\ groups \ {op[q].group} # {}
  /\ Close(q) /\ Forget(q)
  /\ UNCHANGED <<tables, dispatchers, removed>>

\* A query or the commit fails.  A guard swallows the exception and lets the
\* delete pass, but the transaction is lost and its commit refused.
Fail(q) ==
  /\ op[q] # None
  /\ Close(q) /\ Forget(q)
  /\ UNCHANGED <<tables, dispatchers, removed>>

-----------------------------------------------------------------------------
Place(d, p) == place' = [place EXCEPT ![d] = p]

\* dispatch_incident reads the rule of its incident ...
ReadRule(d, r) ==
  /\ ~ AtWork(d) /\ Free
  /\ ruleGroup[r] # None
  /\ target' = [target EXCEPT ![d] = ruleGroup[r]]
  /\ Place(d, "reading")
  /\ UNCHANGED <<tables, requests, read, left, kept, holding, expired, history>>

\* ... and the members of its group.
ReadMembers(d) ==
  LET here == {c \in Contact : <<target[d], c>> \in members} IN
  /\ place[d] = "reading"
  /\ read' = [read EXCEPT ![d] = here]
  /\ left' = [left EXCEPT ![d] = here \X Channel]
  /\ Place(d, "inserting")
  /\ UNCHANGED <<tables, requests, target, kept, holding, expired, history>>

\* The next member and channel: a row that has expired is read again, and raises
\* ObjectDeletedError if it is gone.
Gone(d, t) == expired[d] /\ <<target[d], t[1]>> \notin members

Take(d, t) ==
  /\ place[d] = "inserting" /\ holding[d] = None
  /\ t \in left[d]
  /\ ~ Gone(d, t)
  /\ left' = [left EXCEPT ![d] = @ \ {t}]
  /\ holding' = [holding EXCEPT ![d] = t]
  /\ UNCHANGED <<tables, requests, place, target, read, kept, expired, history>>

\* Only the rows it has just created are kept.
MutantKeep(d) ==
  /\ holding[d] \in notified
  /\ holding' = [holding EXCEPT ![d] = None]
  /\ UNCHANGED <<tables, requests, place, target, read, left, kept, expired, history>>

\* _get_or_create_notification finds the row of an earlier dispatch ...
Keep(d) ==
  /\ holding[d] \in notified
  /\ kept' = [kept EXCEPT ![d] = @ \cup {holding[d]}]
  /\ holding' = [holding EXCEPT ![d] = None]
  /\ UNCHANGED <<tables, requests, place, target, read, left, expired, history>>

\* ... or commits a new one, unless the contact is gone.
Insert(d) ==
  LET t == holding[d] IN
  /\ t # None /\ t \notin notified
  /\ t[1] \in contacts
  /\ notified' = notified \cup {t}
  /\ kept' = [kept EXCEPT ![d] = @ \cup {t}]
  /\ holding' = [holding EXCEPT ![d] = None]
  /\ expired' = [expired EXCEPT ![d] = TRUE]
  /\ Disturb(None)
  /\ UNCHANGED <<contacts, groups, members, ruleGroup, active, gone,
                 requests, place, target, read, left, removed>>

\* The end of a task, and of its local variables.
Return(d, end) ==
  /\ Place(d, end)
  /\ target' = [target EXCEPT ![d] = None]
  /\ read' = [read EXCEPT ![d] = {}]
  /\ left' = [left EXCEPT ![d] = {}]
  /\ kept' = [kept EXCEPT ![d] = {}]
  /\ holding' = [holding EXCEPT ![d] = None]
  /\ expired' = [expired EXCEPT ![d] = FALSE]
  /\ removed' = [removed EXCEPT ![d] = FALSE]
  /\ UNCHANGED <<tables, requests, disturbed>>

\* After the last target, the rows it has kept are noted and their messages sent:
\* those that are not terminal and whose channel has a task (see Dispatch).
Queue(d) ==
  /\ place[d] = "inserting" /\ holding[d] = None
  /\ left[d] = {}
  /\ Return(d, "idle")

\* It raises, and queues nothing: the membership it comes to is gone, or the
\* contact it inserts a row for.  Nothing runs it again.
Raise(d) ==
  /\ place[d] = "inserting"
  /\ \/ holding[d] = None /\ \E t \in left[d] : Gone(d, t)
     \/ holding[d] # None /\ holding[d] \notin notified /\ holding[d][1] \notin contacts
  /\ Return(d, "idle")

\* PostgreSQL fails a query or a commit, with whatever rows there are by then.
Abort(d) == AtWork(d) /\ Return(d, "failed")

Next ==
  \/ \E q \in Request :
       \/ \E o \in Op : Receive(q, o)
       \/ Pass(q) \/ Refuse(q) \/ Commit(q) \/ Break(q) \/ NameTaken(q) \/ Fail(q)
  \/ \E d \in Dispatcher :
       \/ \E r \in Rule : ReadRule(d, r)
       \/ \E t \in Contact \X Channel : Take(d, t)
       \/ ReadMembers(d) \/ Keep(d) \/ Insert(d) \/ Queue(d) \/ Raise(d) \/ Abort(d)

Spec == Init /\ [][Next]_vars

(***************************************************************************)
(* Properties                                                              *)
(***************************************************************************)
\* The checks of an endpoint leave nothing for PostgreSQL to refuse unless
\* another session committed in between: alone, a request is answered with a
\* 500 only for a taken name, for the group of a new rule, or after a failure.
ErrorOnlyFromARace ==
  [][\A q \in Request : Break(q) /\ op[q].kind # "create_rule" => disturbed[q]]_vars

\* A dispatcher that comes to its end has found or made a row for every member
\* it has read and every channel.  It is left without some only if a membership
\* that it had read was removed while it was at work, or a query or commit of its
\* own failed.
DispatchReachesMembers ==
  [][\A d \in Dispatcher :
       AtWork(d) /\ ~ AtWork(d)' =>
         \/ kept[d] = read[d] \X Channel
         \/ removed[d]
         \/ place'[d] = "failed"]_vars
==============================================================================
