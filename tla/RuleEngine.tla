------------------------------ MODULE RuleEngine ------------------------------
(***************************************************************************)
(* evaluate_rules, and the simulation of one rule.                         *)
(*                                                                         *)
(* An event is a function from fields to values, with Null for a field     *)
(* that is there without a value and Absent for one that is not there.  A  *)
(* condition is a set of entries with a field, a value, and whether the    *)
(* field's name carries the suffix _regex; a pattern is the set of texts   *)
(* it matches.                                                             *)
(***************************************************************************)
EXTENDS Integers, Sequences, FiniteSets

CONSTANTS Null, Absent

\* str(event.get(field, "")): what a pattern is matched with.
TextOf(value) == CASE value = Absent -> "" [] value = Null -> "None" [] OTHER -> value

\* event.get(field): None stands for a field that is not there, too.
ValueOf(event, field) == IF event[field] = Absent THEN Null ELSE event[field]

\* One entry of a condition holds of an event.
Holds(entry, event) ==
  IF entry.regex
  THEN TextOf(event[entry.field]) \in entry.value
  ELSE ValueOf(event, entry.field) = entry.value

Matches(condition, event) == \A entry \in condition : Holds(entry, event)

\* The last rule that matches.
MutantEvaluate(rules, event) ==
  LET at[i \in 0 .. Len(rules)] ==
        IF i = 0 THEN 0 ELSE IF Matches(rules[i], event) THEN i ELSE at[i - 1]
  IN at[Len(rules)]

\* evaluate_rules: the loop over the rules in the order of their priority, 0 for
\* no match.
Evaluate(rules, event) ==
  LET at[i \in 1 .. Len(rules) + 1] ==
        IF i > Len(rules) THEN 0 ELSE IF Matches(rules[i], event) THEN i ELSE at[i + 1]
  IN at[1]

\* _simulate_rule compares every key as it is spelled: no payload has a field
\* whose name ends in _regex, and no value equals a pattern.
Simulate(condition, event) ==
  \A entry \in condition : ~ entry.regex /\ ValueOf(event, entry.field) = entry.value
==============================================================================
