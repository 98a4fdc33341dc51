--------------------------------- MODULE MCApi ---------------------------------
(***************************************************************************)
(* The instance of Endpoints for TLC: the run explores the state graphs of *)
(* the five components side by side.                                       *)
(*                                                                         *)
(* Of the lines, b and c share a time stamp and an external id.  Sets that *)
(* belong to different components may have the same elements, which keeps  *)
(* the number of permutations small.                                       *)
(***************************************************************************)
EXTENDS Endpoints, TLC

CONSTANTS a, b, c

Times == [l \in Line |-> IF l = a THEN 1 ELSE 2]

\* What a condition may ask of an event: a value, a value of a field without one
\* or of a field that is not there, and patterns for the last two kinds.
Entry ==
  {[field |-> "source", regex |-> FALSE, value |-> "oasis-radar"],
   [field |-> "severity", regex |-> FALSE, value |-> "ERROR"],
   [field |-> "schedule_at", regex |-> FALSE, value |-> Null],
   [field |-> "team", regex |-> FALSE, value |-> Null],
   [field |-> "service", regex |-> TRUE, value |-> {"postgres", "redis"}],
   [field |-> "team", regex |-> TRUE, value |-> {""}]}
Condition == {S \in SUBSET Entry : Cardinality(S) <= 2}
MCRuleList == UNION {[1 .. n -> Condition] : n \in 0 .. 2}

Symmetry == Permutations(Pull \cup Request \cup Incident \cup Worker)
==============================================================================
