-------------------------- MODULE MCIncidentLifecycle --------------------------
(***************************************************************************)
(* Instances of IncidentLifecycle for TLC: one incident with two voice     *)
(* notifications.                                                          *)
(***************************************************************************)
EXTENDS IncidentLifecycle, TLC

CONSTANTS i1, n1, n2, o1, o2, c1, c2, s1, s2, e1, w1

MCOneIncident == [n \in {n1, n2} |-> i1]
Symmetry == Permutations({n1, n2}) \cup Permutations({o1, o2})
              \cup Permutations({c1, c2}) \cup Permutations({s1, s2})
==============================================================================
