------------------------------ MODULE MCGreenlets ------------------------------
(***************************************************************************)
(* Instances of Greenlets for TLC: two tasks and a replay of one row.      *)
(***************************************************************************)
EXTENDS Greenlets

CONSTANTS n1, t1, t2, r1, k

MCNotification == {n1}
MCKeyOf == [n \in MCNotification |-> k]
==============================================================================
