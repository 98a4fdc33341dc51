------------------------------ MODULE MCDispatch ------------------------------
(***************************************************************************)
(* Instances of Dispatch for TLC.  b and m are targets of the rule, m on a *)
(* channel without a task; b is the fallback too, and x is a target the    *)
(* severity does not let through.                                          *)
(***************************************************************************)
EXTENDS Dispatch, TLC
==============================================================================
