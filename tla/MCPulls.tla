-------------------------------- MODULE MCPulls --------------------------------
(***************************************************************************)
(* The instance of Pulls for TLC.  Odd issues are of the first Sentry      *)
(* project.  One Langfuse observation is faulty; one starts with it and    *)
(* one after it, and pages hold one.                                       *)
(***************************************************************************)
EXTENDS Pulls

CONSTANTS o1, o2, o3

MCProjectOf == [i \in 1 .. MaxIssue |-> IF i % 2 = 1 THEN 1 ELSE 2]
MCAt == [o \in Observation |-> IF o = o3 THEN 1 ELSE 0]
==============================================================================
