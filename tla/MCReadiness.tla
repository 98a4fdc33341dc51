------------------------------ MODULE MCReadiness ------------------------------
(***************************************************************************)
(* An instance of Readiness with the tasks that Celery knows.              *)
(***************************************************************************)
EXTENDS Readiness
==============================================================================
