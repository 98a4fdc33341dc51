----------------------------- MODULE MCDeadLetters -----------------------------
(***************************************************************************)
(* The instance of DeadLetters for TLC: three entries, one of them a       *)
(* client error and one hopeless, a list and a batch of two, two replays.  *)
(***************************************************************************)
EXTENDS DeadLetters
==============================================================================
