------------------------------- MODULE MCIngest -------------------------------
(***************************************************************************)
(* Instances of Ingest for TLC.  x1 and x2 are of one kind and carry the   *)
(* key of the time bucket their request arrives in, x3 has no key, x4 is   *)
(* of severity INFO; the milestone is 3 occurrences, not 10.               *)
(***************************************************************************)
EXTENDS Ingest, TLC

CONSTANTS x1, x2, x3, x4, r1, r2, r3, r4, k1, k2

MCKeysOf == [x \in Event |-> IF x = x3 THEN {NoKey} ELSE {k1, k2}]
Symmetry == Permutations(Request) \cup Permutations({k1, k2}) \cup Permutations({x1, x2})
==============================================================================
