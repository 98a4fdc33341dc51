------------------------------ MODULE MCDelivery ------------------------------
(***************************************************************************)
(* Instances of Delivery for TLC.  Both rows share one Telegram dedupe key *)
(* (two contacts without a telegram_id are messaged in the logs chat).     *)
(***************************************************************************)
EXTENDS Delivery, TLC

CONSTANTS n1, n2, t1, t2, r1, k

MCNotification == {n1, n2}
MCSharedKey == [n \in MCNotification |-> k]
TaskSymmetry == Permutations({t1, t2})
RowSymmetry == Permutations({n1, n2})
Symmetry == TaskSymmetry \cup RowSymmetry
==============================================================================
