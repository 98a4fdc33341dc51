--------------------------- MODULE MCTelegramDigest ---------------------------
(***************************************************************************)
(* The instance of TelegramDigest for TLC: two services, and one message   *)
(* of the first more than its throttle and its field of the hash hold.     *)
(***************************************************************************)
EXTENDS TelegramDigest

CONSTANTS s1, s2

MCServiceOf == [m \in Message |-> IF m <= 3 THEN s1 ELSE s2]
==============================================================================
