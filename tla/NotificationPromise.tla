------------------------- MODULE NotificationPromise -------------------------
(***************************************************************************)
(* What a notification row promises to the rest of Seriema, whatever the   *)
(* channel, the number of tasks, replays, retries and crashes behind it:   *)
(* the provider is used on behalf of a row only while the row is not in a  *)
(* terminal status, one use at a time, a recorded use closes the row for   *)
(* good, and every use that was not recorded is a lost outcome.            *)
(***************************************************************************)
EXTENDS Naturals

CONSTANT Notification

VARIABLES
  row,       \* the row's status column
  pending,   \* TRUE while an accepted use of the provider awaits its commit
  lost       \* how many accepted uses will never be recorded

vars == <<row, pending, lost>>

Closed == {"SENT", "DELIVERED", "ANSWERED_VOICE"}
Statuses == {"PENDING", "FAILED"} \cup Closed

Init == /\ row = [n \in Notification |-> "PENDING"]
        /\ pending = [n \in Notification |-> FALSE]
        /\ lost = [n \in Notification |-> 0]

\* The provider takes the message; the row is still open.
Accept(n) == /\ row[n] \notin Closed
             /\ ~pending[n]
             /\ pending' = [pending EXCEPT ![n] = TRUE]
             /\ UNCHANGED <<row, lost>>

\* The accepted use is committed with the row.
Record(n) == /\ pending[n]
             /\ row[n] \notin Closed
             /\ row' = [row EXCEPT ![n] = "SENT"]
             /\ pending' = [pending EXCEPT ![n] = FALSE]
             /\ UNCHANGED lost

\* An accepted use whose outcome is never committed: the response, the
\* commit or the worker was lost.
Lose(n) == /\ row[n] \notin Closed
           /\ pending' = [pending EXCEPT ![n] = FALSE]
           /\ lost' = [lost EXCEPT ![n] = @ + 1]
           /\ UNCHANGED row

\* The row is closed without using the provider, or marked as failed.
Settle(n, s) == /\ row[n] \notin Closed
                /\ ~pending[n]
                /\ row' = [row EXCEPT ![n] = s]
                /\ UNCHANGED <<pending, lost>>

\* The contact answers the call.
Answer(n) == /\ ~pending[n]
             /\ row' = [row EXCEPT ![n] = "ANSWERED_VOICE"]
             /\ UNCHANGED <<pending, lost>>

Next == \E n \in Notification :
          \/ Accept(n) \/ Record(n) \/ Lose(n) \/ Answer(n)
          \/ \E s \in {"FAILED", "DELIVERED"} : Settle(n, s)

Spec == Init /\ [][Next]_vars
==============================================================================
