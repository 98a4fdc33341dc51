------------------------------- MODULE Greenlets -------------------------------
(***************************************************************************)
(* The worker as it is deployed: one process with the gevent pool, whose   *)
(* tasks and replays are greenlets of one thread (docker-compose.yml, the  *)
(* worker's command).  A greenlet that talks to Redis or to a provider     *)
(* lets the others run; one that waits for PostgreSQL does not, because    *)
(* psycopg2 waits inside libpq.  So a SELECT ... FOR UPDATE of a row that  *)
(* is held stops the whole thread, the holder included.                    *)
(*                                                                         *)
(* The steps are Delivery's; here they need the thread.                    *)
(***************************************************************************)
EXTENDS Delivery

VARIABLE waiting   \* the greenlet inside libpq for which the thread waits

greenVars == <<vars, waiting>>

GreenTypeOK == TypeOK /\ waiting \in Proc \cup {NoProc}

GreenInit == Init /\ waiting = NoProc

\* p can run: the thread is free, or p is the one it waits for.
Scheduled(p) == waiting \in {p, NoProc}

\* The steps of a greenlet that has its row, or asks for one that is free.
Progress(p) ==
  \/ Send(p)
  \/ p \in Task /\ Recover(p)
  \/ p \in Replayer /\ Unlist(p)

\* What may befall a greenlet while its worker lives.
Mishap(p) ==
  \/ ResponseLost(p) \/ CommitFails(p)
  \/ p \in Task /\ (PolicyLookupFails(p) \/ TaskFailureBlind(p))

\* replay_dlq takes up an entry.
TakesEntry(r) == \E n \in Notification : Replay(r, n) \/ ReplayDrops(r, n)

\* The greenlet asks for a row that another one holds.
Waits(p) ==
  /\ waiting = NoProc
  /\ pc[p] \in {"queued", "pushed"}
  /\ lock[row[p]] # NoProc
  /\ waiting' = p
  /\ UNCHANGED vars

Runs(p) ==
  \/ /\ Scheduled(p)
     /\ Progress(p)
     /\ waiting' = NoProc
     /\ UNCHANGED setting
  \/ Waits(p)

Strays(p) ==
  /\ Scheduled(p)
  /\ Mishap(p) \/ (p \in Replayer /\ TakesEntry(p))
  /\ waiting' = NoProc
  /\ UNCHANGED setting

\* The worker process dies with all its greenlets; PostgreSQL rolls back their
\* transactions and the broker delivers the unacknowledged messages again.  Any
\* request in flight may have reached the provider.
WorkerDies ==
  LET running == {p \in Proc : pc[p] \in Running}
      calling == {p \in running : Calling(p) /\ row[p] \in configured}
      Of(ps, n) == Cardinality({p \in ps : row[p] = n}) IN
  /\ running # {}
  /\ Fault
  /\ \E reached \in SUBSET calling :
       /\ accepted' = [n \in Notification |-> accepted[n] + Of(reached, n)]
       /\ lost' = [n \in Notification |->
            lost[n] + Of(reached \cup {p \in running : pc[p] = "accepted"}, n)]
  /\ lock' = [n \in Notification |-> NoProc]
  /\ pc' = [p \in Proc |-> IF p \notin running THEN pc[p]
                           ELSE IF p \in Task THEN "queued" ELSE "idle"]
  /\ row' = [p \in Proc |-> IF p \in running \cap Replayer THEN NoRow ELSE row[p]]
  /\ waiting' = NoProc
  /\ UNCHANGED <<setting, status, sentLog, quietLog, breaker, redis, dlq, dropped,
                 trimmed, retries, error, result>>

\* Redis, the API and whoever queues a send do not need the thread.
Elsewhere ==
  /\ \/ \E t \in Task, n \in Notification : Submit(t, n)
     \/ \E n \in Notification : Answer(n)
     \/ Expiry
     \/ OthersTrim
  /\ UNCHANGED <<setting, waiting>>

GreenNext ==
  \/ \E p \in Proc : Runs(p) \/ Strays(p)
  \/ WorkerDies
  \/ Elsewhere

\* gevent runs every greenlet that can run, PostgreSQL grants a free row, and
\* Redis and the providers answer or time out.  Nothing is assumed of a
\* greenlet while the thread waits for another one.
GreenSpec ==
  /\ GreenInit
  /\ [][GreenNext]_greenVars
  /\ \A p \in Proc : WF_greenVars(Runs(p))

(***************************************************************************)
(* Properties                                                              *)
(***************************************************************************)
Ends(t) == pc[t] = "queued" ~> pc[t] = "done"

\* The thread waits for a row that one of its own greenlets is working on: a
\* deadlock that PostgreSQL does not see, with one of its ends in gevent.
Stuck == waiting # NoProc /\ pc[lock[row[waiting]]] \in Holding

\* Every queued task reaches an end, after its retries, its final failure or a
\* redelivery, unless the thread has come to wait for a row that one of its own
\* greenlets holds.
EndsUnlessStuck == <>[]Stuck \/ \A t \in Task : Ends(t)

\* What the deployment says of the tasks, and a run refutes: with
\* SERIEMA_TASK_TIME_LIMIT set to 45 seconds, every task that is delivered ends.
EveryTaskEnds == \A t \in Task : Ends(t)
==============================================================================
