---------------------------- MODULE JobLifecycle ----------------------------
(***************************************************************************)
(* What the job queue promises the screens that use it, whatever its       *)
(* threads do: an accepted job walks once through                          *)
(*                                                                         *)
(*     queued -> running -> done | failed | cancelled                      *)
(*        \--> cancelled                                                   *)
(*                                                                         *)
(* a final status is final, DONE is published only after the completion    *)
(* hook of that job has run (and it runs at most once, and never for a     *)
(* job that ends FAILED or CANCELLED), and nothing is accepted once the    *)
(* queue has been closed.  JobQueue implements this specification.         *)
(***************************************************************************)
CONSTANT Jobs

VARIABLES
  status,     \* what an observer knows of each accepted job
  notified,   \* the jobs whose completion hook has run
  closed      \* shutdown has been signalled

lifecycle == <<status, notified, closed>>

Final == {"done", "failed", "cancelled"}

Init ==
  /\ status = [j \in Jobs |-> "absent"]
  /\ notified = {}
  /\ closed = FALSE

\* A job is listed before submit() returns, so it may have been cancelled by
\* the time it is accepted.
Accept(j) ==
  /\ ~closed
  /\ status[j] = "absent"
  /\ \E s \in {"queued", "cancelled"} : status' = [status EXCEPT ![j] = s]
  /\ UNCHANGED <<notified, closed>>

Start(j) ==
  /\ status[j] = "queued"
  /\ status' = [status EXCEPT ![j] = "running"]
  /\ UNCHANGED <<notified, closed>>

CancelQueued(j) ==
  /\ status[j] = "queued"
  /\ status' = [status EXCEPT ![j] = "cancelled"]
  /\ UNCHANGED <<notified, closed>>

Notify(j) ==
  /\ status[j] = "running"
  /\ j \notin notified
  /\ notified' = notified \cup {j}
  /\ UNCHANGED <<status, closed>>

Complete(j) ==
  /\ status[j] = "running"
  /\ j \in notified
  /\ status' = [status EXCEPT ![j] = "done"]
  /\ UNCHANGED <<notified, closed>>

Abort(j) ==
  /\ status[j] = "running"
  /\ j \notin notified
  /\ \E s \in {"failed", "cancelled"} : status' = [status EXCEPT ![j] = s]
  /\ UNCHANGED <<notified, closed>>

Close ==
  /\ closed' = TRUE
  /\ UNCHANGED <<status, notified>>

Next ==
  \/ Close
  \/ \E j \in Jobs : \/ Accept(j) \/ Start(j) \/ CancelQueued(j)
                     \/ Notify(j) \/ Complete(j) \/ Abort(j)

Spec == Init /\ [][Next]_lifecycle
=============================================================================
