------------------------------ MODULE JobQueue ------------------------------
(***************************************************************************)
(* pipeline/queue.py: a bounded queue of job ids in front of a fixed pool  *)
(* of worker threads, and a registry that holds the state of every job.    *)
(*                                                                         *)
(* Callers (the screens of the TUI and its shutdown thread) and workers    *)
(* are threads.  A step of the model is what a thread does between two     *)
(* points where another thread can see the difference: one call of the     *)
(* registry (each runs under the registry's own lock), one call of the     *)
(* queue.Queue, or the change of a flag.                                   *)
(***************************************************************************)
EXTENDS Integers, Sequences, Functions

CONSTANTS
  Jobs,         \* the jobs ever submitted: a job id is a fresh uuid4
  Callers,      \* the threads that call submit, cancel and shutdown
  NumWorkers,   \* workers=
  MaxPending,   \* max_pending=
  PollsMidRun,  \* does the JobWorker poll its CancelToken during a run?
  NoJob, NoCaller

ASSUME WorkersAssumption == NumWorkers \in Nat \ {0}
ASSUME PendingAssumption == MaxPending \in Nat \ {0}
ASSUME PollsAssumption == PollsMidRun \in BOOLEAN
ASSUME NullAssumption == NoJob \notin Jobs /\ NoCaller \notin Callers

Workers == 1..NumWorkers

VARIABLES
  jobs,      \* JobRegistry._jobs: the status of each job, "absent" if not there
  token,     \* CancelToken: was it set?
  queue,     \* JobQueue._queue
  lock,      \* JobQueue._lifecycle_lock: the caller that holds it
  down,      \* JobQueue._shutdown_event
  \* The threads of the pool
  wpc,       \* what each worker does next
  cur,       \* the job it took off the queue
  late,      \* did its last queue.Empty come after the shutdown signal?
  \* The callers
  pc,        \* what each caller does next
  arg,       \* the job it submits or cancels
  nxt,       \* shutdown: the worker it joins next
  clean,     \* shutdown: all_joined
  \* What the callers have been told
  answer,    \* the outcome of submit for each job
  cancelOK,  \* the jobs for which some cancel has returned True
  notified,  \* the jobs whose on_done hook has run
  stopped    \* has some shutdown returned True?

registry == <<jobs, token>>
workers  == <<wpc, cur, late>>
callers  == <<pc, arg, nxt, clean>>
told     == <<answer, cancelOK, notified, stopped>>
vars == <<registry, queue, lock, down, workers, callers, told>>

Final == {"done", "failed", "cancelled"}
Status == {"absent", "queued", "running"} \cup Final
Submitting == {"add", "put", "remove"}
Cancelling == {"lookup", "flag", "flip"}
Joining == {"join", "joinUntil"}
InRun == {"poll", "analyze", "hook", "publish"}

\* The values of every variable; a thread has a job in hand exactly where its
\* code has one.
TypeOK ==
  /\ jobs \in [Jobs -> Status]
  /\ token \in [Jobs -> BOOLEAN]
  /\ queue \in Seq(Jobs) /\ Len(queue) <= MaxPending
  /\ lock \in Callers \cup {NoCaller}
  /\ down \in BOOLEAN
  /\ wpc \in [Workers -> {"get", "empty", "claim", "exited"} \cup InRun]
  /\ cur \in [Workers -> Jobs \cup {NoJob}]
  /\ \A w \in Workers : cur[w] # NoJob <=> wpc[w] \in {"claim"} \cup InRun
  /\ late \in [Workers -> BOOLEAN]
  /\ pc \in [Callers -> {"idle"} \cup Submitting \cup Cancelling \cup Joining]
  /\ arg \in [Callers -> Jobs \cup {NoJob}]
  /\ \A c \in Callers : arg[c] # NoJob <=> pc[c] \in Submitting \cup Cancelling
  /\ nxt \in [Callers -> 1..(NumWorkers + 1)]
  /\ clean \in [Callers -> BOOLEAN]
  /\ answer \in [Jobs -> {"none", "accepted", "full", "refused"}]
  /\ cancelOK \subseteq Jobs
  /\ notified \subseteq Jobs
  /\ stopped \in BOOLEAN

Init ==
  /\ jobs = [j \in Jobs |-> "absent"]
  /\ token = [j \in Jobs |-> FALSE]
  /\ queue = <<>>
  /\ lock = NoCaller
  /\ down = FALSE
  /\ wpc = [w \in Workers |-> "get"]
  /\ cur = [w \in Workers |-> NoJob]
  /\ late = [w \in Workers |-> FALSE]
  /\ pc = [c \in Callers |-> "idle"]
  /\ arg = [c \in Callers |-> NoJob]
  /\ nxt = [c \in Callers |-> 1]
  /\ clean = [c \in Callers |-> TRUE]
  /\ answer = [j \in Jobs |-> "none"]
  /\ cancelOK = {}
  /\ notified = {}
  /\ stopped = FALSE

-----------------------------------------------------------------------------
(* Callers *)

Begin(c, at, j) ==
  /\ pc' = [pc EXCEPT ![c] = at]
  /\ arg' = [arg EXCEPT ![c] = j]
  /\ UNCHANGED <<nxt, clean>>

Goto(c, at) ==
  /\ pc' = [pc EXCEPT ![c] = at]
  /\ UNCHANGED <<arg, nxt, clean>>

Return(c) ==
  /\ pc' = [pc EXCEPT ![c] = "idle"]
  /\ arg' = [arg EXCEPT ![c] = NoJob]
  /\ nxt' = [nxt EXCEPT ![c] = 1]
  /\ clean' = [clean EXCEPT ![c] = TRUE]

\* A job id is made by one call of submit and used by no other.
Fresh(j) ==
  /\ answer[j] = "none"
  /\ \A c \in Callers : ~(pc[c] \in Submitting /\ arg[c] = j)

\* submit(): with self._lifecycle_lock, and the queue is shutting down.  The
\* flag changes only under that lock, so taking it and reading are one step.
SubmitRefused(c, j) ==
  /\ pc[c] = "idle" /\ Fresh(j) /\ lock = NoCaller
  /\ down
  /\ answer' = [answer EXCEPT ![j] = "refused"]
  /\ UNCHANGED <<registry, queue, lock, down, workers, callers,
                 cancelOK, notified, stopped>>

SubmitEnter(c, j) ==
  /\ pc[c] = "idle" /\ Fresh(j) /\ lock = NoCaller
  /\ ~down
  /\ lock' = c
  /\ Begin(c, "add", j)
  /\ UNCHANGED <<registry, queue, down, workers, told>>

SubmitAdd(c) ==
  /\ pc[c] = "add"
  /\ jobs' = [jobs EXCEPT ![arg[c]] = "queued"]
  /\ Goto(c, "put")
  /\ UNCHANGED <<token, queue, lock, down, workers, told>>

\* Mutant: one place too many.
SubmitPutOverfull(c) ==
  /\ pc[c] = "put"
  /\ Len(queue) <= MaxPending
  /\ queue' = Append(queue, arg[c])
  /\ answer' = [answer EXCEPT ![arg[c]] = "accepted"]
  /\ lock' = NoCaller
  /\ Return(c)
  /\ UNCHANGED <<registry, down, workers, cancelOK, notified, stopped>>

SubmitPut(c) ==
  /\ pc[c] = "put"
  /\ Len(queue) < MaxPending
  /\ queue' = Append(queue, arg[c])
  /\ answer' = [answer EXCEPT ![arg[c]] = "accepted"]
  /\ lock' = NoCaller
  /\ Return(c)
  /\ UNCHANGED <<registry, down, workers, cancelOK, notified, stopped>>

SubmitFull(c) ==
  /\ pc[c] = "put"
  /\ Len(queue) >= MaxPending
  /\ Goto(c, "remove")
  /\ UNCHANGED <<registry, queue, lock, down, workers, told>>

SubmitRemove(c) ==
  /\ pc[c] = "remove"
  /\ jobs' = [jobs EXCEPT ![arg[c]] = "absent"]
  /\ answer' = [answer EXCEPT ![arg[c]] = "full"]
  /\ lock' = NoCaller
  /\ Return(c)
  /\ UNCHANGED <<token, queue, down, workers, cancelOK, notified, stopped>>

\* cancel() looks up the token and then the job.  The job may be one that a
\* submit has listed and not yet put on the queue.
CancelToken(c, j) ==
  /\ pc[c] = "idle"
  /\ jobs[j] # "absent"
  /\ Begin(c, "lookup", j)
  /\ UNCHANGED <<registry, queue, lock, down, workers, told>>

CancelGet(c) ==
  /\ pc[c] = "lookup"
  /\ \/ jobs[arg[c]] \in {"absent"} \cup Final /\ Return(c)
     \/ jobs[arg[c]] \in {"queued", "running"} /\ Goto(c, "flag")
  /\ UNCHANGED <<registry, queue, lock, down, workers, told>>

CancelFlag(c) ==
  /\ pc[c] = "flag"
  /\ token' = [token EXCEPT ![arg[c]] = TRUE]
  /\ Goto(c, "flip")
  /\ UNCHANGED <<jobs, queue, lock, down, workers, told>>

\* The flip with the statuses it may overwrite as a parameter.
FlipFrom(c, from) ==
  /\ pc[c] = "flip"
  /\ jobs' = IF jobs[arg[c]] \in from
               THEN [jobs EXCEPT ![arg[c]] = "cancelled"] ELSE jobs
  /\ cancelOK' = cancelOK \cup {arg[c]}
  /\ Return(c)
  /\ UNCHANGED <<token, queue, lock, down, workers, answer, notified, stopped>>

\* Mutants: a running job is flipped too; the status is not looked at; the
\* flip is left to the worker that sees the token.
CancelFlipRunning(c) == FlipFrom(c, {"queued", "running"})
CancelFlipBlind(c) == FlipFrom(c, Status)
CancelFlipNever(c) == FlipFrom(c, {})

\* cancel_if_queued(), whose answer cancel() ignores.
CancelFlip(c) == FlipFrom(c, {"queued"})

\* Mutant: the flag is set without the lifecycle lock.
ShutdownSignalUnlocked(c, at) ==
  /\ pc[c] = "idle"
  /\ down' = TRUE
  /\ Begin(c, at, NoJob)
  /\ UNCHANGED <<registry, queue, lock, workers, told>>

\* shutdown(), without a timeout ("join") or with one ("joinUntil").
ShutdownSignal(c, at) ==
  /\ pc[c] = "idle" /\ lock = NoCaller
  /\ down' = TRUE
  /\ Begin(c, at, NoJob)
  /\ UNCHANGED <<registry, queue, lock, workers, told>>

JoinNext(c) ==
  /\ pc[c] \in Joining /\ nxt[c] \in Workers
  /\ nxt' = [nxt EXCEPT ![c] = nxt[c] + 1]
  /\ UNCHANGED <<registry, queue, lock, down, workers, pc, arg, told>>

JoinExited(c) ==
  /\ JoinNext(c)
  /\ wpc[nxt[c]] = "exited"
  /\ UNCHANGED clean

\* Mutants: the straggler is not remembered; the join outlasts a running job.
JoinTimeoutForgotten(c) ==
  /\ JoinNext(c)
  /\ pc[c] = "joinUntil"
  /\ wpc[nxt[c]] # "exited"
  /\ UNCHANGED clean

JoinTimeoutPatient(c) ==
  /\ JoinNext(c)
  /\ pc[c] = "joinUntil"
  /\ wpc[nxt[c]] \notin InRun \cup {"exited"}
  /\ clean' = [clean EXCEPT ![c] = FALSE]

\* The deadline has passed and the thread is still alive.
JoinTimeout(c) ==
  /\ JoinNext(c)
  /\ pc[c] = "joinUntil"
  /\ wpc[nxt[c]] # "exited"
  /\ clean' = [clean EXCEPT ![c] = FALSE]

ShutdownReturn(c) ==
  /\ pc[c] \in Joining /\ nxt[c] \notin Workers
  /\ stopped' = (stopped \/ clean[c])
  /\ Return(c)
  /\ UNCHANGED <<registry, queue, lock, down, workers, answer, cancelOK, notified>>

-----------------------------------------------------------------------------
(* Workers *)

Step(w, at) ==
  /\ wpc' = [wpc EXCEPT ![w] = at]
  /\ UNCHANGED <<cur, late>>

\* _process() has returned: back to the top of _work_loop().
LoopAgain(w) ==
  /\ wpc' = [wpc EXCEPT ![w] = "get"]
  /\ cur' = [cur EXCEPT ![w] = NoJob]
  /\ UNCHANGED late

Set(j, s) == jobs' = [jobs EXCEPT ![j] = s]

Get(w) ==
  /\ wpc[w] = "get" /\ queue # <<>>
  /\ cur' = [cur EXCEPT ![w] = Head(queue)]
  /\ queue' = Tail(queue)
  /\ wpc' = [wpc EXCEPT ![w] = "claim"]
  /\ UNCHANGED <<registry, lock, down, late, callers, told>>

\* queue.Empty: nothing came within the poll interval.
Empty(w) ==
  /\ wpc[w] = "get" /\ queue = <<>>
  /\ wpc' = [wpc EXCEPT ![w] = "empty"]
  /\ late' = [late EXCEPT ![w] = down]
  /\ UNCHANGED <<registry, queue, lock, down, cur, callers, told>>

KeepWaiting(w) ==
  /\ wpc[w] = "empty" /\ ~down
  /\ Step(w, "get")
  /\ UNCHANGED <<registry, queue, lock, down, callers, told>>

\* Mutant: a worker leaves as soon as it sees the flag, jobs or no jobs.
ExitEagerly(w) ==
  /\ wpc[w] \in {"get", "empty"} /\ down
  /\ Step(w, "exited")
  /\ UNCHANGED <<registry, queue, lock, down, callers, told>>

Exit(w) ==
  /\ wpc[w] = "empty" /\ down
  /\ Step(w, "exited")
  /\ UNCHANGED <<registry, queue, lock, down, callers, told>>

\* Mutant: a flagged job is declined and CANCELLED never recorded.
DeclineFlagged(w) ==
  /\ wpc[w] = "claim" /\ (jobs[cur[w]] # "queued" \/ token[cur[w]])
  /\ LoopAgain(w)
  /\ UNCHANGED <<registry, queue, lock, down, callers, told>>

\* start_if_runnable(): the job is no longer QUEUED, or it has been flagged,
\* or it is the worker's to run.
Decline(w) ==
  /\ wpc[w] = "claim" /\ jobs[cur[w]] # "queued"
  /\ LoopAgain(w)
  /\ UNCHANGED <<registry, queue, lock, down, callers, told>>

ClaimCancelled(w) ==
  /\ wpc[w] = "claim" /\ jobs[cur[w]] = "queued" /\ token[cur[w]]
  /\ Set(cur[w], "cancelled")
  /\ LoopAgain(w)
  /\ UNCHANGED <<token, queue, lock, down, callers, told>>

\* Mutant: RUNNING is written over whatever the registry says by now.
ClaimBlind(w) ==
  /\ wpc[w] = "claim"
  /\ Set(cur[w], "running")
  /\ Step(w, "poll")
  /\ UNCHANGED <<token, queue, lock, down, callers, told>>

Claim(w) ==
  /\ wpc[w] = "claim" /\ jobs[cur[w]] = "queued" /\ ~token[cur[w]]
  /\ Set(cur[w], "running")
  /\ Step(w, "poll")
  /\ UNCHANGED <<token, queue, lock, down, callers, told>>

\* worker.run(): raise_if_cancelled() first, then the analysis.
RunCancelled(w) ==
  /\ \/ wpc[w] = "poll"
     \/ wpc[w] = "analyze" /\ PollsMidRun
  /\ token[cur[w]]
  /\ Set(cur[w], "cancelled")
  /\ LoopAgain(w)
  /\ UNCHANGED <<token, queue, lock, down, callers, told>>

Analyze(w) ==
  /\ wpc[w] = "poll" /\ ~token[cur[w]]
  /\ Step(w, "analyze")
  /\ UNCHANGED <<registry, queue, lock, down, callers, told>>

\* Mutant: the exception of a job ends its worker.
RunFailsPoisons(w) ==
  /\ wpc[w] = "analyze"
  /\ Set(cur[w], "failed")
  /\ wpc' = [wpc EXCEPT ![w] = "exited"]
  /\ cur' = [cur EXCEPT ![w] = NoJob]
  /\ UNCHANGED <<token, queue, lock, down, late, callers, told>>

RunFails(w) ==
  /\ wpc[w] = "analyze"
  /\ Set(cur[w], "failed")
  /\ LoopAgain(w)
  /\ UNCHANGED <<token, queue, lock, down, callers, told>>

\* Mutant: DONE is published before the hook.
RunReturnsDone(w) ==
  /\ wpc[w] = "analyze"
  /\ Set(cur[w], "done")
  /\ Step(w, "hook")
  /\ UNCHANGED <<token, queue, lock, down, callers, told>>

RunReturns(w) ==
  /\ wpc[w] = "analyze"
  /\ Step(w, "hook")
  /\ UNCHANGED <<registry, queue, lock, down, callers, told>>

\* on_done() returns, or raises and the exception is logged.
HookEnds(w) ==
  /\ wpc[w] = "hook"
  /\ notified' = notified \cup {cur[w]}
  /\ Step(w, "publish")
  /\ UNCHANGED <<registry, queue, lock, down, callers, answer, cancelOK, stopped>>

Publish(w) ==
  /\ wpc[w] = "publish"
  /\ Set(cur[w], "done")
  /\ LoopAgain(w)
  /\ UNCHANGED <<token, queue, lock, down, callers, told>>

-----------------------------------------------------------------------------
\* A thread calls when it likes ...
NewCall(c) ==
  \/ \E j \in Jobs : SubmitRefused(c, j) \/ SubmitEnter(c, j) \/ CancelToken(c, j)
  \/ \E at \in Joining : ShutdownSignal(c, at)

\* ... and a call that has begun goes on by itself.
CallerStep(c) ==
  \/ SubmitAdd(c) \/ SubmitPut(c) \/ SubmitFull(c) \/ SubmitRemove(c)
  \/ CancelGet(c) \/ CancelFlag(c) \/ CancelFlip(c)
  \/ JoinExited(c) \/ JoinTimeout(c) \/ ShutdownReturn(c)

WorkerStep(w) ==
  \/ Get(w) \/ Empty(w) \/ KeepWaiting(w) \/ Exit(w)
  \/ Decline(w) \/ ClaimCancelled(w) \/ Claim(w)
  \/ RunCancelled(w) \/ Analyze(w) \/ RunFails(w) \/ RunReturns(w)
  \/ HookEnds(w) \/ Publish(w)

Next ==
  \/ \E c \in Callers : NewCall(c) \/ CallerStep(c)
  \/ \E w \in Workers : WorkerStep(w)

Spec == Init /\ [][Next]_vars

\* A call that has begun goes on; no thread has to make a call.
CallersRun == \A c \in Callers : WF_vars(CallerStep(c))

\* The threads of the pool are scheduled and every analysis and hook ends.
WorkersRun == \A w \in Workers : WF_vars(WorkerStep(w))

\* A worker may hang in its analysis for ever: what relies on workers that do
\* not is promised under WorkersRun.
FairSpec == Spec /\ CallersRun

-----------------------------------------------------------------------------
(* Properties *)

Accepted(j) == answer[j] = "accepted"
Holds(w, j) == cur[w] = j
Waiting(j) == j \in Range(queue)

\* No two workers hold one job, a job they hold is off the queue, and a job
\* reads RUNNING exactly while some worker is in run() or _process() for it:
\* cancel_if_queued, start_if_runnable and replace never clobber each other.
SingleOwner ==
  /\ \A v, w \in Workers : cur[v] = cur[w] /\ cur[v] # NoJob => v = w
  /\ \A w \in Workers : cur[w] # NoJob => ~Waiting(cur[w])
  /\ \A j \in Jobs :
       jobs[j] = "running" <=> \E w \in Workers : Holds(w, j) /\ wpc[w] \in InRun

\* submit returned the job and it still reads QUEUED: it is on the queue, or a
\* worker has taken it off and is about to claim it.
NoLostJob ==
  \A j \in Jobs : Accepted(j) /\ jobs[j] = "queued" =>
    Waiting(j) \/ \E w \in Workers : Holds(w, j) /\ wpc[w] = "claim"

\* "Once a reader sees DONE, its side effects have already happened"
\* (queue.py:347): and the hook ran for no job that ends in another way, and
\* is not run a second time.
DoneMeansNotified ==
  /\ \A j \in Jobs : jobs[j] = "done" => j \in notified
  /\ \A j \in notified : jobs[j] \in {"running", "done"}
  /\ \A w \in Workers : wpc[w] = "hook" => cur[w] \notin notified

\* Once cancel has returned True the job is not (or no longer) QUEUED, so no
\* worker can start it any more.
CancelSticks == \A j \in cancelOK : jobs[j] # "queued"

\* A submit that raised QueueFull or was refused leaves nothing behind, even
\* when another thread found the job listed and cancels it meanwhile.
RejectedStaysOut ==
  \A j \in Jobs : answer[j] \in {"full", "refused"} => jobs[j] = "absent" /\ ~Waiting(j)

\* A worker that found the queue empty after the shutdown signal found it
\* empty for good: no submit gets past the lifecycle lock any more.
EmptyAfterSignalIsFinal == \A w \in Workers : late[w] => queue = <<>>

\* shutdown() returned True: every worker has exited, no job is left RUNNING
\* and no hook has run for a job that is not DONE, so that the process may end.
TrueShutdownIsQuiet ==
  stopped =>
    /\ \A w \in Workers : wpc[w] = "exited"
    /\ \A j \in Jobs : jobs[j] # "running"
    /\ \A j \in notified : jobs[j] = "done"

\* What the code says of shutdown (queue.py:231-234, 274-275): every accepted
\* job is drained before the workers exit.  It is not what the code does.
DrainedOnExit ==
  stopped => \A j \in Jobs : Accepted(j) => jobs[j] \in Final

\* The job queue implements JobLifecycle; an observer counts a job once submit
\* has returned it.
ObservedStatus == [j \in Jobs |-> IF Accepted(j) THEN jobs[j] ELSE "absent"]
Observed == INSTANCE JobLifecycle WITH status <- ObservedStatus, closed <- down
ImplementsLifecycle == Observed!Spec

\* Every accepted job ends, unless the queue is shut down first.
JobsFinish ==
  WorkersRun => \A j \in Jobs : Accepted(j) ~> (jobs[j] \in Final \/ down)

\* A worker that is anywhere but between its queue.Empty and its look at the
\* flag when shutdown is signalled keeps the promise: every job is drained.
DrainsUnlessCaughtIdle ==
  WorkersRun =>
    ((down /\ \E w \in Workers : wpc[w] \notin {"empty", "exited"})
       ~> (\A j \in Jobs : Accepted(j) => jobs[j] \in Final))

\* Every call returns if the workers run, since shutdown without a timeout
\* waits for all of them; with a timeout shutdown returns even if a worker is
\* wedged in its analysis ("the timeout genuinely bounds how long it waits",
\* queue.py:274).
CallsReturn ==
  /\ WorkersRun => \A c \in Callers : pc[c] # "idle" ~> pc[c] = "idle"
  /\ \A c \in Callers : pc[c] = "joinUntil" ~> pc[c] = "idle"
=============================================================================
