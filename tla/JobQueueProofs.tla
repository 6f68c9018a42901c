--------------------------- MODULE JobQueueProofs ---------------------------
(***************************************************************************)
(* The safety properties of JobQueue, and that it implements JobLifecycle, *)
(* for any number of jobs, callers, workers and places in the queue.       *)
(***************************************************************************)
EXTENDS JobQueue, TLAPS

-----------------------------------------------------------------------------
(* Type correctness *)

LEMMA CallerTypeOK ==
  ASSUME TypeOK, NEW c \in Callers, NewCall(c) \/ CallerStep(c)
  PROVE  TypeOK'
<1> USE PendingAssumption, WorkersAssumption, NullAssumption
        DEF TypeOK, Workers, Submitting, Cancelling, Joining, Status, Final, InRun,
            registry, workers, callers, told
<1>1. ASSUME NEW j \in Jobs, SubmitRefused(c, j) PROVE TypeOK'
  BY <1>1 DEF SubmitRefused
<1>2. ASSUME NEW j \in Jobs, SubmitEnter(c, j) PROVE TypeOK'
  BY <1>2 DEF SubmitEnter, Begin
<1>3. CASE SubmitAdd(c)
  BY <1>3 DEF SubmitAdd, Goto
<1>4. CASE SubmitPut(c)
  <2>1. arg[c] \in Jobs /\ Len(queue) < MaxPending
    BY <1>4 DEF SubmitPut
  <2>2. Append(queue, arg[c]) \in Seq(Jobs)
        /\ Len(Append(queue, arg[c])) <= MaxPending
    BY <2>1
  <2>3. QED
    BY <1>4, <2>2 DEF SubmitPut, Return
<1>5. CASE SubmitFull(c)
  BY <1>5 DEF SubmitFull, Goto
<1>6. CASE SubmitRemove(c)
  BY <1>6 DEF SubmitRemove, Return
<1>7. ASSUME NEW j \in Jobs, CancelToken(c, j) PROVE TypeOK'
  BY <1>7 DEF CancelToken, Begin
<1>8. CASE CancelGet(c)
  <2>1. arg[c] \in Jobs
    BY <1>8 DEF CancelGet
  <2>2. CASE Return(c)
    BY <1>8, <2>1, <2>2 DEF CancelGet, Return
  <2>3. CASE Goto(c, "flag")
    BY <1>8, <2>1, <2>3 DEF CancelGet, Goto
  <2>4. QED
    BY <1>8, <2>2, <2>3 DEF CancelGet
<1>9. CASE CancelFlag(c)
  BY <1>9 DEF CancelFlag, Goto
<1>10. CASE CancelFlip(c)
  BY <1>10 DEF CancelFlip, FlipFrom, Return
<1>11. ASSUME NEW at \in Joining, ShutdownSignal(c, at) PROVE TypeOK'
  BY <1>11 DEF ShutdownSignal, Begin
<1>12. CASE JoinExited(c)
  BY <1>12 DEF JoinExited, JoinNext
<1>13. CASE JoinTimeout(c)
  BY <1>13 DEF JoinTimeout, JoinNext
<1>14. CASE ShutdownReturn(c)
  BY <1>14 DEF ShutdownReturn, Return
<1> HIDE DEF TypeOK, Workers, Submitting, Cancelling, Joining, Status, Final,
   InRun, registry, workers, callers, told
<1>15. QED
  BY <1>1, <1>2, <1>3, <1>4, <1>5, <1>6, <1>7, <1>8, <1>9, <1>10, <1>11,
     <1>12, <1>13, <1>14 DEF NewCall, CallerStep

LEMMA WorkerTypeOK ==
  ASSUME TypeOK, NEW w \in Workers, WorkerStep(w)
  PROVE  TypeOK'
<1> USE PendingAssumption, WorkersAssumption, NullAssumption
        DEF TypeOK, Submitting, Cancelling, Joining, Status, Final, InRun,
            registry, workers, callers, told, Step, LoopAgain, Set
<1>1. CASE Get(w)
  <2>1. queue # <<>> /\ Head(queue) \in Jobs /\ Tail(queue) \in Seq(Jobs)
        /\ Len(Tail(queue)) <= MaxPending
    BY <1>1 DEF Get
  <2>2. QED
    BY <1>1, <2>1 DEF Get
<1>2. CASE Empty(w)
  BY <1>2 DEF Empty
<1>3. CASE KeepWaiting(w)
  BY <1>3 DEF KeepWaiting
<1>4. CASE Exit(w)
  BY <1>4 DEF Exit
<1>5. CASE Decline(w)
  BY <1>5 DEF Decline
<1>6. CASE ClaimCancelled(w)
  BY <1>6 DEF ClaimCancelled
<1>7. CASE Claim(w)
  BY <1>7 DEF Claim
<1>8. CASE RunCancelled(w)
  BY <1>8 DEF RunCancelled
<1>9. CASE Analyze(w)
  BY <1>9 DEF Analyze
<1>10. CASE RunFails(w)
  BY <1>10 DEF RunFails
<1>11. CASE RunReturns(w)
  BY <1>11 DEF RunReturns
<1>12. CASE HookEnds(w)
  BY <1>12 DEF HookEnds
<1>13. CASE Publish(w)
  BY <1>13 DEF Publish
<1> HIDE DEF TypeOK, Submitting, Cancelling, Joining, Status, Final, InRun,
   registry, workers, callers, told, Step, LoopAgain, Set
<1>14. QED
  BY <1>1, <1>2, <1>3, <1>4, <1>5, <1>6, <1>7, <1>8, <1>9, <1>10, <1>11,
     <1>12, <1>13 DEF WorkerStep

LEMMA InitTypeOK == Init => TypeOK
<1>1. <<>> \in Seq(Jobs) /\ Len(<<>>) = 0 /\ 1 \in 1..(NumWorkers + 1)
  BY WorkersAssumption
<1> SUFFICES ASSUME Init PROVE TypeOK
  OBVIOUS
<1>2. queue \in Seq(Jobs) /\ Len(queue) <= MaxPending
  BY <1>1, PendingAssumption DEF Init
<1>3. /\ jobs \in [Jobs -> Status] /\ token \in [Jobs -> BOOLEAN]
      /\ lock \in Callers \cup {NoCaller} /\ down \in BOOLEAN
      /\ answer \in [Jobs -> {"none", "accepted", "full", "refused"}]
      /\ cancelOK \subseteq Jobs /\ notified \subseteq Jobs /\ stopped \in BOOLEAN
  BY DEF Init, Status
<1>4. /\ wpc \in [Workers -> {"get", "empty", "claim", "exited"} \cup InRun]
      /\ cur \in [Workers -> Jobs \cup {NoJob}]
      /\ \A w \in Workers : cur[w] # NoJob <=> wpc[w] \in {"claim"} \cup InRun
      /\ late \in [Workers -> BOOLEAN]
  BY DEF Init, InRun
<1>5. /\ pc \in [Callers -> {"idle"} \cup Submitting \cup Cancelling \cup Joining]
      /\ arg \in [Callers -> Jobs \cup {NoJob}]
      /\ \A c \in Callers : arg[c] # NoJob <=> pc[c] \in Submitting \cup Cancelling
      /\ nxt \in [Callers -> 1..(NumWorkers + 1)]
      /\ clean \in [Callers -> BOOLEAN]
  BY <1>1 DEF Init, Submitting, Cancelling, Joining
<1>6. QED
  BY <1>2, <1>3, <1>4, <1>5 DEF TypeOK

\* Every variable keeps to its values: in particular the queue never holds
\* more than max_pending ids (the backpressure of queue.py:11).
THEOREM TypeCorrect == Spec => []TypeOK
<1>1. Init => TypeOK
  BY InitTypeOK
<1>2. TypeOK /\ [Next]_vars => TypeOK'
  <2> SUFFICES ASSUME TypeOK, [Next]_vars PROVE TypeOK'
    OBVIOUS
  <2>1. CASE Next
    BY <2>1, CallerTypeOK, WorkerTypeOK DEF Next
  <2>2. CASE UNCHANGED vars
    BY <2>2 DEF TypeOK, vars, registry, workers, callers, told
  <2>3. QED
    BY <2>1, <2>2
<1>3. QED
  BY <1>1, <1>2, PTL DEF Spec

-----------------------------------------------------------------------------
(***************************************************************************)
(* The inductive invariant, in parts: a lemma says of each part that a     *)
(* step of a caller, or of a worker, preserves it, and names the parts it  *)
(* rests on.                                                               *)
(***************************************************************************)

\* A job the registry has held, whatever became of it.
Known(j) ==
  \/ answer[j] # "none"
  \/ \E c \in Callers : pc[c] \in {"put", "remove"} /\ arg[c] = j

\* The lifecycle lock: a caller holds it exactly while it submits, for a job
\* no other submit has seen, and shutdown has not been signalled.
LockInv ==
  /\ \A c \in Callers : lock = c <=> pc[c] \in Submitting
  /\ \A c \in Callers : pc[c] \in Submitting => ~down /\ answer[arg[c]] = "none"

\* The registry: what is listed, being cancelled or cancelled has been added;
\* a job whose submit failed is not listed and one that was accepted is.
RegistryInv ==
  /\ \A j \in Jobs : jobs[j] # "absent" => Known(j)
  /\ \A j \in cancelOK : Known(j)
  /\ \A c \in Callers : pc[c] \in Cancelling => Known(arg[c])
  /\ \A c \in Callers : pc[c] \in {"put", "remove"} =>
       jobs[arg[c]] \in {"queued", "cancelled"}
  /\ \A j \in Jobs : answer[j] \in {"full", "refused"} => jobs[j] = "absent"
  /\ \A j \in Jobs : Accepted(j) => jobs[j] # "absent"

\* The queue holds each accepted job at most once, not yet started.
QueueInv ==
  /\ \A i, k \in 1..Len(queue) : queue[i] = queue[k] => i = k
  /\ \A i \in 1..Len(queue) :
       Accepted(queue[i]) /\ jobs[queue[i]] \in {"queued", "cancelled"}

\* A job is in the hands of one worker, off the queue, and RUNNING exactly
\* from start_if_runnable to the replace that ends it.
WorkerInv ==
  /\ \A v, w \in Workers : cur[v] = cur[w] /\ cur[v] # NoJob => v = w
  /\ \A w \in Workers : \A i \in 1..Len(queue) : queue[i] # cur[w]
  /\ \A w \in Workers : cur[w] # NoJob => Accepted(cur[w])
  /\ \A w \in Workers : wpc[w] = "claim" => jobs[cur[w]] \in {"queued", "cancelled"}
  /\ \A w \in Workers : wpc[w] \in InRun => jobs[cur[w]] = "running"
  /\ \A j \in Jobs : jobs[j] = "running" =>
       \E w \in Workers : cur[w] = j /\ wpc[w] \in InRun

\* The completion hook and DONE.
HookInv ==
  /\ \A j \in Jobs : jobs[j] = "done" => j \in notified
  /\ \A j \in notified :
       jobs[j] = "done" \/ \E w \in Workers : cur[w] = j /\ wpc[w] = "publish"
  /\ \A w \in Workers : wpc[w] = "publish" => cur[w] \in notified
  /\ \A w \in Workers : wpc[w] \in {"poll", "analyze", "hook"} => cur[w] \notin notified

\* Shutdown: what the flag, an Empty after it, and a clean join entail.
ShutdownInv ==
  /\ \A w \in Workers : late[w] => down /\ queue = <<>>
  /\ \A c \in Callers : clean[c] =>
       \A w \in Workers : w < nxt[c] => wpc[w] = "exited"
  /\ stopped => \A w \in Workers : wpc[w] = "exited"

IInv ==
  /\ TypeOK /\ LockInv /\ RegistryInv /\ CancelSticks
  /\ QueueInv /\ WorkerInv /\ NoLostJob /\ HookInv /\ ShutdownInv

-----------------------------------------------------------------------------
(* Frames: what a step of the other side leaves alone *)

LEMMA WorkerFrame ==
  ASSUME NEW w \in Workers, WorkerStep(w)
  PROVE  /\ UNCHANGED <<token, lock, down, callers, answer, cancelOK, stopped>>
         /\ \A j \in Jobs : Known(j)' <=> Known(j)
<1>1. UNCHANGED <<token, lock, down, callers, answer, cancelOK, stopped>>
  BY DEF WorkerStep, Get, Empty, KeepWaiting, Exit, Decline, ClaimCancelled, Claim,
         RunCancelled, Analyze, RunFails, RunReturns, HookEnds, Publish, registry, told
<1>2. QED
  BY <1>1 DEF Known, callers

LEMMA CallerFrame ==
  ASSUME NEW c \in Callers, NewCall(c) \/ CallerStep(c)
  PROVE  UNCHANGED <<workers, notified>>
BY DEF NewCall, CallerStep, SubmitRefused, SubmitEnter, SubmitAdd, SubmitPut, SubmitFull,
       SubmitRemove, CancelToken, CancelGet, CancelFlag, CancelFlip, FlipFrom,
       ShutdownSignal, JoinExited, JoinTimeout, JoinNext, ShutdownReturn, told

-----------------------------------------------------------------------------
(* The lifecycle lock *)

LEMMA CallerLockInv ==
  ASSUME TypeOK, LockInv, NEW c \in Callers, NewCall(c) \/ CallerStep(c)
  PROVE  LockInv'
<1> USE NullAssumption DEF TypeOK, LockInv, Submitting, Cancelling, Joining,
   registry, workers, callers, told, Fresh
<1>1. ASSUME NEW j \in Jobs, SubmitRefused(c, j) PROVE LockInv'
  BY <1>1 DEF SubmitRefused
<1>2. ASSUME NEW j \in Jobs, SubmitEnter(c, j) PROVE LockInv'
  BY <1>2 DEF SubmitEnter, Begin
<1>3. CASE SubmitAdd(c)
  BY <1>3 DEF SubmitAdd, Goto
<1>4. CASE SubmitPut(c)
  BY <1>4 DEF SubmitPut, Return
<1>5. CASE SubmitFull(c)
  BY <1>5 DEF SubmitFull, Goto
<1>6. CASE SubmitRemove(c)
  BY <1>6 DEF SubmitRemove, Return
<1>7. ASSUME NEW j \in Jobs, CancelToken(c, j) PROVE LockInv'
  BY <1>7 DEF CancelToken, Begin
<1>8. CASE CancelGet(c)
  <2>1. pc \in [Callers -> {"idle"} \cup Submitting \cup Cancelling \cup Joining]
        /\ arg \in [Callers -> Jobs \cup {NoJob}]
    BY ONLY TypeOK DEF TypeOK
  <2>2. /\ UNCHANGED <<lock, down, answer>> /\ pc[c] \notin Submitting
        /\ pc'[c] \in {"idle", "flag"}
        /\ \A d \in Callers : d # c => pc'[d] = pc[d] /\ arg'[d] = arg[d]
    BY ONLY <1>8, <2>1, c \in Callers DEF CancelGet, Return, Goto, Submitting, told
  <2>3. pc'[c] \notin Submitting
    BY <2>2
  <2>4. \A d \in Callers : /\ pc'[d] \in Submitting <=> pc[d] \in Submitting
                           /\ pc[d] \in Submitting => arg'[d] = arg[d]
    BY ONLY <2>2, <2>3
  <2>5. LockInv
    OBVIOUS
  <2> HIDE DEF TypeOK, LockInv, Submitting, Cancelling, Joining, registry, workers, callers,
     told, Fresh
  <2>6. UNCHANGED <<lock, down, answer>>
    BY <2>2
  <2>7. QED
    BY ONLY <2>4, <2>5, <2>6 DEF LockInv
<1>9. CASE CancelFlag(c)
  BY <1>9 DEF CancelFlag, Goto
<1>10. CASE CancelFlip(c)
  BY <1>10 DEF CancelFlip, FlipFrom, Return
<1>11. ASSUME NEW at \in Joining, ShutdownSignal(c, at) PROVE LockInv'
  BY <1>11 DEF ShutdownSignal, Begin
<1>12. CASE JoinExited(c)
  BY <1>12 DEF JoinExited, JoinNext
<1>13. CASE JoinTimeout(c)
  BY <1>13 DEF JoinTimeout, JoinNext
<1>14. CASE ShutdownReturn(c)
  BY <1>14 DEF ShutdownReturn, Return
<1> HIDE DEF TypeOK, LockInv, Submitting, Cancelling, Joining, registry,
   workers, callers, told, Fresh
<1>15. QED
  BY <1>1, <1>2, <1>3, <1>4, <1>5, <1>6, <1>7, <1>8, <1>9, <1>10, <1>11,
     <1>12, <1>13, <1>14 DEF NewCall, CallerStep

-----------------------------------------------------------------------------
(* The registry *)

LEMMA FreshUnknown ==
  ASSUME TypeOK, LockInv, NEW c \in Callers, pc[c] = "add"
  PROVE  ~Known(arg[c]) /\ arg[c] \in Jobs
BY NullAssumption DEF TypeOK, LockInv, Known, Submitting, Cancelling

LEMMA KnownStable ==
  ASSUME TypeOK, LockInv, NEW i \in Jobs, Known(i), NEW c \in Callers, NewCall(c) \/ CallerStep(c)
  PROVE  Known(i)'
<1> USE NullAssumption DEF TypeOK, LockInv, Known, Submitting, Cancelling,
   Joining, registry, workers, callers, told
<1>1. ASSUME NEW j \in Jobs, SubmitRefused(c, j) PROVE Known(i)'
  BY <1>1 DEF SubmitRefused
<1>2. ASSUME NEW j \in Jobs, SubmitEnter(c, j) PROVE Known(i)'
  BY <1>2 DEF SubmitEnter, Begin
<1>3. CASE SubmitAdd(c)
  BY <1>3 DEF SubmitAdd, Goto
<1>4. CASE SubmitPut(c)
  <2>1. PICK d \in Callers : answer[i] # "none" \/ (pc[d] \in {"put", "remove"} /\ arg[d] = i)
    BY DEF Known
  <2>2. arg[c] \in Jobs
    BY <1>4 DEF SubmitPut
  <2>3. QED
    BY <1>4, <2>1, <2>2 DEF SubmitPut, Return
<1>5. CASE SubmitFull(c)
  BY <1>5 DEF SubmitFull, Goto
<1>6. CASE SubmitRemove(c)
  <2>1. PICK d \in Callers : answer[i] # "none" \/ (pc[d] \in {"put", "remove"} /\ arg[d] = i)
    BY DEF Known
  <2>2. arg[c] \in Jobs
    BY <1>6 DEF SubmitRemove
  <2>3. QED
    BY <1>6, <2>1, <2>2 DEF SubmitRemove, Return
<1>7. ASSUME NEW j \in Jobs, CancelToken(c, j) PROVE Known(i)'
  BY <1>7 DEF CancelToken, Begin
<1>8. CASE CancelGet(c)
  BY <1>8 DEF CancelGet, Return, Goto
<1>9. CASE CancelFlag(c)
  BY <1>9 DEF CancelFlag, Goto
<1>10. CASE CancelFlip(c)
  BY <1>10 DEF CancelFlip, FlipFrom, Return
<1>11. ASSUME NEW at \in Joining, ShutdownSignal(c, at) PROVE Known(i)'
  BY <1>11 DEF ShutdownSignal, Begin
<1>12. CASE JoinExited(c)
  BY <1>12 DEF JoinExited, JoinNext
<1>13. CASE JoinTimeout(c)
  BY <1>13 DEF JoinTimeout, JoinNext
<1>14. CASE ShutdownReturn(c)
  BY <1>14 DEF ShutdownReturn, Return
<1> HIDE DEF TypeOK, LockInv, Known, Submitting, Cancelling, Joining, registry,
   workers, callers, told
<1>15. QED
  BY <1>1, <1>2, <1>3, <1>4, <1>5, <1>6, <1>7, <1>8, <1>9, <1>10, <1>11,
     <1>12, <1>13, <1>14 DEF NewCall, CallerStep

LEMMA CallerRegistryInv ==
  ASSUME TypeOK, LockInv, RegistryInv, NEW c \in Callers, NewCall(c) \/ CallerStep(c)
  PROVE  RegistryInv'
<1> USE NullAssumption DEF TypeOK, LockInv, RegistryInv, Accepted, Final,
   Submitting, Cancelling, Joining, registry, workers, callers, told
<1>a. \A j \in Jobs : Known(j) => Known(j)'
  BY KnownStable
<1>1. ASSUME NEW j \in Jobs, SubmitRefused(c, j) PROVE RegistryInv'
  <2>1. ~Known(j)
    BY <1>1 DEF SubmitRefused, Fresh, Known
  <2>2. QED
    BY <1>1, <1>a, <2>1 DEF SubmitRefused
<1>2. ASSUME NEW j \in Jobs, SubmitEnter(c, j) PROVE RegistryInv'
  BY <1>2, <1>a DEF SubmitEnter, Begin
<1>3. CASE SubmitAdd(c)
  <2>1. arg[c] \in Jobs /\ answer[arg[c]] = "none" /\ Known(arg[c])'
    BY <1>3, FreshUnknown DEF SubmitAdd, Goto, Known
  <2>2. QED
    BY <1>3, <1>a, <2>1 DEF SubmitAdd, Goto
<1>4. CASE SubmitPut(c)
  <2>1. arg[c] \in Jobs /\ jobs[arg[c]] \in {"queued", "cancelled"} /\ lock = c
    BY <1>4 DEF SubmitPut
  <2>2. \A d \in Callers \ {c} : pc[d] \notin Submitting
    BY <2>1
  <2>3. QED
    BY <1>4, <1>a, <2>1, <2>2 DEF SubmitPut, Return
<1>5. CASE SubmitFull(c)
  BY <1>5, <1>a DEF SubmitFull, Goto
<1>6. CASE SubmitRemove(c)
  BY <1>6, <1>a DEF SubmitRemove, Return
<1>7. ASSUME NEW j \in Jobs, CancelToken(c, j) PROVE RegistryInv'
  BY <1>7, <1>a DEF CancelToken, Begin
<1>8. CASE CancelGet(c)
  <2>1. CASE Return(c)
    BY <1>8, <1>a, <2>1 DEF CancelGet, Return
  <2>2. CASE Goto(c, "flag")
    BY <1>8, <1>a, <2>2 DEF CancelGet, Goto
  <2>3. QED
    BY <1>8, <2>1, <2>2 DEF CancelGet
<1>9. CASE CancelFlag(c)
  BY <1>9, <1>a DEF CancelFlag, Goto
<1>10. CASE CancelFlip(c)
  BY <1>10, <1>a DEF CancelFlip, FlipFrom, Return
<1>11. ASSUME NEW at \in Joining, ShutdownSignal(c, at) PROVE RegistryInv'
  BY <1>11, <1>a DEF ShutdownSignal, Begin
<1>12. CASE JoinExited(c)
  BY <1>12, <1>a DEF JoinExited, JoinNext
<1>13. CASE JoinTimeout(c)
  BY <1>13, <1>a DEF JoinTimeout, JoinNext
<1>14. CASE ShutdownReturn(c)
  BY <1>14, <1>a DEF ShutdownReturn, Return
<1> HIDE DEF TypeOK, LockInv, RegistryInv, Accepted, Final, Submitting,
   Cancelling, Joining, registry, workers, callers, told
<1>15. QED
  BY <1>1, <1>2, <1>3, <1>4, <1>5, <1>6, <1>7, <1>8, <1>9, <1>10, <1>11,
     <1>12, <1>13, <1>14 DEF NewCall, CallerStep

LEMMA WorkerRegistryInv ==
  ASSUME TypeOK, LockInv, RegistryInv, WorkerInv, NEW w \in Workers, WorkerStep(w)
  PROVE  RegistryInv'
<1> USE NullAssumption DEF TypeOK, RegistryInv, WorkerInv, Accepted, Final,
   InRun, registry, workers, callers, told, LockInv, Submitting, Known
<1>1. CASE Get(w)
  BY <1>1 DEF Get
<1>2. CASE Empty(w)
  BY <1>2 DEF Empty
<1>3. CASE KeepWaiting(w)
  BY <1>3 DEF KeepWaiting, Step
<1>4. CASE Exit(w)
  BY <1>4 DEF Exit, Step
<1>5. CASE Decline(w)
  BY <1>5 DEF Decline, LoopAgain
<1>6. CASE ClaimCancelled(w)
  BY <1>6 DEF ClaimCancelled, Set, LoopAgain
<1>7. CASE Claim(w)
  BY <1>7 DEF Claim, Set, Step
<1>8. CASE RunCancelled(w)
  BY <1>8 DEF RunCancelled, Set, LoopAgain
<1>9. CASE Analyze(w)
  BY <1>9 DEF Analyze, Step
<1>10. CASE RunFails(w)
  BY <1>10 DEF RunFails, Set, LoopAgain
<1>11. CASE RunReturns(w)
  BY <1>11 DEF RunReturns, Step
<1>12. CASE HookEnds(w)
  BY <1>12 DEF HookEnds, Step
<1>13. CASE Publish(w)
  BY <1>13 DEF Publish, Set, LoopAgain
<1> HIDE DEF TypeOK, RegistryInv, WorkerInv, Accepted, Final, InRun, registry,
   workers, callers, told, LockInv, Submitting, Known
<1>14. QED
  BY <1>1, <1>2, <1>3, <1>4, <1>5, <1>6, <1>7, <1>8, <1>9, <1>10, <1>11,
     <1>12, <1>13 DEF WorkerStep

LEMMA CallerCancelSticks ==
  ASSUME TypeOK, LockInv, RegistryInv, CancelSticks, NEW c \in Callers, NewCall(c) \/ CallerStep(c)
  PROVE  CancelSticks'
<1> USE NullAssumption DEF TypeOK, CancelSticks, Submitting, Cancelling,
   Joining, registry, workers, callers, told
<1>1. ASSUME NEW j \in Jobs, SubmitRefused(c, j) PROVE CancelSticks'
  BY <1>1 DEF SubmitRefused
<1>2. ASSUME NEW j \in Jobs, SubmitEnter(c, j) PROVE CancelSticks'
  BY <1>2 DEF SubmitEnter, Begin
<1>3. CASE SubmitAdd(c)
  <2>1. arg[c] \notin cancelOK
    BY <1>3, FreshUnknown DEF SubmitAdd, RegistryInv
  <2>2. QED
    BY <1>3, <2>1 DEF SubmitAdd, Goto
<1>4. CASE SubmitPut(c)
  BY <1>4 DEF SubmitPut, Return
<1>5. CASE SubmitFull(c)
  BY <1>5 DEF SubmitFull, Goto
<1>6. CASE SubmitRemove(c)
  BY <1>6 DEF SubmitRemove, Return
<1>7. ASSUME NEW j \in Jobs, CancelToken(c, j) PROVE CancelSticks'
  BY <1>7 DEF CancelToken, Begin
<1>8. CASE CancelGet(c)
  BY <1>8 DEF CancelGet, Return, Goto
<1>9. CASE CancelFlag(c)
  BY <1>9 DEF CancelFlag, Goto
<1>10. CASE CancelFlip(c)
  BY <1>10 DEF CancelFlip, FlipFrom, Return
<1>11. ASSUME NEW at \in Joining, ShutdownSignal(c, at) PROVE CancelSticks'
  BY <1>11 DEF ShutdownSignal, Begin
<1>12. CASE JoinExited(c)
  BY <1>12 DEF JoinExited, JoinNext
<1>13. CASE JoinTimeout(c)
  BY <1>13 DEF JoinTimeout, JoinNext
<1>14. CASE ShutdownReturn(c)
  BY <1>14 DEF ShutdownReturn, Return
<1> HIDE DEF TypeOK, CancelSticks, Submitting, Cancelling, Joining, registry,
   workers, callers, told
<1>15. QED
  BY <1>1, <1>2, <1>3, <1>4, <1>5, <1>6, <1>7, <1>8, <1>9, <1>10, <1>11,
     <1>12, <1>13, <1>14 DEF NewCall, CallerStep

LEMMA WorkerCancelSticks ==
  ASSUME TypeOK, CancelSticks, NEW w \in Workers, WorkerStep(w)
  PROVE  CancelSticks'
<1> USE NullAssumption DEF TypeOK, CancelSticks, InRun, registry, workers,
   callers, told
<1>1. CASE Get(w)
  BY <1>1 DEF Get
<1>2. CASE Empty(w)
  BY <1>2 DEF Empty
<1>3. CASE KeepWaiting(w)
  BY <1>3 DEF KeepWaiting, Step
<1>4. CASE Exit(w)
  BY <1>4 DEF Exit, Step
<1>5. CASE Decline(w)
  BY <1>5 DEF Decline, LoopAgain
<1>6. CASE ClaimCancelled(w)
  BY <1>6 DEF ClaimCancelled, Set, LoopAgain
<1>7. CASE Claim(w)
  BY <1>7 DEF Claim, Set, Step
<1>8. CASE RunCancelled(w)
  BY <1>8 DEF RunCancelled, Set, LoopAgain
<1>9. CASE Analyze(w)
  BY <1>9 DEF Analyze, Step
<1>10. CASE RunFails(w)
  BY <1>10 DEF RunFails, Set, LoopAgain
<1>11. CASE RunReturns(w)
  BY <1>11 DEF RunReturns, Step
<1>12. CASE HookEnds(w)
  BY <1>12 DEF HookEnds, Step
<1>13. CASE Publish(w)
  BY <1>13 DEF Publish, Set, LoopAgain
<1> HIDE DEF TypeOK, CancelSticks, InRun, registry, workers, callers, told
<1>14. QED
  BY <1>1, <1>2, <1>3, <1>4, <1>5, <1>6, <1>7, <1>8, <1>9, <1>10, <1>11,
     <1>12, <1>13 DEF WorkerStep

-----------------------------------------------------------------------------
(* The queue *)

LEMMA CallerQueueInv ==
  ASSUME TypeOK, LockInv, RegistryInv, QueueInv, NEW c \in Callers, NewCall(c) \/ CallerStep(c)
  PROVE  QueueInv'
<1> USE NullAssumption DEF TypeOK, LockInv, RegistryInv, QueueInv, Accepted,
   Submitting, Cancelling, Joining, registry, workers, callers, told
<1>1. ASSUME NEW j \in Jobs, SubmitRefused(c, j) PROVE QueueInv'
  <2>1. answer[j] = "none" /\ \A i \in 1..Len(queue) : queue[i] # j
    BY <1>1 DEF SubmitRefused, Fresh
  <2>2. QED
    BY <1>1, <2>1 DEF SubmitRefused
<1>2. ASSUME NEW j \in Jobs, SubmitEnter(c, j) PROVE QueueInv'
  BY <1>2 DEF SubmitEnter, Begin
<1>3. CASE SubmitAdd(c)
  BY <1>3 DEF SubmitAdd, Goto
<1>4. CASE SubmitPut(c)
  <2>1. arg[c] \in Jobs /\ answer[arg[c]] = "none"
        /\ jobs[arg[c]] \in {"queued", "cancelled"}
    BY <1>4 DEF SubmitPut
  <2>2. queue' = Append(queue, arg[c]) /\ Len(queue') = Len(queue) + 1
        /\ \A i \in 1..Len(queue) : queue'[i] = queue[i]
        /\ queue'[Len(queue) + 1] = arg[c]
    BY <1>4, <2>1 DEF SubmitPut
  <2>3. \A i \in 1..Len(queue) : queue[i] # arg[c]
    BY <2>1
  <2>4. \A i, k \in 1..Len(queue') : queue'[i] = queue'[k] => i = k
    BY <2>2, <2>3
  <2>5. \A i \in 1..Len(queue') :
          answer'[queue'[i]] = "accepted" /\ jobs'[queue'[i]] \in {"queued", "cancelled"}
    BY <1>4, <2>1, <2>2 DEF SubmitPut
  <2>6. QED
    BY <2>4, <2>5
<1>5. CASE SubmitFull(c)
  BY <1>5 DEF SubmitFull, Goto
<1>6. CASE SubmitRemove(c)
  BY <1>6 DEF SubmitRemove, Return
<1>7. ASSUME NEW j \in Jobs, CancelToken(c, j) PROVE QueueInv'
  BY <1>7 DEF CancelToken, Begin
<1>8. CASE CancelGet(c)
  BY <1>8 DEF CancelGet, Return, Goto
<1>9. CASE CancelFlag(c)
  BY <1>9 DEF CancelFlag, Goto
<1>10. CASE CancelFlip(c)
  BY <1>10 DEF CancelFlip, FlipFrom, Return
<1>11. ASSUME NEW at \in Joining, ShutdownSignal(c, at) PROVE QueueInv'
  BY <1>11 DEF ShutdownSignal, Begin
<1>12. CASE JoinExited(c)
  BY <1>12 DEF JoinExited, JoinNext
<1>13. CASE JoinTimeout(c)
  BY <1>13 DEF JoinTimeout, JoinNext
<1>14. CASE ShutdownReturn(c)
  BY <1>14 DEF ShutdownReturn, Return
<1> HIDE DEF TypeOK, LockInv, RegistryInv, QueueInv, Accepted, Submitting,
   Cancelling, Joining, registry, workers, callers, told
<1>15. QED
  BY <1>1, <1>2, <1>3, <1>4, <1>5, <1>6, <1>7, <1>8, <1>9, <1>10, <1>11,
     <1>12, <1>13, <1>14 DEF NewCall, CallerStep

LEMMA WorkerQueueInv ==
  ASSUME TypeOK, QueueInv, WorkerInv, NEW w \in Workers, WorkerStep(w)
  PROVE  QueueInv'
<1> USE NullAssumption DEF TypeOK, QueueInv, WorkerInv, Accepted, InRun,
   registry, workers, callers, told
<1>1. CASE Get(w)
  <2>1. queue' = Tail(queue) /\ Len(queue') = Len(queue) - 1
        /\ \A i \in 1..Len(queue') : queue'[i] = queue[i + 1]
    BY <1>1 DEF Get
  <2>2. QED
    BY <1>1, <2>1 DEF Get
<1>2. CASE Empty(w)
  BY <1>2 DEF Empty
<1>3. CASE KeepWaiting(w)
  BY <1>3 DEF KeepWaiting, Step
<1>4. CASE Exit(w)
  BY <1>4 DEF Exit, Step
<1>5. CASE Decline(w)
  BY <1>5 DEF Decline, LoopAgain
<1>6. CASE ClaimCancelled(w)
  BY <1>6 DEF ClaimCancelled, Set, LoopAgain
<1>7. CASE Claim(w)
  BY <1>7 DEF Claim, Set, Step
<1>8. CASE RunCancelled(w)
  BY <1>8 DEF RunCancelled, Set, LoopAgain
<1>9. CASE Analyze(w)
  BY <1>9 DEF Analyze, Step
<1>10. CASE RunFails(w)
  BY <1>10 DEF RunFails, Set, LoopAgain
<1>11. CASE RunReturns(w)
  BY <1>11 DEF RunReturns, Step
<1>12. CASE HookEnds(w)
  BY <1>12 DEF HookEnds, Step
<1>13. CASE Publish(w)
  BY <1>13 DEF Publish, Set, LoopAgain
<1> HIDE DEF TypeOK, QueueInv, WorkerInv, Accepted, InRun, registry, workers,
   callers, told
<1>14. QED
  BY <1>1, <1>2, <1>3, <1>4, <1>5, <1>6, <1>7, <1>8, <1>9, <1>10, <1>11,
     <1>12, <1>13 DEF WorkerStep

-----------------------------------------------------------------------------
(* Two facts about sequences *)

LEMMA RangeAppend ==
  ASSUME NEW S, NEW s \in Seq(S), NEW x \in S
  PROVE  Range(Append(s, x)) = Range(s) \cup {x}
<1> DEFINE t == Append(s, x)
<1>1. /\ DOMAIN s = 1..Len(s) /\ DOMAIN t = 1..(Len(s) + 1) /\ Len(s) \in Nat
      /\ t[Len(s) + 1] = x /\ \A i \in 1..Len(s) : t[i] = s[i]
  OBVIOUS
<1> HIDE DEF t
<1>2. ASSUME NEW y \in Range(t) PROVE y \in Range(s) \cup {x}
  <2>1. PICK i \in 1..(Len(s) + 1) : y = t[i]
    BY <1>1 DEF Range
  <2>2. CASE i = Len(s) + 1
    BY <1>1, <2>1, <2>2
  <2>3. CASE i \in 1..Len(s)
    BY <1>1, <2>1, <2>3 DEF Range
  <2>4. QED
    BY <1>1, <2>1, <2>2, <2>3
<1>3. x \in Range(t)
  <2>1. Len(s) + 1 \in DOMAIN t
    BY <1>1
  <2>2. QED
    BY <1>1, <2>1 DEF Range
<1>4. ASSUME NEW y \in Range(s) PROVE y \in Range(t)
  <2>1. PICK i \in 1..Len(s) : y = s[i]
    BY <1>1 DEF Range
  <2>2. i \in DOMAIN t /\ t[i] = y
    BY <1>1, <2>1
  <2>3. QED
    BY <2>2 DEF Range
<1>5. QED
  BY <1>2, <1>3, <1>4 DEF t

LEMMA RangeTail ==
  ASSUME NEW S, NEW s \in Seq(S), s # <<>>
  PROVE  Range(s) = Range(Tail(s)) \cup {Head(s)}
<1> DEFINE t == Tail(s)
<1>1. /\ DOMAIN s = 1..Len(s) /\ Len(s) \in Nat /\ Len(s) >= 1
      /\ DOMAIN t = 1..(Len(s) - 1) /\ Head(s) = s[1]
      /\ \A i \in 1..(Len(s) - 1) : t[i] = s[i + 1]
  OBVIOUS
<1> HIDE DEF t
<1>2. ASSUME NEW y \in Range(s) PROVE y \in Range(t) \cup {Head(s)}
  <2>1. PICK i \in 1..Len(s) : y = s[i]
    BY <1>1 DEF Range
  <2>2. CASE i = 1
    BY <1>1, <2>1, <2>2
  <2>3. CASE i # 1
    <3>1. i - 1 \in DOMAIN t /\ t[i - 1] = y
      BY <1>1, <2>1, <2>3
    <3>2. QED
      BY <3>1 DEF Range
  <2>4. QED
    BY <2>2, <2>3
<1>3. ASSUME NEW y \in Range(t) PROVE y \in Range(s)
  <2>1. PICK i \in 1..(Len(s) - 1) : y = t[i]
    BY <1>1 DEF Range
  <2>2. i + 1 \in DOMAIN s /\ s[i + 1] = y
    BY <1>1, <2>1
  <2>3. QED
    BY <2>2 DEF Range
<1>4. Head(s) \in Range(s)
  <2>1. 1 \in DOMAIN s
    BY <1>1
  <2>2. QED
    BY <1>1, <2>1 DEF Range
<1>5. QED
  BY <1>2, <1>3, <1>4 DEF t

-----------------------------------------------------------------------------
(* The workers *)

LEMMA CallerWorkerInv ==
  ASSUME TypeOK, LockInv, RegistryInv, WorkerInv, NEW c \in Callers, NewCall(c) \/ CallerStep(c)
  PROVE  WorkerInv'
<1> USE NullAssumption DEF TypeOK, LockInv, RegistryInv, WorkerInv, Accepted,
   Submitting, Cancelling, Joining, InRun, registry, workers, callers, told
<1>1. ASSUME NEW j \in Jobs, SubmitRefused(c, j) PROVE WorkerInv'
  <2>1. answer[j] = "none"
    BY <1>1 DEF SubmitRefused, Fresh
  <2>2. QED
    BY <1>1, <2>1 DEF SubmitRefused
<1>2. ASSUME NEW j \in Jobs, SubmitEnter(c, j) PROVE WorkerInv'
  BY <1>2 DEF SubmitEnter, Begin
<1>3. CASE SubmitAdd(c)
  BY <1>3 DEF SubmitAdd, Goto
<1>4. CASE SubmitPut(c)
  <2>1. arg[c] \in Jobs /\ answer[arg[c]] = "none"
    BY <1>4 DEF SubmitPut
  <2>2. queue' = Append(queue, arg[c]) /\ Len(queue') = Len(queue) + 1
        /\ \A i \in 1..Len(queue) : queue'[i] = queue[i]
        /\ queue'[Len(queue) + 1] = arg[c]
    BY <1>4, <2>1 DEF SubmitPut
  <2>3. \A w \in Workers : \A i \in 1..Len(queue') : queue'[i] # cur[w]
    BY <2>1, <2>2
  <2>4. QED
    BY <1>4, <2>1, <2>3 DEF SubmitPut
<1>5. CASE SubmitFull(c)
  BY <1>5 DEF SubmitFull, Goto
<1>6. CASE SubmitRemove(c)
  BY <1>6 DEF SubmitRemove, Return
<1>7. ASSUME NEW j \in Jobs, CancelToken(c, j) PROVE WorkerInv'
  BY <1>7 DEF CancelToken, Begin
<1>8. CASE CancelGet(c)
  BY <1>8 DEF CancelGet, Return, Goto
<1>9. CASE CancelFlag(c)
  BY <1>9 DEF CancelFlag, Goto
<1>10. CASE CancelFlip(c)
  BY <1>10 DEF CancelFlip, FlipFrom, Return
<1>11. ASSUME NEW at \in Joining, ShutdownSignal(c, at) PROVE WorkerInv'
  BY <1>11 DEF ShutdownSignal, Begin
<1>12. CASE JoinExited(c)
  BY <1>12 DEF JoinExited, JoinNext
<1>13. CASE JoinTimeout(c)
  BY <1>13 DEF JoinTimeout, JoinNext
<1>14. CASE ShutdownReturn(c)
  BY <1>14 DEF ShutdownReturn, Return
<1> HIDE DEF TypeOK, LockInv, RegistryInv, WorkerInv, Accepted, Submitting,
   Cancelling, Joining, InRun, registry, workers, callers, told
<1>15. QED
  BY <1>1, <1>2, <1>3, <1>4, <1>5, <1>6, <1>7, <1>8, <1>9, <1>10, <1>11,
     <1>12, <1>13, <1>14 DEF NewCall, CallerStep

LEMMA WorkerWorkerInv ==
  ASSUME TypeOK, QueueInv, WorkerInv, NEW w \in Workers, WorkerStep(w)
  PROVE  WorkerInv'
<1> USE NullAssumption DEF TypeOK, WorkerInv, Accepted, InRun, registry,
   workers, callers, told
<1>1. CASE Get(w)
  <2>b. /\ queue \in Seq(Jobs) /\ cur \in [Workers -> Jobs \cup {NoJob}]
        /\ cur[w] # NoJob <=> wpc[w] \in {"claim"} \cup InRun
    BY ONLY TypeOK, w \in Workers DEF TypeOK
  <2>a. queue # <<>> /\ queue' = Tail(queue) /\ cur'[w] = Head(queue) /\ cur[w] = NoJob
    BY ONLY <1>1, <2>b, w \in Workers DEF Get, InRun
  <2>c. Len(queue) >= 1 /\ Head(queue) = queue[1] /\ Len(Tail(queue)) = Len(queue) - 1
        /\ \A i \in 1..Len(Tail(queue)) : Tail(queue)[i] = queue[i + 1]
    BY ONLY <2>a, <2>b
  <2>1. queue # <<>> /\ queue' = Tail(queue) /\ cur'[w] = queue[1] /\ cur[w] = NoJob
        /\ Len(queue) >= 1 /\ Len(queue') = Len(queue) - 1
        /\ \A i \in 1..Len(queue') : queue'[i] = queue[i + 1]
    BY ONLY <2>a, <2>c
  <2>2. Accepted(queue[1]) /\ jobs[queue[1]] \in {"queued", "cancelled"} /\ queue[1] \in Jobs
    BY <2>1 DEF QueueInv
  <2>3. \A i \in 1..Len(queue') : queue'[i] # queue[1]
    BY <2>1 DEF QueueInv
  <2>4. \A v \in Workers : cur[v] # queue[1]
    <3>1. \A v \in Workers : \A i \in 1..Len(queue) : queue[i] # cur[v]
      BY DEF WorkerInv
    <3>2. 1 \in 1..Len(queue)
      BY <2>1 DEF TypeOK
    <3>3. QED
      BY ONLY <3>1, <3>2
  <2>5. QED
    BY <1>1, <2>1, <2>2, <2>3, <2>4 DEF Get
<1>2. CASE Empty(w)
  <2>1. /\ UNCHANGED <<jobs, queue, cur, answer>>
        /\ wpc[w] = "get" /\ wpc'[w] = "empty"
        /\ \A v \in Workers : v # w => wpc'[v] = wpc[v]
    BY <1>2 DEF Empty
  <2>2. ASSUME NEW j \in Jobs, jobs'[j] = "running"
        PROVE  \E v \in Workers : cur'[v] = j /\ wpc'[v] \in InRun
    <3>1. PICK v \in Workers : cur[v] = j /\ wpc[v] \in InRun
      BY <2>1, <2>2
    <3>2. v # w /\ wpc'[v] = wpc[v] /\ cur'[v] = j
      BY <2>1, <3>1
    <3>3. QED
      BY <3>1, <3>2
  <2>3. \A v \in Workers : wpc'[v] \in {"claim"} \cup InRun => wpc[v] = wpc'[v]
    BY <2>1
  <2>4. QED
    BY <2>1, <2>2, <2>3
<1>3. CASE KeepWaiting(w)
  <2>1. /\ UNCHANGED <<jobs, queue, cur, answer>>
        /\ wpc[w] = "empty" /\ wpc'[w] \in {"get", "exited"}
        /\ \A v \in Workers : v # w => wpc'[v] = wpc[v]
    BY <1>3 DEF KeepWaiting, Step
  <2>2. ASSUME NEW j \in Jobs, jobs'[j] = "running"
        PROVE  \E v \in Workers : cur'[v] = j /\ wpc'[v] \in InRun
    <3>1. PICK v \in Workers : cur[v] = j /\ wpc[v] \in InRun
      BY <2>1, <2>2
    <3>2. v # w /\ wpc'[v] = wpc[v] /\ cur'[v] = j
      BY <2>1, <3>1
    <3>3. QED
      BY <3>1, <3>2
  <2>3. \A v \in Workers : wpc'[v] \in {"claim"} \cup InRun => wpc[v] = wpc'[v]
    BY <2>1
  <2>4. QED
    BY <2>1, <2>2, <2>3
<1>4. CASE Exit(w)
  <2>1. /\ UNCHANGED <<jobs, queue, cur, answer>>
        /\ wpc[w] = "empty" /\ wpc'[w] \in {"get", "exited"}
        /\ \A v \in Workers : v # w => wpc'[v] = wpc[v]
    BY <1>4 DEF Exit, Step
  <2>2. ASSUME NEW j \in Jobs, jobs'[j] = "running"
        PROVE  \E v \in Workers : cur'[v] = j /\ wpc'[v] \in InRun
    <3>1. PICK v \in Workers : cur[v] = j /\ wpc[v] \in InRun
      BY <2>1, <2>2
    <3>2. v # w /\ wpc'[v] = wpc[v] /\ cur'[v] = j
      BY <2>1, <3>1
    <3>3. QED
      BY <3>1, <3>2
  <2>3. \A v \in Workers : wpc'[v] \in {"claim"} \cup InRun => wpc[v] = wpc'[v]
    BY <2>1
  <2>4. QED
    BY <2>1, <2>2, <2>3
<1>5. CASE Decline(w)
  BY <1>5 DEF Decline, LoopAgain
<1>6. CASE ClaimCancelled(w)
  BY <1>6 DEF ClaimCancelled, Set, LoopAgain
<1>7. CASE Claim(w)
  BY <1>7 DEF Claim, Set, Step
<1>8. CASE RunCancelled(w)
  BY <1>8 DEF RunCancelled, Set, LoopAgain
<1>9. CASE Analyze(w)
  BY <1>9 DEF Analyze, Step
<1>10. CASE RunFails(w)
  BY <1>10 DEF RunFails, Set, LoopAgain
<1>11. CASE RunReturns(w)
  BY <1>11 DEF RunReturns, Step
<1>12. CASE HookEnds(w)
  BY <1>12 DEF HookEnds, Step
<1>13. CASE Publish(w)
  BY <1>13 DEF Publish, Set, LoopAgain
<1> HIDE DEF TypeOK, WorkerInv, Accepted, InRun, registry, workers, callers,
   told
<1>14. QED
  BY <1>1, <1>2, <1>3, <1>4, <1>5, <1>6, <1>7, <1>8, <1>9, <1>10, <1>11,
     <1>12, <1>13 DEF WorkerStep

LEMMA WaitingPlace ==
  ASSUME TypeOK, NEW j \in Jobs
  PROVE  Waiting(j) <=> \E i \in 1..Len(queue) : queue[i] = j
BY DEF TypeOK, Waiting, Range

LEMMA CallerNoLostJob ==
  ASSUME TypeOK, LockInv, RegistryInv, NoLostJob, NEW c \in Callers, NewCall(c) \/ CallerStep(c)
  PROVE  NoLostJob'
<1> USE NullAssumption DEF TypeOK, NoLostJob, Waiting, Holds, Accepted, InRun,
   registry, workers, callers, told, Submitting, Cancelling, Joining, LockInv
<1>1. ASSUME NEW j \in Jobs, SubmitRefused(c, j) PROVE NoLostJob'
  BY <1>1 DEF SubmitRefused
<1>2. ASSUME NEW j \in Jobs, SubmitEnter(c, j) PROVE NoLostJob'
  BY <1>2 DEF SubmitEnter, Begin
<1>3. CASE SubmitAdd(c)
  BY <1>3 DEF SubmitAdd, Goto
<1>4. CASE SubmitPut(c)
  <2>1. arg[c] \in Jobs /\ Range(queue') = Range(queue) \cup {arg[c]}
    <3>1. arg[c] \in Jobs
      BY <1>4 DEF SubmitPut
    <3>2. QED
      BY <1>4, <3>1, RangeAppend DEF SubmitPut
  <2>2. QED
    BY <1>4, <2>1 DEF SubmitPut, Return
<1>5. CASE SubmitFull(c)
  BY <1>5 DEF SubmitFull, Goto
<1>6. CASE SubmitRemove(c)
  BY <1>6 DEF SubmitRemove, Return
<1>7. ASSUME NEW j \in Jobs, CancelToken(c, j) PROVE NoLostJob'
  BY <1>7 DEF CancelToken, Begin
<1>8. CASE CancelGet(c)
  BY <1>8 DEF CancelGet, Return, Goto
<1>9. CASE CancelFlag(c)
  BY <1>9 DEF CancelFlag, Goto
<1>10. CASE CancelFlip(c)
  BY <1>10 DEF CancelFlip, FlipFrom, Return
<1>11. ASSUME NEW at \in Joining, ShutdownSignal(c, at) PROVE NoLostJob'
  BY <1>11 DEF ShutdownSignal, Begin
<1>12. CASE JoinExited(c)
  BY <1>12 DEF JoinExited, JoinNext
<1>13. CASE JoinTimeout(c)
  BY <1>13 DEF JoinTimeout, JoinNext
<1>14. CASE ShutdownReturn(c)
  BY <1>14 DEF ShutdownReturn, Return
<1> HIDE DEF TypeOK, NoLostJob, Waiting, Holds, Accepted, InRun, registry,
   workers, callers, told, Submitting, Cancelling, Joining, LockInv
<1>15. QED
  BY <1>1, <1>2, <1>3, <1>4, <1>5, <1>6, <1>7, <1>8, <1>9, <1>10, <1>11,
     <1>12, <1>13, <1>14 DEF NewCall, CallerStep

LEMMA WorkerNoLostJob ==
  ASSUME TypeOK, WorkerInv, NoLostJob, NEW w \in Workers, WorkerStep(w)
  PROVE  NoLostJob'
<1> USE NullAssumption DEF TypeOK, NoLostJob, Waiting, Holds, Accepted, InRun,
   registry, workers, callers, told, WorkerInv
<1>1. CASE Get(w)
  <2>1. Range(queue) = Range(queue') \cup {cur'[w]} /\ cur[w] = NoJob
    <3>1. queue \in Seq(Jobs) /\ queue # <<>> /\ queue' = Tail(queue) /\ cur'[w] = Head(queue)
      BY <1>1 DEF Get
    <3>2. cur[w] = NoJob
      BY <1>1 DEF Get
    <3>3. QED
      BY <3>1, <3>2, RangeTail
  <2>2. QED
    BY <1>1, <2>1 DEF Get
<1>2. CASE Empty(w)
  BY <1>2 DEF Empty
<1>3. CASE KeepWaiting(w)
  BY <1>3 DEF KeepWaiting, Step
<1>4. CASE Exit(w)
  BY <1>4 DEF Exit, Step
<1>5. CASE Decline(w)
  BY <1>5 DEF Decline, LoopAgain
<1>6. CASE ClaimCancelled(w)
  BY <1>6 DEF ClaimCancelled, Set, LoopAgain
<1>7. CASE Claim(w)
  BY <1>7 DEF Claim, Set, Step
<1>8. CASE RunCancelled(w)
  BY <1>8 DEF RunCancelled, Set, LoopAgain
<1>9. CASE Analyze(w)
  BY <1>9 DEF Analyze, Step
<1>10. CASE RunFails(w)
  BY <1>10 DEF RunFails, Set, LoopAgain
<1>11. CASE RunReturns(w)
  BY <1>11 DEF RunReturns, Step
<1>12. CASE HookEnds(w)
  BY <1>12 DEF HookEnds, Step
<1>13. CASE Publish(w)
  BY <1>13 DEF Publish, Set, LoopAgain
<1> HIDE DEF TypeOK, NoLostJob, Waiting, Holds, Accepted, InRun, registry,
   workers, callers, told, WorkerInv
<1>14. QED
  BY <1>1, <1>2, <1>3, <1>4, <1>5, <1>6, <1>7, <1>8, <1>9, <1>10, <1>11,
     <1>12, <1>13 DEF WorkerStep

LEMMA UnstartedUnnotified ==
  ASSUME TypeOK, WorkerInv, HookInv, NEW j \in Jobs, jobs[j] \in {"queued", "cancelled"}
  PROVE  j \notin notified
<1> SUFFICES ASSUME j \in notified PROVE FALSE
  OBVIOUS
<1>1. jobs[j] # "done" /\ jobs[j] # "running"
  OBVIOUS
<1>2. PICK w \in Workers : cur[w] = j /\ wpc[w] = "publish"
  BY <1>1 DEF HookInv
<1>3. QED
  BY <1>1, <1>2 DEF WorkerInv, InRun

LEMMA GetUnstarted ==
  ASSUME TypeOK, QueueInv, WorkerInv, HookInv, NEW w \in Workers, Get(w)
  PROVE  cur[w] = NoJob /\ cur'[w] \in Jobs /\ cur'[w] \notin notified
<1>1. queue \in Seq(Jobs) /\ queue # <<>> /\ cur'[w] = Head(queue) /\ cur[w] = NoJob
  BY NullAssumption DEF Get, TypeOK, InRun
<1>2. Head(queue) = queue[1] /\ 1 \in 1..Len(queue) /\ queue[1] \in Jobs
  BY <1>1
<1>3. jobs[queue[1]] \in {"queued", "cancelled"}
  BY <1>2 DEF QueueInv
<1>4. QED
  BY <1>1, <1>2, <1>3, UnstartedUnnotified

LEMMA ClaimUnstarted ==
  ASSUME TypeOK, WorkerInv, HookInv, NEW w \in Workers, Claim(w)
  PROVE  /\ cur[w] \in Jobs /\ jobs[cur[w]] = "queued" /\ cur[w] \notin notified
         /\ jobs' = [jobs EXCEPT ![cur[w]] = "running"] /\ notified' = notified
         /\ cur' = cur /\ wpc' = [wpc EXCEPT ![w] = "poll"]
<1>1. cur[w] \in Jobs /\ jobs[cur[w]] = "queued"
  BY NullAssumption DEF Claim, TypeOK, InRun
<1>2. QED
  BY <1>1, UnstartedUnnotified DEF Claim, Set, Step, told

-----------------------------------------------------------------------------
(* The completion hook *)

LEMMA CallerHookInv ==
  ASSUME TypeOK, LockInv, RegistryInv, WorkerInv, HookInv, NEW c \in Callers, NewCall(c) \/ CallerStep(c)
  PROVE  HookInv'
<1> USE NullAssumption DEF TypeOK, HookInv, Submitting, Cancelling, Joining,
   InRun, registry, workers, callers, told
<1>1. ASSUME NEW j \in Jobs, SubmitRefused(c, j) PROVE HookInv'
  BY <1>1 DEF SubmitRefused
<1>2. ASSUME NEW j \in Jobs, SubmitEnter(c, j) PROVE HookInv'
  BY <1>2 DEF SubmitEnter, Begin
<1>3. CASE SubmitAdd(c)
  <2>1. arg[c] \in Jobs /\ jobs[arg[c]] = "absent"
    BY <1>3, FreshUnknown DEF SubmitAdd, RegistryInv
  <2>2. QED
    BY <1>3, <2>1 DEF SubmitAdd, Goto
<1>4. CASE SubmitPut(c)
  BY <1>4 DEF SubmitPut, Return
<1>5. CASE SubmitFull(c)
  BY <1>5 DEF SubmitFull, Goto
<1>6. CASE SubmitRemove(c)
  <2>1. arg[c] \in Jobs /\ jobs[arg[c]] \in {"queued", "cancelled"}
    BY <1>6 DEF SubmitRemove, RegistryInv
  <2>2. QED
    BY <1>6, <2>1 DEF SubmitRemove
<1>7. ASSUME NEW j \in Jobs, CancelToken(c, j) PROVE HookInv'
  BY <1>7 DEF CancelToken, Begin
<1>8. CASE CancelGet(c)
  BY <1>8 DEF CancelGet, Return, Goto
<1>9. CASE CancelFlag(c)
  BY <1>9 DEF CancelFlag, Goto
<1>10. CASE CancelFlip(c)
  BY <1>10 DEF CancelFlip, FlipFrom, Return
<1>11. ASSUME NEW at \in Joining, ShutdownSignal(c, at) PROVE HookInv'
  BY <1>11 DEF ShutdownSignal, Begin
<1>12. CASE JoinExited(c)
  BY <1>12 DEF JoinExited, JoinNext
<1>13. CASE JoinTimeout(c)
  BY <1>13 DEF JoinTimeout, JoinNext
<1>14. CASE ShutdownReturn(c)
  BY <1>14 DEF ShutdownReturn, Return
<1> HIDE DEF TypeOK, HookInv, Submitting, Cancelling, Joining, InRun, registry,
   workers, callers, told
<1>15. QED
  BY <1>1, <1>2, <1>3, <1>4, <1>5, <1>6, <1>7, <1>8, <1>9, <1>10, <1>11,
     <1>12, <1>13, <1>14 DEF NewCall, CallerStep

LEMMA WorkerHookInv ==
  ASSUME TypeOK, QueueInv, WorkerInv, HookInv, NEW w \in Workers, WorkerStep(w)
  PROVE  HookInv'
<1> USE NullAssumption DEF TypeOK, HookInv, WorkerInv, InRun, registry,
   workers, callers, told
<1>1. CASE Get(w)
  <2>1. cur[w] = NoJob /\ cur'[w] \in Jobs /\ cur'[w] \notin notified
    BY <1>1, GetUnstarted
  <2>2. QED
    BY <1>1, <2>1 DEF Get
<1>2. CASE Empty(w)
  BY <1>2 DEF Empty
<1>3. CASE KeepWaiting(w)
  BY <1>3 DEF KeepWaiting, Step
<1>4. CASE Exit(w)
  BY <1>4 DEF Exit, Step
<1>5. CASE Decline(w)
  BY <1>5 DEF Decline, LoopAgain
<1>6. CASE ClaimCancelled(w)
  BY <1>6 DEF ClaimCancelled, Set, LoopAgain
<1>7. CASE Claim(w)
  <2>1. cur[w] \in Jobs /\ jobs[cur[w]] = "queued" /\ cur[w] \notin notified
        /\ jobs' = [jobs EXCEPT ![cur[w]] = "running"] /\ notified' = notified
        /\ cur' = cur /\ wpc' = [wpc EXCEPT ![w] = "poll"]
    BY <1>7, ClaimUnstarted
  <2>2. \A j \in notified : jobs'[j] = "done"
          \/ \E v \in Workers : cur'[v] = j /\ wpc'[v] = "publish"
    BY <2>1
  <2>3. \A v \in Workers : v # w => cur[v] # cur[w]
    BY <2>1
  <2>4. QED
    BY <2>1, <2>2, <2>3
<1>8. CASE RunCancelled(w)
  BY <1>8 DEF RunCancelled, Set, LoopAgain
<1>9. CASE Analyze(w)
  BY <1>9 DEF Analyze, Step
<1>10. CASE RunFails(w)
  BY <1>10 DEF RunFails, Set, LoopAgain
<1>11. CASE RunReturns(w)
  BY <1>11 DEF RunReturns, Step
<1>12. CASE HookEnds(w)
  BY <1>12 DEF HookEnds, Step
<1>13. CASE Publish(w)
  BY <1>13 DEF Publish, Set, LoopAgain
<1> HIDE DEF TypeOK, HookInv, WorkerInv, InRun, registry, workers, callers, told
<1>14. QED
  BY <1>1, <1>2, <1>3, <1>4, <1>5, <1>6, <1>7, <1>8, <1>9, <1>10, <1>11,
     <1>12, <1>13 DEF WorkerStep

-----------------------------------------------------------------------------
(* Shutdown *)

LEMMA CallerShutdownInv ==
  ASSUME TypeOK, LockInv, ShutdownInv, NEW c \in Callers, NewCall(c) \/ CallerStep(c)
  PROVE  ShutdownInv'
<1> USE NullAssumption, WorkersAssumption DEF TypeOK, ShutdownInv, Workers,
   Submitting, Cancelling, Joining, registry, workers, callers, told
<1>1. ASSUME NEW j \in Jobs, SubmitRefused(c, j) PROVE ShutdownInv'
  BY <1>1 DEF SubmitRefused
<1>2. ASSUME NEW j \in Jobs, SubmitEnter(c, j) PROVE ShutdownInv'
  BY <1>2 DEF SubmitEnter, Begin
<1>3. CASE SubmitAdd(c)
  BY <1>3 DEF SubmitAdd, Goto
<1>4. CASE SubmitPut(c)
  <2>1. ~down
    BY <1>4 DEF SubmitPut, LockInv
  <2>2. QED
    BY <1>4, <2>1 DEF SubmitPut, Return
<1>5. CASE SubmitFull(c)
  BY <1>5 DEF SubmitFull, Goto
<1>6. CASE SubmitRemove(c)
  BY <1>6 DEF SubmitRemove, Return
<1>7. ASSUME NEW j \in Jobs, CancelToken(c, j) PROVE ShutdownInv'
  BY <1>7 DEF CancelToken, Begin
<1>8. CASE CancelGet(c)
  <2>1. CASE Return(c)
    BY <1>8, <2>1 DEF CancelGet, Return
  <2>2. CASE Goto(c, "flag")
    BY <1>8, <2>2 DEF CancelGet, Goto
  <2>3. QED
    BY <1>8, <2>1, <2>2 DEF CancelGet
<1>9. CASE CancelFlag(c)
  BY <1>9 DEF CancelFlag, Goto
<1>10. CASE CancelFlip(c)
  BY <1>10 DEF CancelFlip, FlipFrom, Return
<1>11. ASSUME NEW at \in Joining, ShutdownSignal(c, at) PROVE ShutdownInv'
  BY <1>11 DEF ShutdownSignal, Begin
<1>12. CASE JoinExited(c)
  BY <1>12 DEF JoinExited, JoinNext
<1>13. CASE JoinTimeout(c)
  BY <1>13 DEF JoinTimeout, JoinNext
<1>14. CASE ShutdownReturn(c)
  BY <1>14 DEF ShutdownReturn, Return
<1> HIDE DEF TypeOK, ShutdownInv, Workers, Submitting, Cancelling, Joining,
   registry, workers, callers, told
<1>15. QED
  BY <1>1, <1>2, <1>3, <1>4, <1>5, <1>6, <1>7, <1>8, <1>9, <1>10, <1>11,
     <1>12, <1>13, <1>14 DEF NewCall, CallerStep

LEMMA WorkerShutdownInv ==
  ASSUME TypeOK, ShutdownInv, NEW w \in Workers, WorkerStep(w)
  PROVE  ShutdownInv'
<1> USE NullAssumption DEF TypeOK, ShutdownInv, InRun, registry, workers,
   callers, told
<1>1. CASE Get(w)
  BY <1>1 DEF Get
<1>2. CASE Empty(w)
  BY <1>2 DEF Empty
<1>3. CASE KeepWaiting(w)
  BY <1>3 DEF KeepWaiting, Step
<1>4. CASE Exit(w)
  BY <1>4 DEF Exit, Step
<1>5. CASE Decline(w)
  BY <1>5 DEF Decline, LoopAgain
<1>6. CASE ClaimCancelled(w)
  BY <1>6 DEF ClaimCancelled, Set, LoopAgain
<1>7. CASE Claim(w)
  BY <1>7 DEF Claim, Set, Step
<1>8. CASE RunCancelled(w)
  BY <1>8 DEF RunCancelled, Set, LoopAgain
<1>9. CASE Analyze(w)
  BY <1>9 DEF Analyze, Step
<1>10. CASE RunFails(w)
  BY <1>10 DEF RunFails, Set, LoopAgain
<1>11. CASE RunReturns(w)
  BY <1>11 DEF RunReturns, Step
<1>12. CASE HookEnds(w)
  BY <1>12 DEF HookEnds, Step
<1>13. CASE Publish(w)
  BY <1>13 DEF Publish, Set, LoopAgain
<1> HIDE DEF TypeOK, ShutdownInv, InRun, registry, workers, callers, told
<1>14. QED
  BY <1>1, <1>2, <1>3, <1>4, <1>5, <1>6, <1>7, <1>8, <1>9, <1>10, <1>11,
     <1>12, <1>13 DEF WorkerStep

-----------------------------------------------------------------------------
(* The inductive invariant, and what follows from it *)

LEMMA InitIInv == Init => IInv
<1> SUFFICES ASSUME Init PROVE IInv
  OBVIOUS
<1>1. TypeOK
  BY InitTypeOK
<1>2. queue = <<>> /\ Len(queue) = 0 /\ 1..Len(queue) = {}
  BY DEF Init
<1>3. LockInv /\ RegistryInv /\ CancelSticks
  BY NullAssumption
     DEF Init, LockInv, RegistryInv, CancelSticks, Submitting, Cancelling, Accepted
<1>4. QueueInv /\ NoLostJob /\ HookInv
  BY <1>2 DEF Init, QueueInv, NoLostJob, Accepted, HookInv
<1>5. WorkerInv
  BY <1>2 DEF Init, WorkerInv, InRun
<1>6. ShutdownInv
  BY WorkersAssumption DEF Init, ShutdownInv, Workers
<1>7. QED
  BY <1>1, <1>3, <1>4, <1>5, <1>6 DEF IInv

LEMMA CallerIInv ==
  ASSUME IInv, NEW c \in Callers, NewCall(c) \/ CallerStep(c)
  PROVE  IInv'
BY CallerTypeOK, CallerLockInv, CallerRegistryInv, CallerCancelSticks, CallerQueueInv,
   CallerWorkerInv, CallerNoLostJob, CallerHookInv, CallerShutdownInv DEF IInv

LEMMA WorkerIInv ==
  ASSUME IInv, NEW w \in Workers, WorkerStep(w)
  PROVE  IInv'
<1>1. LockInv'
  BY WorkerFrame DEF IInv, LockInv, callers
<1>2. QED
  BY <1>1, WorkerTypeOK, WorkerRegistryInv, WorkerCancelSticks, WorkerQueueInv,
     WorkerWorkerInv, WorkerNoLostJob, WorkerHookInv, WorkerShutdownInv DEF IInv

LEMMA StutterIInv ==
  ASSUME IInv, UNCHANGED vars
  PROVE  IInv'
<1> USE DEF vars, registry, workers, callers, told
<1>1. TypeOK' /\ LockInv' /\ CancelSticks' /\ ShutdownInv'
  BY DEF IInv, TypeOK, LockInv, CancelSticks, ShutdownInv
<1>2. RegistryInv' /\ QueueInv' /\ WorkerInv'
  BY DEF IInv, RegistryInv, QueueInv, WorkerInv, Known, Accepted
<1>3. NoLostJob' /\ HookInv'
  BY DEF IInv, NoLostJob, HookInv, Accepted, Waiting, Holds
<1>4. QED
  BY <1>1, <1>2, <1>3 DEF IInv

\* The parts of IInv hold together in every reachable state.
THEOREM Inductive == Spec => []IInv
<1>1. IInv /\ [Next]_vars => IInv'
  BY CallerIInv, WorkerIInv, StutterIInv DEF Next
<1>2. QED
  BY InitIInv, <1>1, PTL DEF Spec

\* One worker per job, and RUNNING while it is in its hands (queue.py:142-180).
THEOREM SingleOwnership == Spec => []SingleOwner
<1>1. IInv => SingleOwner
  <2> SUFFICES ASSUME IInv PROVE SingleOwner
    OBVIOUS
  <2>1. ASSUME NEW w \in Workers, cur[w] # NoJob PROVE ~Waiting(cur[w])
    <3>1. cur[w] \in Jobs
      BY <2>1 DEF IInv, TypeOK
    <3>2. QED
      BY <3>1, WaitingPlace DEF IInv, WorkerInv
  <2>2. ASSUME NEW j \in Jobs
        PROVE  jobs[j] = "running" <=> \E w \in Workers : Holds(w, j) /\ wpc[w] \in InRun
    BY DEF IInv, WorkerInv, Holds
  <2>3. QED
    BY <2>1, <2>2 DEF SingleOwner, IInv, WorkerInv
<1>2. QED
  BY <1>1, Inductive, PTL

\* An accepted job that reads QUEUED is on its way to a worker: none is lost
\* between submit, the queue and start_if_runnable.
THEOREM NoJobLost == Spec => []NoLostJob
BY Inductive, PTL DEF IInv

\* A reader that sees DONE knows that the completion hook has run.
THEOREM DoneAfterHook == Spec => []DoneMeansNotified
<1>1. IInv => DoneMeansNotified
  <2> SUFFICES ASSUME IInv PROVE DoneMeansNotified
    OBVIOUS
  <2>1. \A j \in notified : jobs[j] \in {"running", "done"}
    BY DEF IInv, HookInv, WorkerInv, InRun
  <2>2. QED
    BY <2>1 DEF DoneMeansNotified, IInv, HookInv
<1>2. QED
  BY <1>1, Inductive, PTL

\* After a cancel that returned True no worker can start the job.
THEOREM CancelIsFinal == Spec => []CancelSticks
BY Inductive, PTL DEF IInv

\* QueueFull and the refusal of a closing queue roll the registry back.
THEOREM RejectionLeavesNothing == Spec => []RejectedStaysOut
<1>1. IInv => RejectedStaysOut
  <2> SUFFICES ASSUME IInv, NEW j \in Jobs, answer[j] \in {"full", "refused"}
               PROVE  jobs[j] = "absent" /\ ~Waiting(j)
    BY DEF RejectedStaysOut
  <2>1. jobs[j] = "absent"
    BY DEF IInv, RegistryInv
  <2>2. ~Waiting(j)
    BY WaitingPlace DEF IInv, QueueInv, Accepted
  <2>3. QED
    BY <2>1, <2>2
<1>2. QED
  BY <1>1, Inductive, PTL

\* queue.Empty after the shutdown signal: the queue stays empty.
THEOREM LateEmptyIsFinal == Spec => []EmptyAfterSignalIsFinal
<1>1. IInv => EmptyAfterSignalIsFinal
  BY DEF IInv, ShutdownInv, EmptyAfterSignalIsFinal
<1>2. QED
  BY <1>1, Inductive, PTL

\* shutdown() returned True: nothing runs any more and no alert is half sent.
THEOREM QuietAfterShutdown == Spec => []TrueShutdownIsQuiet
<1>1. IInv => TrueShutdownIsQuiet
  <2> SUFFICES ASSUME IInv, stopped
               PROVE  /\ \A w \in Workers : wpc[w] = "exited"
                      /\ \A j \in Jobs : jobs[j] # "running"
                      /\ \A j \in notified : jobs[j] = "done"
    BY DEF TrueShutdownIsQuiet
  <2>1. \A w \in Workers : wpc[w] = "exited"
    BY DEF IInv, ShutdownInv
  <2>2. \A j \in Jobs : jobs[j] # "running"
    BY <2>1 DEF IInv, WorkerInv, InRun
  <2>3. \A j \in notified : jobs[j] = "done"
    BY <2>1 DEF IInv, HookInv
  <2>4. QED
    BY <2>1, <2>2, <2>3
<1>2. QED
  BY <1>1, Inductive, PTL

-----------------------------------------------------------------------------
(* The refinement of JobLifecycle *)

Seen == <<ObservedStatus, notified, down>>

\* A step that changes the status of no accepted job, accepts none, runs no
\* hook and leaves the flag alone is none of the observer's.
LEMMA Invisible ==
  ASSUME TypeOK, answer' = answer, notified' = notified, down' = down,
         \A j \in Jobs : Accepted(j) => jobs'[j] = jobs[j]
  PROVE  UNCHANGED Seen
BY DEF Seen, ObservedStatus, Accepted

\* A status written to one accepted job is seen as such.
LEMMA StatusSeen ==
  ASSUME TypeOK, NEW i \in Jobs, Accepted(i), NEW s,
         jobs' = [jobs EXCEPT ![i] = s], answer' = answer
  PROVE  ObservedStatus' = [ObservedStatus EXCEPT ![i] = s]
BY DEF TypeOK, ObservedStatus, Accepted

LEMMA CallerRefines ==
  ASSUME IInv, NEW c \in Callers, NewCall(c) \/ CallerStep(c)
  PROVE  Observed!Next \/ UNCHANGED Seen
<1> USE DEF IInv
<1>1. notified' = notified
  BY CallerFrame
<1>2. ASSUME NEW j \in Jobs, SubmitRefused(c, j) PROVE UNCHANGED Seen
  <2>1. answer[j] = "none" /\ jobs' = jobs /\ answer' = [answer EXCEPT ![j] = "refused"]
        /\ down' = down
    BY <1>2 DEF SubmitRefused, Fresh, registry
  <2>2. ObservedStatus' = ObservedStatus
    BY <2>1 DEF ObservedStatus, Accepted, TypeOK
  <2>3. QED
    BY <1>1, <2>1, <2>2 DEF Seen
<1>3. ASSUME NEW j \in Jobs, SubmitEnter(c, j) \/ CancelToken(c, j) PROVE UNCHANGED Seen
  BY <1>1, <1>3, Invisible DEF SubmitEnter, CancelToken, registry, told
<1>4. CASE SubmitAdd(c)
  <2>1. arg[c] \in Jobs /\ ~Accepted(arg[c])
    BY <1>4, NullAssumption DEF SubmitAdd, TypeOK, LockInv, Submitting, Accepted
  <2>2. QED
    BY <1>1, <1>4, <2>1, Invisible DEF SubmitAdd, TypeOK, told
<1>5. CASE SubmitPut(c)
  <2>1. /\ arg[c] \in Jobs /\ answer[arg[c]] = "none" /\ ~down
        /\ jobs[arg[c]] \in {"queued", "cancelled"}
    BY <1>5, NullAssumption DEF SubmitPut, TypeOK, LockInv, RegistryInv, Submitting
  <2>2. jobs' = jobs /\ down' = down /\ answer' = [answer EXCEPT ![arg[c]] = "accepted"]
    BY <1>5 DEF SubmitPut, registry
  <2>3. /\ ObservedStatus[arg[c]] = "absent"
        /\ ObservedStatus' = [ObservedStatus EXCEPT ![arg[c]] = jobs[arg[c]]]
    BY <2>1, <2>2 DEF ObservedStatus, Accepted, TypeOK
  <2>4. Observed!Accept(arg[c])
    BY <1>1, <2>1, <2>2, <2>3 DEF Observed!Accept
  <2>5. QED
    BY <2>1, <2>4 DEF Observed!Next
<1>6. CASE SubmitFull(c) \/ CancelGet(c) \/ CancelFlag(c)
  BY <1>1, <1>6, Invisible DEF SubmitFull, CancelGet, CancelFlag, registry, told
<1>7. CASE SubmitRemove(c)
  <2>1. arg[c] \in Jobs /\ answer[arg[c]] = "none"
    BY <1>7, NullAssumption DEF SubmitRemove, TypeOK, LockInv, Submitting
  <2>2. /\ jobs' = [jobs EXCEPT ![arg[c]] = "absent"] /\ down' = down
        /\ answer' = [answer EXCEPT ![arg[c]] = "full"]
    BY <1>7 DEF SubmitRemove
  <2>3. ObservedStatus' = ObservedStatus
    BY <2>1, <2>2 DEF ObservedStatus, Accepted, TypeOK
  <2>4. QED
    BY <1>1, <2>2, <2>3 DEF Seen
<1>8. CASE CancelFlip(c)
  <2>1. arg[c] \in Jobs /\ answer' = answer /\ down' = down
    BY <1>8, NullAssumption DEF CancelFlip, FlipFrom, TypeOK, Cancelling
  <2>2. CASE jobs[arg[c]] = "queued" /\ Accepted(arg[c])
    <3>1. jobs' = [jobs EXCEPT ![arg[c]] = "cancelled"]
      BY <1>8, <2>2 DEF CancelFlip, FlipFrom
    <3>2. ObservedStatus' = [ObservedStatus EXCEPT ![arg[c]] = "cancelled"]
      BY <2>1, <2>2, <3>1, StatusSeen
    <3>3. Observed!CancelQueued(arg[c])
      BY <1>1, <2>1, <2>2, <3>2 DEF Observed!CancelQueued, ObservedStatus
    <3>4. QED
      BY <2>1, <3>3 DEF Observed!Next
  <2>3. CASE ~(jobs[arg[c]] = "queued" /\ Accepted(arg[c]))
    <3>1. \A j \in Jobs : Accepted(j) => jobs'[j] = jobs[j]
      BY <1>8, <2>1, <2>3 DEF CancelFlip, FlipFrom, TypeOK
    <3>2. QED
      BY <1>1, <2>1, <3>1, Invisible
  <2>4. QED
    BY <2>2, <2>3
<1>9. ASSUME NEW at \in Joining, ShutdownSignal(c, at) PROVE Observed!Next
  <2>1. jobs' = jobs /\ answer' = answer /\ down' = TRUE
    BY <1>9 DEF ShutdownSignal, registry, told
  <2>2. ObservedStatus' = ObservedStatus
    BY <2>1 DEF ObservedStatus, Accepted
  <2>3. QED
    BY <1>1, <2>1, <2>2 DEF Observed!Next, Observed!Close
<1>10. CASE JoinExited(c) \/ JoinTimeout(c) \/ ShutdownReturn(c)
  BY <1>1, <1>10, Invisible
     DEF JoinExited, JoinTimeout, JoinNext, ShutdownReturn, registry, told
<1> HIDE DEF IInv
<1>11. QED
  BY <1>2, <1>3, <1>4, <1>5, <1>6, <1>7, <1>8, <1>9, <1>10 DEF NewCall, CallerStep

LEMMA WorkerRefines ==
  ASSUME IInv, NEW w \in Workers, WorkerStep(w)
  PROVE  Observed!Next \/ UNCHANGED Seen
<1> USE DEF IInv
<1>1. answer' = answer /\ down' = down
  BY WorkerFrame
<1>2. wpc[w] \in {"claim"} \cup InRun => cur[w] \in Jobs /\ Accepted(cur[w])
  BY NullAssumption DEF TypeOK, WorkerInv
<1>3. CASE Get(w) \/ Empty(w) \/ KeepWaiting(w) \/ Exit(w) \/ Decline(w) \/ Analyze(w)
           \/ RunReturns(w)
  BY <1>1, <1>3, Invisible
     DEF Get, Empty, KeepWaiting, Exit, Decline, Analyze, RunReturns, registry, told
<1>4. CASE ClaimCancelled(w)
  <2>1. cur[w] \in Jobs /\ Accepted(cur[w]) /\ jobs[cur[w]] = "queued"
        /\ jobs' = [jobs EXCEPT ![cur[w]] = "cancelled"] /\ notified' = notified
    BY <1>2, <1>4 DEF ClaimCancelled, Set, told
  <2>2. Observed!CancelQueued(cur[w])
    BY <1>1, <2>1, StatusSeen DEF Observed!CancelQueued, ObservedStatus
  <2>3. QED
    BY <2>1, <2>2 DEF Observed!Next
<1>5. CASE Claim(w)
  <2>1. cur[w] \in Jobs /\ Accepted(cur[w]) /\ jobs[cur[w]] = "queued"
        /\ jobs' = [jobs EXCEPT ![cur[w]] = "running"] /\ notified' = notified
    BY <1>2, <1>5 DEF Claim, Set, told
  <2>2. Observed!Start(cur[w])
    BY <1>1, <2>1, StatusSeen DEF Observed!Start, ObservedStatus
  <2>3. QED
    BY <2>1, <2>2 DEF Observed!Next
<1>6. ASSUME NEW s \in {"failed", "cancelled"}, wpc[w] \in {"poll", "analyze"},
             jobs' = [jobs EXCEPT ![cur[w]] = s], notified' = notified
      PROVE  Observed!Next
  <2>1. cur[w] \in Jobs /\ Accepted(cur[w]) /\ jobs[cur[w]] = "running"
        /\ cur[w] \notin notified
    BY <1>2, <1>6 DEF InRun, WorkerInv, HookInv
  <2>2. Observed!Abort(cur[w])
    BY <1>1, <1>6, <2>1, StatusSeen DEF Observed!Abort, ObservedStatus
  <2>3. QED
    BY <2>1, <2>2 DEF Observed!Next
<1>7. CASE RunCancelled(w) \/ RunFails(w)
  BY <1>6, <1>7 DEF RunCancelled, RunFails, Set, told
<1>8. CASE HookEnds(w)
  <2>1. cur[w] \in Jobs /\ Accepted(cur[w]) /\ jobs[cur[w]] = "running"
        /\ cur[w] \notin notified /\ jobs' = jobs /\ notified' = notified \cup {cur[w]}
    BY <1>2, <1>8 DEF HookEnds, InRun, WorkerInv, HookInv, registry
  <2>2. ObservedStatus' = ObservedStatus
    BY <1>1, <2>1 DEF ObservedStatus, Accepted
  <2>3. Observed!Notify(cur[w])
    BY <1>1, <2>1, <2>2 DEF Observed!Notify, ObservedStatus
  <2>4. QED
    BY <2>1, <2>3 DEF Observed!Next
<1>9. CASE Publish(w)
  <2>1. cur[w] \in Jobs /\ Accepted(cur[w]) /\ jobs[cur[w]] = "running"
        /\ cur[w] \in notified /\ notified' = notified
        /\ jobs' = [jobs EXCEPT ![cur[w]] = "done"]
    BY <1>2, <1>9 DEF Publish, Set, InRun, WorkerInv, HookInv, told
  <2>2. Observed!Complete(cur[w])
    BY <1>1, <2>1, StatusSeen DEF Observed!Complete, ObservedStatus
  <2>3. QED
    BY <2>1, <2>2 DEF Observed!Next
<1> HIDE DEF IInv
<1>10. QED
  BY <1>3, <1>4, <1>5, <1>7, <1>8, <1>9 DEF WorkerStep

\* What submit, cancel, shutdown and the pool do together is what JobLifecycle
\* allows: a final status is final, no job is started twice or after its
\* cancellation, DONE follows the hook, nothing is accepted after the signal.
THEOREM LifecycleRefinement == Spec => ImplementsLifecycle
<1>1. Init => Observed!Init
  BY DEF Init, Observed!Init, ObservedStatus, Accepted
<1>2. IInv /\ [Next]_vars => [Observed!Next]_(Observed!lifecycle)
  <2> SUFFICES ASSUME IInv, [Next]_vars
               PROVE  Observed!Next \/ UNCHANGED Seen
    BY DEF Seen, Observed!lifecycle
  <2>1. CASE UNCHANGED vars
    BY <2>1 DEF vars, registry, told, Seen, ObservedStatus, Accepted
  <2>2. QED
    BY <2>1, CallerRefines, WorkerRefines DEF Next
<1>3. QED
  BY Inductive, <1>1, <1>2, PTL DEF Spec, ImplementsLifecycle, Observed!Spec
=============================================================================
