\* The drain that shutdown promises, against the race in _work_loop.
SPECIFICATION Spec
CONSTANTS
  Jobs = {j1}
  Callers = {c1, c2}
  NumWorkers = 1
  MaxPending = 1
  PollsMidRun = FALSE
  NoJob = NoJob
  NoCaller = NoCaller
INVARIANT DrainedOnExit
