\* A call goes on; a worker may hang unless the property says otherwise.
SPECIFICATION FairSpec
CONSTANTS
  Jobs = {j1, j2}
  Callers = {c1, c2}
  NumWorkers = 1
  MaxPending = 1
  PollsMidRun = FALSE
  NoJob = NoJob
  NoCaller = NoCaller
PROPERTIES
  JobsFinish
  CallsReturn
  DrainsUnlessCaughtIdle
