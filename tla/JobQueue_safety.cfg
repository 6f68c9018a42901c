\* Three jobs through a queue of one place and two workers, two callers.
SPECIFICATION Spec
CONSTANTS
  Jobs = {j1, j2, j3}
  Callers = {c1, c2}
  NumWorkers = 2
  MaxPending = 1
  PollsMidRun = TRUE
  NoJob = NoJob
  NoCaller = NoCaller
SYMMETRY Symmetry
INVARIANTS
  TypeOK
  SingleOwner
  NoLostJob
  DoneMeansNotified
  CancelSticks
  RejectedStaysOut
  EmptyAfterSignalIsFinal
  TrueShutdownIsQuiet
PROPERTY
  ImplementsLifecycle
