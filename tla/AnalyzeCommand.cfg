\* Two files of up to two lines, given in either order, in every format.
SPECIFICATION CommandSpec
CONSTANTS
  Files = {f1, f2}
  Contents <- MCContents
  Unreadable = Unreadable
  Formats = {"auto", "syslog"}
  SampleSize = 1
  Today <- MCToday
  Docs <- MCDocs
  EnvFiles <- MCEnvFiles
  Environs <- MCEnvirons
CHECK_DEADLOCK FALSE
INVARIANTS
  EachLineOnce
  SameInAnyOrder
  DatedRight
  CommandTypeOK
  CodeTellsOutcome
  NoneSuppressed
