\* Rotation between the stat and the open of one poll.
SPECIFICATION Spec
CONSTANTS
  NumFiles = 3
  LineLen <- MCLineLen
  MaxSize = 6
  ChunkLimit = 4
  OutpacesRefill = TRUE
INVARIANT WholeLines
