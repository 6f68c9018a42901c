\* Files renamed, created anew and truncated in place at any time, with inode
\* numbers that change, are reused or are not reported at all.
SPECIFICATION FairSpec
CONSTANTS
  NumFiles = 3
  LineLen <- MCLineLen
  MaxSize = 6
  ChunkLimit = 2
  OutpacesRefill = TRUE
INVARIANT RightUnlessTorn
PROPERTIES
  ImplementsReader
  CatchesUp
