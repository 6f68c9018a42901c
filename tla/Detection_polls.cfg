\* Watch mode: a streak of failures may span two feeds.
SPECIFICATION Spec
CONSTANTS
  Keys = {k1}
  Details = {}
  NoDetail = NoDetail
  Times = {0, 1, 2}
  Kinds = {"failure", "success"}
  Window = 2
  Threshold = 2
  Distinct = FALSE
  MinFailures = 2
  MaxGap = 1
  InOrder = TRUE
  MaxFeeds = 2
  MaxEvents = 4
SYMMETRY Symmetry
INVARIANT RapidSuccessSeen
