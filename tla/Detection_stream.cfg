\* Failures, successes and hits, with and without details, in up to three feeds.
SPECIFICATION Spec
CONSTANTS
  Keys = {k1, k2}
  Details = {d1, d2}
  NoDetail = NoDetail
  Times = {0, 2, 3}
  Kinds = {"failure", "success", "hit"}
  Window = 2
  Threshold = 2
  Distinct = TRUE
  MinFailures = 2
  MaxGap = 1
  InOrder = TRUE
  MaxFeeds = 3
  MaxEvents = 4
SYMMETRY Symmetry
INVARIANTS
  TypeOK
  ThresholdFiresOnce
  EscalationFiresOnce
  EvidenceInWindow
  EachHitReportedOnce
  RapidSuccessSound
