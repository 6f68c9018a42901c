\* Two files, three lines, one rotation.
SPECIFICATION FairSpec
CONSTANTS
  f1 = f1
  f2 = f2
  ip1 = ip1
  ip2 = ip2
  Files <- MCFiles
  Content <- MCContent
  NoFinding = NoFinding
  Fmt = "auto"
  MaxSniff = 1
  MaxLines = 3
  MaxRotations = 1
  RuleSource <- MCRuleSource
  AnySource = AnySource
  NoAddress = NoAddress
  CorrelationRules <- MCCorrelationRules
CHECK_DEADLOCK FALSE
INVARIANTS
  TypeOK
  HandedInTurn
  SummaryAdds
PROPERTIES
  CorrelatedAsInBatch
  LinesReached
