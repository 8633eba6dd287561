SPECIFICATION FairSpec
CONSTANTS
  MaxKeys = 3
INVARIANTS
  ReportIsTrue
PROPERTIES
  NothingStartedAfterCancel
  KeepsContract
  EveryStartEnds
CHECK_DEADLOCK FALSE
