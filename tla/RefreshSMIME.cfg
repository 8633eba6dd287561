SPECIFICATION FairSpec
CONSTANTS
  Budget = 4
  MaxPatterns = 4
  MaxLength = 4
INVARIANTS
  CommandFits
  ReportIsTrue
PROPERTIES
  EveryRefreshEnds
CHECK_DEADLOCK FALSE
