SPECIFICATION Spec
CONSTANTS
  Limit = 3
  MaxPatterns = 4
  MaxLength = 2
INVARIANT EveryPatternIsListed
CHECK_DEADLOCK FALSE
