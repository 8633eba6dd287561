SPECIFICATION FairSpec
CONSTANTS
  WkdLookups = {w1}
  AdLookups = {a1}
  MaxTries = 2
  MaxLines = 3
INVARIANTS
  ResultIsTheAnswer
  AttributesAreWhole
  DirmngrIsWanted
PROPERTIES
  LookupsEnd
CHECK_DEADLOCK FALSE
