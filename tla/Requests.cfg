SPECIFICATION FairSpec
CONSTANTS
  RequestSet <- MCRequestSet
  None = None
  UnsignedLong = 32
  Unsigned32 = 8
  LastDate = 3
  MaxDelay = 2
  MaxDataOps = 4
  Limit = 3
  MaxPatterns = 5
  MaxLength = 4
  IntSize = 5
INVARIANTS
  TruthfulReport
  ExpiryIsKept
  ListsAsAsked
  ListIsMerged
  BestKey
  DataIsPassedOn
  OneOwnerDeletes
  KeysInOrder
  GivesUpOnlyForALongPattern
PROPERTIES
  RequestsEnd
CHECK_DEADLOCK FALSE
