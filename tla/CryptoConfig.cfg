SPECIFICATION Spec
CONSTANTS
  w1 = w1
  Lookups = {w1}
  Texts <- MCTexts
  Urls <- MCUrls
  MaxServers = 1
  MaxNumber = 1
  MaxUsed = 2
  None = None
  Default = Default
INVARIANTS
  SavedIsReadBack
  OnlyClearPullsAway
CHECK_DEADLOCK FALSE
