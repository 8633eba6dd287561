SPECIFICATION Spec
CONSTANTS
  x = x
  y = y
  z = z
  Handles = {x, y, z}
  Texts <- MCTexts
  Attributes <- MCAttributes
  Orders <- MCOrders
  MaxAttributes = 2
INVARIANTS
  OnlyOrdersAreShared
  DnIsReadBack
SYMMETRY Symmetric
CHECK_DEADLOCK FALSE
