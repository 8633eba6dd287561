SPECIFICATION Spec
CONSTANTS
  Jobs = {j1}
  Foreign = foreign
INVARIANT ExistingOutputFails
CHECK_DEADLOCK FALSE
