SPECIFICATION Spec
CONSTANTS
  Jobs = {j1}
  MaxOps = 2
  MaxProgress = 1
INVARIANT CancelIsReported
CHECK_DEADLOCK FALSE
