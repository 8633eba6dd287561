SPECIFICATION FairSpec
CONSTANTS
  Jobs = {j1, j2}
  MaxOps = 2
  MaxProgress = 1
INVARIANTS
  TypeOK
  NoThreadDestroyedRunning
  GuiNeverWaits
  ProgressBeforeResult
  ReportIsTheResult
PROPERTIES
  KeepsContract
  StartedIsReported
  ReportedIsDeleted
CHECK_DEADLOCK FALSE
