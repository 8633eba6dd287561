SPECIFICATION FairSpec
CONSTANTS
  Jobs = {j1, j2}
  Foreign = foreign
INVARIANTS
  OutputMatchesReports
PROPERTIES
  OutputIsKept
  TempFileIsRemoved
CHECK_DEADLOCK FALSE
