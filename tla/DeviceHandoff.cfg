SPECIFICATION FairSpec
CONSTANTS
  Jobs = {j1, j2}
  Devices = {d1, d2}
  Gui = Gui
  NoDevice = NoDevice
  NoThread = NoThread
INVARIANTS
  UsedAtHome
  CleanAtResult
PROPERTIES
  DevicesComeHome
CHECK_DEADLOCK FALSE
