SPECIFICATION FairSpec
CONSTANTS
  MaxInst = 1
  NWatch = 2
  MaxBuild = 2
  Slots = 1
PROPERTIES
  LeavesExtracting
  LockIsReleased
CHECK_DEADLOCK FALSE
