SPECIFICATION Spec
CONSTANTS
  MaxInst = 2
  NWatch = 1
  MaxBuild = 2
  Slots = 1
INVARIANTS
  RemovedForGood
CHECK_DEADLOCK FALSE
