SPECIFICATION Spec
CONSTANTS
  MaxInst = 2
  NWatch = 1
  MaxBuild = 2
  Slots = 1
INVARIANTS
  OneWriter
CHECK_DEADLOCK FALSE
