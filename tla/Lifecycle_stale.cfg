SPECIFICATION FairPolling
CONSTANTS
  MaxInst = 2
  NWatch = 1
  MaxBuild = 2
  Slots = 1
PROPERTIES
  StaleReadsEnd
CHECK_DEADLOCK FALSE
