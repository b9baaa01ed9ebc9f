SPECIFICATION Spec
CONSTANTS
  MaxInst = 2
  NWatch = 1
  MaxBuild = 2
  Slots = 2
INVARIANTS
  TypeOK
  OneWriterPerObject
  LockDiscipline
  WindowMatchesRows
  QuietIsCurrent
  AttributesSettle
  NoWaitIsLost
PROPERTIES
  NeverOlderRows
  NothingAfterClose
  ImplementsBoard
CHECK_DEADLOCK FALSE
