SPECIFICATION Spec
CONSTANTS
  now = now
  next = next
  season = season
  Version <- MCVersion
  Starts <- MCStarts
  Horizon = 1
  MaxDay = 2
  MaxCrash = 2
  Escapes = {"open", "unlink"}
  None = None
INVARIANTS
  TypeOK
  ReadyReadsPublished
  NothingLeftBehind
  Inductive
PROPERTIES
  PromotesThisDownload
  ImplementsTimetable
