SPECIFICATION RecoveringSpec
CONSTANTS
  now = now
  next = next
  season = season
  Version <- MCTwoVersions
  Starts <- MCTwoStarts
  Horizon = 1
  MaxDay = 1
  MaxCrash = 1
  Escapes = {"open"}
  None = None
PROPERTIES
  ImportEnds
  SettlesOnOffer
