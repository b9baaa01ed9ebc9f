SPECIFICATION FairSpec
CONSTANTS
  Comma = ","
  Space = " "
  Texts <- MCTexts
  Urls <- MCUrls
  Schemes <- MCSchemes
  Lower <- MCLower
  Trackers = {zone}
  MaxSub = 2
  MaxReload = 2
INVARIANTS
  TypeOK
  UniqueSource
  RoundTrip
  FollowsConfiguration
PROPERTIES
  CatchesUp
