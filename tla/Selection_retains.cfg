SPECIFICATION Spec
CONSTANTS
  None = None
  MaxNow = 3
  Month = 3
  Departure <- MCDeparture
  Stop <- MCStop
  Watches <- MCWatches
  OverFetch <- MCOverFetch
  Ends <- MCEnds
  Zone = {"u", "x"}
  Offset <- MCOffset
  UTC = "u"
  Day = 2
  HomeZone = "u"
PROPERTIES
  RetainsData
