CONSTANTS
  Calls <- MCCalls
  PipeSize = 1
  Output = 4
  Null = Null
  Searches <- MCSearches
  Order <- MCOrder
  Places <- MCPlaces
  Obstacles <- MCObstacles
  Data = {0, 1, 3, 5}
  None = None
SPECIFICATION Spec
INVARIANTS NothingLeft ResultsExact SearchExact
PROPERTY CallsReturn
CHECK_DEADLOCK FALSE
