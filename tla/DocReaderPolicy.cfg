\* Requests of the API under each quality policy.
SPECIFICATION Spec
CONSTANTS
  Batches = {"d1", "d2", "f", "c", "s", "l", "m", "b"}
  ItemOf <- MCItemOf
  RowsOf <- MCRowsOf
  Keys <- Pair
  Vals = {1, 2}
  Readers = {r1}
  Requests <- ApiRequests
  Bounds <- MCBounds
  MaxRuns = 2
  MaxTime = 2
  Null = Null
CHECK_DEADLOCK FALSE
PROPERTY StandardExposesPublished
