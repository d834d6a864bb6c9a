\* One session with every kind of request beside the publications of eight batches.
SPECIFICATION Spec
CONSTANTS
  Batches = {"d1", "d2", "f", "c", "s", "l", "m", "b"}
  ItemOf <- MCItemOf
  RowsOf <- MCRowsOf
  Keys <- Pair
  Vals = {1, 2}
  Readers = {r1}
  Requests <- MCRequests
  Bounds <- MCBounds
  MaxRuns = 2
  MaxTime = 2
  Null = Null
INVARIANTS NoLookahead MetadataCoversAnswer LineageOnRecord
CHECK_DEADLOCK FALSE
