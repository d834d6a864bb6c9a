\* Two schedulers that may die once, one closing worker, three days.
CONSTANTS
  p1 = p1  p2 = p2  w1 = w1  w2 = w2
  Schedulers = {p1, p2}
  Workers = {w1}
  LastDay = 3
  OpenDays = {1, 2, 3}
  YearEnd <- MCYearEnd
  Delay = 0
  Calendars <- MCCalendars
  Requests <- MCBackfill
  MaxStops = 1
  NoScheduler = NoScheduler  NoTask = NoTask
SPECIFICATION FairSpec
INVARIANTS WaitsForCommitOnly ScanIsComplete InsertedOnce NothingEarly CalendarHasNoHole WatermarkIsCollected
PROPERTY DateIsScheduled
CHECK_DEADLOCK FALSE
