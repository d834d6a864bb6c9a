\* Two workers on three slices of a task.
CONSTANTS
  w1 = w1  w2 = w2  o1 = o1  t1 = t1  s1 = s1  s2 = s2  s3 = s3  b1 = b1
  Workers = {w1, w2}
  Operators = {}
  Tasks = {t1}
  Slices = {s1, s2, s3}
  Bindings = {b1}
  TaskOf <- MCTaskOf
  BindingOf <- MCBindingOf
  Planned = {s1, s2, s3}
  NextPage <- MCNoPages
  Rank <- MCRank
  MaxAttempts = 2
  ClaimBound = 1
  ProbeAnswers = {}
  NoSlice = NoSlice  NoTask = NoTask  NoWorker = NoWorker
SPECIFICATION Spec
INVARIANT FinishedTaskIsClosed
CHECK_DEADLOCK FALSE
