\* Two workers, one task, one planned slice and its next page; crashes, leases
\* that expire, probes, and fairness.
CONSTANTS
  w1 = w1  w2 = w2  o1 = o1  t1 = t1  s1 = s1  s2 = s2  s3 = s3  b1 = b1
  Workers = {w1, w2}
  Operators = {}
  Tasks = {t1}
  Slices = {s1, s2}
  Bindings = {b1}
  TaskOf <- MCTaskOf
  BindingOf <- MCBindingOf
  Planned = {s1}
  NextPage <- MCPaged
  Rank <- MCRank
  MaxAttempts = 2
  ClaimBound = 2
  ProbeAnswers = {"available"}
  NoSlice = NoSlice  NoTask = NoTask  NoWorker = NoWorker
SPECIFICATION FairSpec
INVARIANTS SingleOwner SuccessHasItsAttempt NoPageLost
PROPERTIES ClaimResolved NoStarvation ImplementsPromise
CHECK_DEADLOCK FALSE
