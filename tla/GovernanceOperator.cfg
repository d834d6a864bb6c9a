\* Two workers, one collection, requests to cancel and to retry, fairness.
CONSTANTS
  w1 = w1  w2 = w2  c1 = c1  c2 = c2  c3 = c3  k1 = k1  k2 = k2
  Workers = {w1, w2}
  Sources = {c1}
  ScopeOf <- MCScopeOf
  Keys = {k1, k2}
  Vals = {1, 2}
  Answers <- MCMixed
  Skipped <- MCSkipped
  Rejected <- MCRejected
  Historic = FALSE
  Requests = {"cancel", "retry"}
  ClaimBound <- MCTwice
  NoJob = NoJob  NoSource = NoSource
SPECIFICATION FairSpec
INVARIANTS RowsWereApproved DoneMeansDone
PROPERTIES ImplementsQueue CandidateResolved
CHECK_DEADLOCK FALSE
