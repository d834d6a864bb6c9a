\* One worker, a value that is corrected and corrected back.
CONSTANTS
  w1 = w1  w2 = w2  c1 = c1  c2 = c2  c3 = c3  k1 = k1  k2 = k2
  Workers = {w1}
  Sources = {c1, c2, c3}
  ScopeOf <- MCScopeOf
  Keys = {k1}
  Vals = {1, 2}
  Answers <- MCCorrected
  Skipped = {}
  Rejected = {}
  Historic = FALSE
  Requests = {}
  ClaimBound <- MCOnce
  NoJob = NoJob  NoSource = NoSource
SPECIFICATION Spec
SYMMETRY SourceSymmetry
INVARIANT RevisionReachesTable
CHECK_DEADLOCK FALSE
