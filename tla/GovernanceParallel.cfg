\* Two workers, two collections of one scope, no operator.
CONSTANTS
  w1 = w1  w2 = w2  c1 = c1  c2 = c2  c3 = c3  k1 = k1  k2 = k2
  Workers = {w1, w2}
  Sources = {c1, c2}
  ScopeOf <- MCScopeOf
  Keys = {k1}
  Vals = {1, 2}
  Answers <- MCCorrected
  Skipped = {}
  Rejected = {}
  Historic = TRUE
  Requests = {}
  ClaimBound <- MCQualityTwice
  NoJob = NoJob  NoSource = NoSource
SPECIFICATION Spec
SYMMETRY BothSymmetries
INVARIANTS CandidatesKept SupersededByApproved CurrentVersionOpen
PROPERTY ImplementsStore
CHECK_DEADLOCK FALSE
