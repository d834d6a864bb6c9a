\* Two worker processes and a slice; a minute of two seconds; two of: a death, a
\* lease that runs out while its worker lives, a request.
SPECIFICATION FairSpec
CONSTANTS
  Workers = {w1, w2}
  Bindings = {b1}
  Slices = {s1}
  BindingOf <- MCBindingOf
  Limits = {0, 1, 2}
  Period = 2
  Lease = 1
  MaxAttempts = 2
  BackoffCap = 2
  NonEmpty = {b1}
  Paged = {}
  Continuation = {}
  Answers <- MCAnswers
  NoSlice = NoSlice
  MaxCrashes = 1
  MaxLate = 1
  MaxTroubles = 2
  MaxRequests = 1
INVARIANTS RateKept SlotWithinPeriod ClaimsBounded
PROPERTIES KeepsBudget SliceSettles
CHECK_DEADLOCK FALSE
