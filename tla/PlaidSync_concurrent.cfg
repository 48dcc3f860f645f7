SPECIFICATION Spec
CONSTANTS
  w1 = w1
  w2 = w2
  Workers = {w1, w2}
  N = 2
  MaxFaults = 1
  MayUnlink = TRUE
SYMMETRY JobSymmetry
PROPERTY ImplementsFeed
INVARIANT TypeOK
INVARIANT CursorNeverAhead
INVARIANT ReactedOncePerClaim
INVARIANT InitialHistorySilent
INVARIANT WeeklySpendNotUnderstated
CHECK_DEADLOCK FALSE
