SPECIFICATION MCSpec
CONSTANTS
  Machines = {"retries", "sweeps", "ladder", "targets", "guardrails"}
  c1 = c1
  c2 = c2
  c3 = c3
  Calls = {c1, c2, c3}
  MaxAttempts = 3
  MaxTokens = 12
  Cost = 2
  Gain = 1
  MaxCalls = 10
  p1 = p1
  p2 = p2
  People = {p1, p2}
  Slots <- MCSlots
  Never = Never
  Threshold = 2
  ClassLimit = 2
  Broken = 24
  Abort = 1
  Step = 12
  MaxAge = 36
  MaxLinks = 2
  Routes = {"route"}
  Sample = {"nft", "debts", "metals", "realEstate", "kalshi"}
  j1 = j1
  j2 = j2
  Jobs = {j1, j2}
  Rungs = {1, 2, 4}
  GoalIds = {1, 2}
  MaxActive = 1
  Weeks = 4
  Backfill = 2
  Tokens = 1
  EarnEvery = 2
SYMMETRY Symmetry
INVARIANTS
  TypesOK
  AmplificationBounded
  NobodyStarves
PROPERTIES
  
  ProgressIsPermanent
  LimitsKept
CHECK_DEADLOCK FALSE
