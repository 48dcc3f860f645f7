SPECIFICATION MCSpec
CONSTANTS
  Machines = {"push", "reactions", "worth"}
  f1 = f1
  f2 = f2
  Fanouts = {f1, f2}
  celebration = celebration
  connection = connection
  Kinds = {celebration, connection}
  AnyKind = celebration
  PushIds = {1, 2, 3, 4, 5}
  NoPush = NoPush
  MaxFaults = 2
  DayTicks = 1
  WindowTicks = 3
  MaxPerWindow = 2
  MaxPerDay = 1
  j1 = j1
  j2 = j2
  Performers = {j1, j2}
  ReactionIds = {1, 2, 3, 4}
  ReactionDayTicks = 2
  WeekTicks = 3
  DailyBudget = 1
  MaxHistory = 2
  b1 = b1
  b2 = b2
  d = d
  Opening <- MCOpening
  CardOwed <- MCCardOwed
  Earner <- MCEarner
  Unlinkable <- MCUnlinkable
  Known <- MCUnlinkable
  Passes = {"tick", "manual"}
  Callers = {"tick"}
  Errors = {"auth"}
  None = None
  Step = 96
  MaxAge = 192
  MaxEarned = 1
SYMMETRY Symmetry
INVARIANTS
  TypesOK
  TwoAWeek
  OneADay
  DailyBudgetHolds
  OverspendOncePerWeek
  BaselineHonest
CHECK_DEADLOCK FALSE
