SPECIFICATION FairSpec
CONSTANTS
  v1 = v1
  v2 = v2
  c1 = c1
  c2 = c2
  Vendors = {v1, v2}
  Calls = {c1, c2}
  Idle = Idle
  MaxAttempts = 2
  CallTicks = 1
  Threshold = 2
  BaseEjection = 2
  MaxEjection = 4
  ProbeTimeout = 2
  MaxPercent = 50
  RateTrips = TRUE
INVARIANT TypeOK
INVARIANT CeilingHolds
INVARIANT OneProbe
PROPERTY NeverRefusedForever
PROPERTY Recovers
