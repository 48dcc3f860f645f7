SPECIFICATION MCSpec
CONSTANTS
  i1 = i1
  i2 = i2
  h1 = h1
  h2 = h2
  Items = {i1, i2}
  Lone = i1
  Handlers = {h1, h2}
  MaxLinks = 3
  MaxFaults = 3
  FewFaults = 1
INVARIANTS
  TypeOK
  TokenHeld
PROPERTIES
  EventuallyUnbilled
  QueuedTokenLostOnlyToOlder
CHECK_DEADLOCK FALSE
