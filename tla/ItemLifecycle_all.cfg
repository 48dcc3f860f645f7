SPECIFICATION FairSpec
CONSTANTS
  h1 = h1
  h2 = h2
  Handlers = {h1, h2}
  Sweeper = Sweeper
  MaxChanges = 2
  MaxRedeliveries = 1
  MaxFaults = 1
INVARIANT TypeOK
INVARIANT BrokenIsTold
CHECK_DEADLOCK FALSE
PROPERTY EventuallyShown
PROPERTY EventuallyHealed
