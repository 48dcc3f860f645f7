SPECIFICATION FairSpec
CONSTANTS
  w1 = w1
  w2 = w2
  Workers = {w1, w2}
  N = 2
  MaxFaults = 1
  MayUnlink = FALSE
PROPERTY EventuallyCaughtUp
CHECK_DEADLOCK FALSE
