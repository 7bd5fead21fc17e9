SPECIFICATION PoolSpec
CONSTANTS
  w1 = w1
  w2 = w2
  w3 = w3
  None = None
  Workers <- Two
  MaxSteps = 2
  CollectTimeout = TRUE
INVARIANTS
  PartialOnlyAfterTimeout
CHECK_DEADLOCK FALSE
