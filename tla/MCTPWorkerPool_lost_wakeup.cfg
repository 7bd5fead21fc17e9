SPECIFICATION FairPoolSpec
CONSTANTS
  w1 = w1
  w2 = w2
  w3 = w3
  None = None
  Workers <- Two
  MaxSteps = 1
  CollectTimeout = FALSE
PROPERTIES
  StepsReturn
CHECK_DEADLOCK FALSE
