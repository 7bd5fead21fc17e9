SPECIFICATION FairForwardSpec
CONSTANTS
  w1 = w1
  w2 = w2
  w3 = w3
  None = None
  Workers <- Two
  MaxSteps = 2
  CollectTimeout = TRUE
  PerForward = 1
  TimesOut = TRUE
  StagingFails = TRUE
PROPERTIES
  StepsReturn
  DestructorReturns
CHECK_DEADLOCK FALSE
