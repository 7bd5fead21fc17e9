SPECIFICATION ForwardSpec
CONSTANTS
  w1 = w1
  w2 = w2
  w3 = w3
  None = None
  Workers <- Two
  MaxSteps = 1
  CollectTimeout = FALSE
  PerForward = 1
  TimesOut = TRUE
  StagingFails = FALSE
PROPERTIES
  AbortReleasesWaiters
CHECK_DEADLOCK FALSE
