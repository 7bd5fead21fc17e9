SPECIFICATION ForwardSpec
CONSTANTS
  w1 = w1
  w2 = w2
  w3 = w3
  None = None
  Workers <- Three
  MaxSteps = 2
  CollectTimeout = FALSE
  PerForward = 3
  TimesOut = TRUE
  StagingFails = TRUE
SYMMETRY Symmetry
INVARIANTS
  SuccessMeansAllSucceeded
  FailureAborts
  SuccessMeansReduced
  AbortIsFinal
  NobodyLeftInBarrier
CHECK_DEADLOCK FALSE
