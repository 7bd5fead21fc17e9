SPECIFICATION HistorySpec
CONSTANTS
  d1 = d1
  d2 = d2
  d3 = d3
  Participants <- Three
  Stages = 3
  NameOf <- Distinct
  Unnamed = Unnamed
  TimesOut = TRUE
  StagingFails = FALSE
PROPERTIES
  TrueMeansReduced
CHECK_DEADLOCK FALSE
