SPECIFICATION FairHistorySpec
CONSTANTS
  d1 = d1
  d2 = d2
  d3 = d3
  Participants <- Three
  Stages = 3
  NameOf <- Distinct
  Unnamed = Unnamed
  TimesOut = TRUE
  StagingFails = TRUE
INVARIANTS
  SlotsAreWaiting
  SumsOneStage
PROPERTIES
  CompletedMeansReduced
  WaitsEnd
CHECK_DEADLOCK FALSE
