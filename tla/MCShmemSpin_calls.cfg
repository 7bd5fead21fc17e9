SPECIFICATION FairShmemSpec
CONSTANTS
  NumRanks = 3
  MaxCalls = 2
  Aborters = {0, 2}
  TimesOut = TRUE
INVARIANTS
  ReturnsWholeSum
  NoOverwriteWhileRead
  FailureStopsAll
PROPERTIES
  CallsEnd
CHECK_DEADLOCK FALSE
