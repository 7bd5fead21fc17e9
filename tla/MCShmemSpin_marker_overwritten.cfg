SPECIFICATION ShmemSpec
CONSTANTS
  NumRanks = 2
  MaxCalls = 2
  Aborters = {0, 1}
  TimesOut = TRUE
PROPERTIES
  AbortEndsPending
CHECK_DEADLOCK FALSE
