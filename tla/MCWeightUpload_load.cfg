SPECIFICATION FairUploadSpec
CONSTANTS
  NumJobs = 7
  NumStreams = 3
  Raw = {5}
  Shared = {4}
  MayBeGone = {6}
  SyncSettings = {TRUE, FALSE}
  CallsFail = TRUE
INVARIANTS
  QueuedWorkReadsItsWeight
  KernelsFindTheirWeight
  NothingFreedInUse
  TemporariesAreFreed
PROPERTIES
  DroppedOnlyWhenInPlace
  LoadEnds
CHECK_DEADLOCK FALSE
