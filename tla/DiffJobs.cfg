SPECIFICATION DiffFairSpec
CONSTANTS
  Job = {1, 2}
  Cancellable = {1, 2}
  Failing = {1}
  MaxLive = 2
  KeepJobs = 1
  CanShutdown = TRUE
  MaxRecords = 1
INVARIANT RecordsWithinBound
PROPERTIES ImplementsBoard  EndIsPublished
CHECK_DEADLOCK FALSE
