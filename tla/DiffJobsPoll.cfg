SPECIFICATION DiffFairSpec
CONSTANTS
  Job = {1, 2}
  Cancellable = {1, 2}
  Failing = {}
  MaxLive = 2
  KeepJobs = 1
  CanShutdown = FALSE
  MaxRecords = 1
PROPERTY PollingEnds
CHECK_DEADLOCK FALSE
