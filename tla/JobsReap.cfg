SPECIFICATION FairSpec
CONSTANTS
  Job = {j1}
  Cancellable = {j1}
  Failing = {j1}
  MaxLive = 1
  KeepJobs = 1
  CanShutdown = FALSE
PROPERTY ReapReturns
CHECK_DEADLOCK FALSE
