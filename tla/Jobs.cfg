SPECIFICATION Spec
CONSTANTS
  Job = {j1, j2, j3}
  Cancellable = {j1, j3}
  Failing = {j1, j2}
  MaxLive = 2
  KeepJobs = 1
  CanShutdown = TRUE
INVARIANTS TypeOK LiveJobReachable LiveWithinCap ViewIsTruthful
PROPERTY OutcomeIsFinal
CHECK_DEADLOCK FALSE
