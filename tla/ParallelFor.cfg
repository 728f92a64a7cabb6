SPECIFICATION PFFairSpec
CONSTANTS
  Task = {0, 1}
  Worker = {w1, w2}
  NumWorkers = 2
  QueueCap = 1
  MaxStops = 1
  Count = 3
INVARIANTS PFTypeOK EachIndexAtMostOnce ReturnMeansAllRan
PROPERTY AcceptedIsRun
CHECK_DEADLOCK FALSE
