SPECIFICATION FairSpec
CONSTANTS
  Task = {t1}
  Worker = {w1, w2}
  NumWorkers = 2
  QueueCap = 1
  MaxStops = 1
PROPERTY StopReturns
CHECK_DEADLOCK FALSE
