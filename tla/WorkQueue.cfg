SPECIFICATION Spec
CONSTANTS
  Task = {t1, t2, t3}
  Worker = {w1, w2, w3, w4}
  NumWorkers = 2
  QueueCap = 2
  MaxStops = 2
SYMMETRY Symmetry
INVARIANTS TypeOK ClosureAccounting WakeupsSuffice NoOrphanThread
CHECK_DEADLOCK FALSE
