SPECIFICATION Spec
CONSTANTS
  MaxLines = 2
  MaxClears = 0
  MaxStreams = 1
  Writers = 1
  RingCap = 4
  PaneCap = 4
  QueueCap = 4
  MaxRestarts = 0
  CanFail = FALSE
INVARIANT ReplayClosesGap
CHECK_DEADLOCK FALSE
