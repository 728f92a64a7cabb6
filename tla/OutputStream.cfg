SPECIFICATION FairSpec
CONSTANTS
  MaxLines = 2
  MaxClears = 1
  MaxStreams = 2
  Writers = 2
  RingCap = 1
  PaneCap = 2
  QueueCap = 1
  MaxRestarts = 1
  CanFail = TRUE
INVARIANTS TypeOK RingIsNewestRun CursorNeverAhead PaneInOrder
PROPERTY StreamIsFollowed
CHECK_DEADLOCK FALSE
