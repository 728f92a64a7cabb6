SPECIFICATION Spec
CONSTANTS
  Proc = {p1}
  ByShell = {p1}
  WithDriver = {p1}
  MaxCrashes = 0
INVARIANT KillIsBackstop
CHECK_DEADLOCK FALSE
