SPECIFICATION FairSpec
CONSTANTS
  Proc = {p1, p2}
  ByShell = {p1}
  WithDriver = {p1, p2}
  MaxCrashes = 1
INVARIANTS TypeOK  DriverNotStranded
PROPERTIES HandshakeResolves EngineFollowsShell
CHECK_DEADLOCK FALSE
