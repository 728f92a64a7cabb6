SPECIFICATION ServicesSpec
CONSTANTS
  Threads = {t1}
  NAddrs = 3
  BpAddrs = {1}
  CallSites = {2}
  RetAddr = 3
  HwSlots = {1}
  Modes = {"user", "stealth"}
  MaxEdits = 2
  MaxResumes = 2
  MaxSessions = 1
  Pids = {p1}
  NoPid = NoPid
  Others = {q}
  Values = {1}
  MaxEntries = 1
  MaxWatchIds = 1
  MaxSessionObjects = 2
  Regions <- ScanRegions
  Images <- ScanImages
  Begins = {0, 1}
  Page = 2
  Slot = 2
  Chunk = 4
  Workers = {1, 2}
  MaxResults = 2
  MaxStash = 5
  Batch = 1
  MaxScans = 2
  MaxMishaps = 1
  ImageFiles = {i1}
  NoImage = NoImage
  LoadBases = {0, 10}
  Rvas = {0}
  NBytes = 1
  MaxPatches = 2
  MaxLoads = 2
  MaxAnnotations = 2
INVARIANTS ServicesTypeOK TrapsAreRecorded PausedIsHeld HandleIsOwned ScanIsComplete RowsAreTrue JournalRestores AnnotationsSurvive
PROPERTIES StealthDetachReturns HeldValueIsWritten DeadTargetIsDropped AnalysisLands
CHECK_DEADLOCK FALSE
