CONSTANTS
  Budget = 2
  MaxSpills = 2
  MaxLines = 3
  MaxStops = 2
  MaxCapsule = 2
  MaxCapsules = 3
  MaxCapsuleBytes = 5
  MaxRestarts = 2
  Procs = {"p", "q"}
  NoProc = NoProc
  Existing = 2
  MaxSessions = 4
  KeepNewest = 1
  Undated = {1}
  i1 = i1
  i2 = i2
  c1 = c1
  c2 = c2
  p1 = p1
  p2 = p2
  Nobody = Nobody
  NoName = NoName
  NoScope = NoScope
SPECIFICATION FilesSpec
INVARIANTS OpenSessionIntact DeclarationsAreRead
PROPERTIES FilesHold RetentionEnds
CHECK_DEADLOCK FALSE
