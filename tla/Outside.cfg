CONSTANTS
  Places = 1
  MaxEvents = 3
  MaxRequests = 3
  Parts = 2
  ToolLimit = 3
  PartLimit = 3
  EventLimit = 6
  LineLimit = 3
  FrameLimit = 4
  FrameCount = 2
  MaxBytes = 7
  Names = {"a", "b"}
  MaxItems = 1
  Slots = 1
  PipeSize = 1
  CaptureLimit = 1
  MaxOutput = 2
  Calls = {"c1", "c2"}
  Kinds = {"tool", "shutdown"}
  MaxProcesses = 2
  MaxStops = 1
  ChannelSize = 1
  MaxLines = 1
  Relays = {"r1"}
  Crate = "provider"
  MaxStrangers = 1
  Other = "other"
SPECIFICATION OutsideSpec
INVARIANTS RefusalIsSafe AnswersAreWhole EffectsAreOver
PROPERTY EverythingEnds
CHECK_DEADLOCK FALSE
