CONSTANTS
  Configs <- Sessions
  MaxRequests = 3
  MaxAttempts = 2
  MaxTurns = 2
  MaxCalls = 2
  MinUseful = 2
  Overhead = 1
  ManualTarget = 4
  MaxMessages = 5
  MaxCrashes = 1
  MaxEvents = 3
  MaxFolds = 2
  Kept = 1
SPECIFICATION TurnsSpec
INVARIANTS RequestsBounded CallsSettled NothingReplayed BoundaryHolds CancelIsPrompt CapsuleHolds
PROPERTIES TurnEnds HistoryHolds
CHECK_DEADLOCK FALSE
