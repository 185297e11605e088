SPECIFICATION Spec
CONSTANTS
  Texts = {"a"}
  MaxDeltas = 0
  MaxPrompts = 2
  MaxAnswers = 0
  MaxReductions = 1
  MaxLimited = 0
  MaxCompactions = 2
  MaxCheckpoints = 1
  MaxBoots = 3
INVARIANTS WindowHolds RecoveryIsExact HistoryIsRebuilt
PROPERTIES DurableWindowSpec
CHECK_DEADLOCK FALSE
