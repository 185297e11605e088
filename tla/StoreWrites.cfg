SPECIFICATION Spec
CONSTANTS
  Texts = {"a"}
  MaxDeltas = 2
  MaxPrompts = 1
  MaxAnswers = 1
  MaxReductions = 0
  MaxLimited = 1
  MaxCompactions = 0
  MaxCheckpoints = 0
  MaxBoots = 3
INVARIANTS CanonicalFirst NothingLost RecoveryIsExact ContiguousTrace
PROPERTY RecoveryEnds
CHECK_DEADLOCK FALSE
