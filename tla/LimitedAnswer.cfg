SPECIFICATION Spec
CONSTANTS
  Texts = {"a", "b"}
  MaxDeltas = 1
  MaxPrompts = 0
  MaxAnswers = 0
  MaxReductions = 0
  MaxLimited = 1
  MaxCompactions = 0
  MaxCheckpoints = 0
  MaxBoots = 2
INVARIANTS LimitedIsHarmless
CHECK_DEADLOCK FALSE
