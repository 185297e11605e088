SPECIFICATION Spec
CONSTANTS
  Texts = {"a", "b"}
  MaxDeltas = 0
  MaxPrompts = 1
  MaxAnswers = 0
  MaxReductions = 0
  MaxLimited = 0
  MaxCompactions = 2
  MaxCheckpoints = 0
  MaxBoots = 3
INVARIANTS DiscardedIsHarmless
CHECK_DEADLOCK FALSE
