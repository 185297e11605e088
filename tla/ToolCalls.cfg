CONSTANTS
  Ids = {i1, i2}
  Tools = {"write", "edit", "append"}
  MaxResponses = 2
  MaxCalls = 2
  MaxCrashes = 2
  MaxMeddling = 1
SPECIFICATION Spec
INVARIANTS CallsAnswered ResultsAreTrue
PROPERTIES RunsOnce ComesBack
CHECK_DEADLOCK FALSE
