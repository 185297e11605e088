SPECIFICATION BothSpec
CONSTANTS
  Clients = {c1, c2}
  MaxRuns = 2
  MaxSessions = 2
  MaxEpochs = 2
  PageLimit = 2
  MostItems = 3
  MostChanges = 2
  MostPages = 3
  MostOthers = 1
INVARIANTS OneRunPerSession BranchSharesHistory ResourcesAreFollowed
PROPERTIES RunsEnd
CHECK_DEADLOCK FALSE
