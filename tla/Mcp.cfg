CONSTANTS
  Callers = {"c1", "c2"}
  MaxCalls = 2
  PipeRoom = 1
  MaxExchanges = 2
  Sessions = {"s"}
  ServerTools = 2
  ServerBytes = 4
  ActiveTools = 3
  ActiveBytes = 6
  ListPages = 2
  MaxOpens = 3
SPECIFICATION ServersSpec
INVARIANTS AnswersAreMatched ExchangesHold
PROPERTIES CatalogHolds CallsReturn
CHECK_DEADLOCK FALSE
