SPECIFICATION EnginesSpec
CONSTANTS
  a = a
  b = b
  StockRuns = {job}
  Symbols <- Stocks
  Candidates <- CandidatesOf
  HoldSettings = {TRUE, FALSE}
  Quantity = 2
  TopLevel = 2
  MaxPositions = 1
  CoverageTarget = 1
  MaxOrders = 3
  PolyRuns = {job, request}
  Markets = {m}
  MaxOpenMarkets = 1
  MaxEstimates = 3
  PaperRuns = {job}
  Coins = {a, b}
  MaxOpen = 1
  SlotTarget = 2
  MaxBars = 2
  MaxTrades = 2
  Scans = {s1, s2}
  Clients = {user}
  Zones = {z}
  Watches = {w}
  MaxActive = 2
  Callers = {c1, c2}
  LastHour = 3
  Requests = {q1, q2, q3}
  MaxDisturbances = 2
INVARIANTS TypesOK StockLedgerAgrees CoverageBounded FilledAtOnceHasPlan LevelSoldOnce OpenBetWillBeSettled PaidOnce EntryBarSpared TriggeredIsAnnounced FetchesReachBack NoSilentHole OneTokenPerDisturbance
PROPERTIES OverLimitOnlyFromQueue QueuedSaleBlocksExit CancelledReturnsOnlyFromCopies
