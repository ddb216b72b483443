CONSTANTS
  Keys = {btc_long, eth_short}
  Callers = {worker}
  Scheduled = {worker}
  ConfirmTicks = 2
  Serial = TRUE
  DieAt <- LongSteps
  MaxRows = 6
  MaxEvents = 6
SPECIFICATION FairSpec
INVARIANTS TypeOK OneLiveRowPerKey OneTradePerPosition
PROPERTIES ExitOnlyAfterConsecutiveAbsence GhostCloses HeldIsTracked
