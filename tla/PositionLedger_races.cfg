CONSTANTS
  Keys = {btc_long}
  Callers = {worker, browser}
  Scheduled = {worker}
  ConfirmTicks = 2
  Serial = FALSE
  DieAt = {}
  MaxRows = 4
  MaxEvents = 4
SPECIFICATION FairSpec
INVARIANT ClosedHasTrade
PROPERTY GhostCloses
