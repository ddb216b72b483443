CONSTANTS
  Keys = {btc_long}
  Callers = {worker, browser}
  Scheduled = {worker}
  ConfirmTicks = 2
  Serial = FALSE
  DieAt = {}
  MaxRows = 2
  MaxEvents = 4
SPECIFICATION Spec
PROPERTY ExitOnlyAfterConsecutiveAbsence
