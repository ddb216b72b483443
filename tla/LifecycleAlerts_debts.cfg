CONSTANTS
  Positions = {p1, p2}
  QueueMax = 1
  BackfillLimit = 1
  CutPoints <- ContextCut
  Environment = {}
  MaxRestarts = 1
  MaxFaults = 1
SPECIFICATION FairSpec
INVARIANT SuppressedIsAccounted
PROPERTIES OpenDebtPaid CloseDebtPaid
