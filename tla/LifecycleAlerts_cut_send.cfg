CONSTANTS
  Positions = {p1}
  QueueMax = 1
  BackfillLimit = 1
  CutPoints <- SendingCut
  Environment = {}
  MaxRestarts = 0
  MaxFaults = 1
SPECIFICATION Spec
INVARIANT SuppressedIsAccounted
