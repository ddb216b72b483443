CONSTANTS
  Positions = {p1}
  QueueMax = 1
  BackfillLimit = 1
  CutPoints = {}
  Environment = {}
  MaxRestarts = 0
  MaxFaults = 0
SPECIFICATION Spec
INVARIANT CloseAnnouncedOnce
