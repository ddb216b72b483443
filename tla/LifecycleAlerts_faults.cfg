CONSTANTS
  Positions = {p1}
  QueueMax = 1
  BackfillLimit = 1
  CutPoints <- EveryCut
  Environment <- EveryTrouble
  MaxRestarts = 1
  MaxFaults = 2
SPECIFICATION Spec
INVARIANTS TypeOK SentOncePerLife OpenSettledOnce
PROPERTIES DrainedNotForgotten ImplementsOpenDebt
