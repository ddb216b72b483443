CONSTANTS
  Jobs = {liveness, whale}
  Reviver = liveness
  OnLoop = {liveness}
  Heavy = {whale}
  Hooked = {}
  FillDriven = {whale}
  Pausable = {}
  HeavySlots = 2
  DefaultSlots = 1
  Threshold = 1
  MaxMultiplier = 2
  MaxPauses = 0
SPECIFICATION FairSpec
PROPERTY EveryJobRunsAgain
