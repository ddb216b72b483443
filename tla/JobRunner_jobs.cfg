CONSTANTS
  Jobs = {liveness, daily, whale}
  Reviver = liveness
  OnLoop = {liveness}
  Heavy = {whale}
  Hooked = {daily}
  FillDriven = {whale}
  Pausable = {daily}
  HeavySlots = 1
  DefaultSlots = 1
  Threshold = 2
  MaxMultiplier = 2
  MaxPauses = 1
SPECIFICATION FairSpec
INVARIANTS TypeOK BackedOffOnlyWhileFailing
PROPERTIES RunsAgain OthersWork PausedIsRevived
