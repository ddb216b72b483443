CONSTANTS
  Alerts = {a1, a2, a3}
  Others = {}
  RedeliveryMax = 2
  MaxRestarts = 1
SPECIFICATION FairSpec
INVARIANTS TypeOK FailedStaysPending FailedSurvivesCrash
PROPERTY FailedArrives
