CONSTANTS
  Alerts = {a1, a2}
  Others = {a2}
  RedeliveryMax = 2
  MaxRestarts = 0
SPECIFICATION Spec
INVARIANT FailedStaysPending
