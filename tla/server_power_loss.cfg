SPECIFICATION Spec
CONSTANTS
  h1 = h1
  h2 = h2
  c1 = c1
  c2 = c2
  NoHandler = NoHandler
  BadEvent = BadEvent
  Handler <- MCHandler
  Channel <- MCChannel
  Requests <- MCRequests
  ClockMode = "strict"
  MaxTime = 4
  MaxCommits = 2
  MaxCrashes = 0
  MaxPowerLosses = 1
INVARIANTS
  AckedSurvivesPowerLoss
CHECK_DEADLOCK FALSE
