SPECIFICATION FairSpec
CONSTANTS
  h1 = h1
  h2 = h2
  c1 = c1
  c2 = c2
  NoHandler = NoHandler
  BadEvent = BadEvent
  Handler <- MCHandler
  Channel <- MCChannel
  Requests <- MCRequests
  ClockMode = "strict"
  MaxTime = 5
  MaxCommits = 3
  MaxCrashes = 1
  MaxPowerLosses = 0
INVARIANTS
  LaterWins
PROPERTIES
  RequestsAnswered
CHECK_DEADLOCK FALSE
