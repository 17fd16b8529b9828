SPECIFICATION Spec
CONSTANTS
  h1 = h1
  h2 = h2
  c1 = c1
  c2 = c2
  NoHandler = NoHandler
  BadEvent = BadEvent
  Handler <- MCHandler
  Channel <- MCChannel
  Requests <- MCRequests
  ClockMode = "stepping"
  MaxTime = 3
  MaxCommits = 3
  MaxCrashes = 1
  MaxPowerLosses = 1
SYMMETRY Symmetry
INVARIANTS
  TypeOK
  FileIsJoin
  ReplyIsCurrent
PROPERTIES
  StoreSpec
CHECK_DEADLOCK FALSE
