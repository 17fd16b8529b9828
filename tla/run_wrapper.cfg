SPECIFICATION WrapSpec
CONSTANTS
  d1 = d1
  c1 = c1
  w1 = w1
  w2 = w2
  timer = timer
  native = native
  Off = Off
  Device = {d1}
  Channel = {c1}
  Proc = {w1, w2, timer}
  Launcher = {w1, w2}
  Desktop = {w1, w2}
  Install = {native}
  FreeTubeMayRace = TRUE
  MaxToggles = 0
  MaxFaults = 1
INVARIANTS
  WrapTypeOK
  OneWrapperSyncs
PROPERTIES
  UndisturbedSyncIsSafe
  LaunchedUnlessLocalError
