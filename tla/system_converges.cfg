SPECIFICATION SysSpec
CONSTANTS
  d1 = d1
  d2 = d2
  c1 = c1
  c2 = c2
  p1 = p1
  native = native
  Off = Off
  Device = {d1, d2}
  Channel <- OneChannel
  Proc = {p1}
  Install = {native}
  FreeTubeMayRace = FALSE
  MaxToggles = 1
  MaxFaults = 1
  MaxLost = 1
INVARIANTS
  SysTypeOK
  ChangeUnderWay
PROPERTIES
  OwnChangesKept
  Convergence
  SoleEditorWins
