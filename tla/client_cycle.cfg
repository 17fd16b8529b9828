SPECIFICATION DocSpec
CONSTANTS
  d1 = d1
  c1 = c1
  c2 = c2
  c3 = c3
  p1 = p1
  native = native
  ownId = ownId
  AllChannels = AllChannels
  Slot = Slot
  Layout <- Layouts
  Off = Off
  Device = {d1}
  Channel <- ThreeChannels
  Proc = {p1}
  Install = {native}
  FreeTubeMayRace = FALSE
  MaxToggles = 3
  MaxFaults = 2
SYMMETRY Symmetry
INVARIANTS
  DocTypeOK
  EventsExplained
  OnlySubscriptionsChange
PROPERTIES
  NamesKept
