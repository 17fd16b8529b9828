SPECIFICATION Spec
CONSTANTS
  d1 = d1
  c1 = c1
  c2 = c2
  p1 = p1
  flatpak = flatpak
  native = native
  Off = Off
  Device = {d1}
  Channel <- TwoChannels
  Proc = {p1}
  Install = {flatpak, native}
  FreeTubeMayRace = FALSE
  MaxToggles = 1
  MaxFaults = 0
SYMMETRY Symmetry
INVARIANTS
  EventsExplained
