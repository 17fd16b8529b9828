SPECIFICATION DeskSpec
CONSTANTS
  Flatpak = flatpak
  Native = native
  v1 = v1
  v2 = v2
  p1 = p1
  p2 = p2
  Cred = {v1, v2}
  Cmd = {p1, p2}
  Unset = Unset
  MaxChanges = 1
  MaxStops = 1
  Separate = Separate
  None = None
  Torn = Torn
  Original = Original
  Originals = {native}
SYMMETRY Symmetry
INVARIANTS
  DeskTypeOK
  CredentialKept
  OriginalKept
  UninstallUndoes
PROPERTIES
  ChoiceSticks
