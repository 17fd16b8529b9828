SPECIFICATION Spec
CONSTANTS
  DirSyncWorks = TRUE
  MaxVersion = 5
  MaxStops = 2
INVARIANTS
  TypeOK
  FilesWhole
  ShadowNeverAhead
  LitterOnlyFromStops
PROPERTIES
  OverwrittenIsBackedUp
CHECK_DEADLOCK FALSE
