SPECIFICATION Spec
CONSTANTS
  c1 = c1
  c2 = c2
  c3 = c3
  BadAction = BadAction
  Channel <- MCChannel
  Starts <- MCStarts
  Batches <- MCBatches
  Stamps <- MCStamps
INVARIANTS
  TypeOK
  OrderIndependent
  AllOrNothing
  SameStampIdempotent
CHECK_DEADLOCK FALSE
