CONSTANTS
  Call = {r1, r2}
  Buffer = 1
  BatchSize = 2
  MaxBoots = 1
SPECIFICATION FairUsageSpec
INVARIANTS
  Accounted
  StopFlushes
PROPERTIES
  Settled
CHECK_DEADLOCK FALSE
