CONSTANTS
  Call = {r1, r2}
  Buffer = 1
  BatchSize = 2
  MaxBoots = 1
SPECIFICATION UsageSpec
CHECK_DEADLOCK FALSE
INVARIANTS
  PendingFlushed
