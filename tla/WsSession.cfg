CONSTANTS
  Request = {r1, r2}
  Capacity = 1
  Chunks = 1
  Cleaners = {"reader", "heartbeat", "stop"}
  MayCancel = TRUE
SPECIFICATION FairSpec
INVARIANTS
  NoOrphan
  NoLeak
  OrderlySession
PROPERTIES
  Released
CHECK_DEADLOCK FALSE
