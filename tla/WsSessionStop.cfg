CONSTANTS
  Request = {r1}
  Capacity = 2
  Chunks = 1
  Cleaners = {"stop"}
  MayCancel = FALSE
SPECIFICATION Spec
INVARIANTS
  GracefulStop
CHECK_DEADLOCK FALSE
