CONSTANTS
  Request = {r1}
  Capacity = 1
  Chunks = 2
  Cleaners = {"reader"}
  MayCancel = FALSE
SPECIFICATION Spec
INVARIANTS
  WholeResponse
CHECK_DEADLOCK FALSE
