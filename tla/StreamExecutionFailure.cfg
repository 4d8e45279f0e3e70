CONSTANTS
  Auth = {a1}
  Mode = {"sse"}
  Lines = 2
  Depth = 1
SPECIFICATION Spec
INVARIANT FailureReported
CHECK_DEADLOCK FALSE
