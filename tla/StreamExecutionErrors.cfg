CONSTANTS
  Auth = {a1}
  Mode = {"sse", "scanner"}
  Lines = 2
  Depth = 1
SPECIFICATION Spec
INVARIANT ErrorsShown
CHECK_DEADLOCK FALSE
