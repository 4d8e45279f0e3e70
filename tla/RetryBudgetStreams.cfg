CONSTANTS
  Request = {r1, r2}
  Streaming = {r1, r2}
  ConfigCapacity = 1
  RequestRetry = 1
SPECIFICATION Spec
INVARIANT RetriedStreamsBounded
