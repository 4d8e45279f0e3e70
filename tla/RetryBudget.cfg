CONSTANTS
  Request = {r1, r2, r3}
  Streaming = {r3}
  ConfigCapacity = 2
  RequestRetry = 2
SPECIFICATION FairSpec
PROPERTIES
  ImplementsSemaphore
  Termination
