CONSTANTS
  Credential = {c1}
  RuntimeOnly = {w1}
  QueueSize = 1
  MaxTokens = 1
  MaxRemovals = 1
  MaxFailures = 1
  MaxEvents = 2
  MaxExits = 1
SPECIFICATION FairFilesSpec
INVARIANTS
  NothingForgotten
PROPERTIES
  RemovalNoticed
CHECK_DEADLOCK FALSE
