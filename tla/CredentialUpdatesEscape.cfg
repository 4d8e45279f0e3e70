CONSTANTS
  Credential = {c1}
  Version = {v1}
  Scanner = {loop, reload}
  EventLoop = loop
  Compatible = {}
  QueueSize = 1
  MaxChanges = 2
SPECIFICATION UpdatesSpec
INVARIANTS
  NothingEscapes
CHECK_DEADLOCK FALSE
