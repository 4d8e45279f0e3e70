CONSTANTS
  Credential = {c1}
  Version = {v1, v2}
  Scanner = {loop, start}
  EventLoop = loop
  Compatible = {}
  QueueSize = 1
  MaxChanges = 2
SPECIFICATION UpdatesSpec
INVARIANTS
  ModelsRebound
CHECK_DEADLOCK FALSE
