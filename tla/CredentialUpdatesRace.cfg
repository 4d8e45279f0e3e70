CONSTANTS
  Credential = {c1}
  Version = {v1, v2, v3}
  Scanner = {loop, reload}
  EventLoop = loop
  Compatible = {}
  QueueSize = 1
  MaxChanges = 2
SPECIFICATION UpdatesSpec
INVARIANTS
  FilesAlwaysFollowed
CHECK_DEADLOCK FALSE
