CONSTANTS
  Credential = {c1, c2}
  Version = {v1, v2}
  Scanner = {loop, reload}
  EventLoop = loop
  Compatible = {c2}
  QueueSize = 1
  MaxChanges = 2
SPECIFICATION FairUpdatesSpec
INVARIANTS
  LastUpdateWins
  FilesFollowed
PROPERTIES
  EventuallyInSync
CHECK_DEADLOCK FALSE
