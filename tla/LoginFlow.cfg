CONSTANTS
  Login = {l1, l2}
  Kind = {"codex", "device"}
  Answer = {"code", "error"}
  Remote = FALSE
  Visits = 1
SPECIFICATION FairSpec
INVARIANTS
  PortHeld
  HonestStatus
PROPERTIES
  OutcomeStands
  LoginEnds
CHECK_DEADLOCK FALSE
