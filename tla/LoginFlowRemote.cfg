CONSTANTS
  Login = {l1}
  Kind = {"gemini"}
  Answer = {"code"}
  Remote = TRUE
  Visits = 1
SPECIFICATION Spec
INVARIANTS
  HonestStatus
CHECK_DEADLOCK FALSE
