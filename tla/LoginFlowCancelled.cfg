CONSTANTS
  Login = {l1}
  Kind = {"gemini"}
  Answer = {"code"}
  Remote = FALSE
  Visits = 1
SPECIFICATION Spec
INVARIANTS
  CancelledSavesNothing
CHECK_DEADLOCK FALSE
