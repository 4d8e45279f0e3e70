CONSTANTS
  Refresher = {r1}
  Renewal = {g1, g2}
  Attempts = 1
  MayRevoke = FALSE
  MaxRotations = 1
  MaxExpired = 1
  MaxErrors = 0
  MaxScans = 1
SPECIFICATION Spec
INVARIANTS
  DisabledOnlyIfRevoked
  NeverForgotten
CHECK_DEADLOCK FALSE
