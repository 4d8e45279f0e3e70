CONSTANTS
  Refresher = {r1}
  Renewal = {g1, g2}
  Attempts = 1
  MayRevoke = TRUE
  MaxRotations = 1
  MaxExpired = 1
  MaxErrors = 1
  MaxScans = 1
SPECIFICATION FairSpec
INVARIANTS
  GrantKept
  RenewalKept
  SavedInTheEnd
PROPERTIES
  RevocationNoticed
CHECK_DEADLOCK FALSE
