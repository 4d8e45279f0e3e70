CONSTANTS
  Writer = {w1, w2, w3}
  Clearer = {w3}
  Attempts = 3
  Rounds = 2
SPECIFICATION CasSpec
INVARIANTS
  LostOnlyByFallback
  FailureMeansProgress
CHECK_DEADLOCK FALSE
