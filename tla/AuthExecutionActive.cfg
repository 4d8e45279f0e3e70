CONSTANTS
  p1 = p1
  p2 = p2
  Request = {r1, r2}
  Auth = {a1, a2}
  Provider = {p1}
  ProviderOf <- OneProvider
  RequestRetry = 0
  Answers = {"ok", "fail"}
  MaxGen = 0
  MaxRequests = 1
  FailureThreshold = 2
  MinRequests = 2
SPECIFICATION Spec
INVARIANTS
  ActiveAccurate
