CONSTANTS
  p1 = p1
  p2 = p2
  Request = {r1, r2}
  Auth = {a1, a2}
  Provider = {p1}
  ProviderOf <- OneProvider
  RequestRetry = 1
  Answers = {"ok", "user", "fail", "canceled", "notready"}
  MaxGen = 2
  MaxRequests = 2
  FailureThreshold = 1
  MinRequests = 1
SPECIFICATION Spec
SYMMETRY Symmetry
INVARIANTS
  ActiveNeverUnder
  OneCallPerAuth
  HalfOpenProbes
PROPERTIES
  Advances
