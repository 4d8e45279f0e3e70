CONSTANTS
  p1 = p1
  p2 = p2
  Request = {r1, r2}
  Auth = {a1, a2}
  Provider = {p1, p2}
  ProviderOf <- TwoProviders
  RequestRetry = 1
  Answers = {"fail"}
  MaxGen = 0
  MaxRequests = 1
  FailureThreshold = 1
  MinRequests = 1
SPECIFICATION FairSpec
PROPERTIES
  Answered
