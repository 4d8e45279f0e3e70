CONSTANTS
  p1 = p1
  p2 = p2
  m1 = m1
  m2 = m2
  k1 = k1
  Client = {c1}
  Provider = {p1, p2}
  Model = {m1, m2}
  Id = {m1, m2, k1}
  Copies = 1
  MaxCount = 2
  ProvidersOf <- AnyProvider
  CanonOf <- OneCanon
SPECIFICATION Spec
INVARIANTS
  ProviderFollowsClient
