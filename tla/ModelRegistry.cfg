CONSTANTS
  p1 = p1
  p2 = p2
  m1 = m1
  m2 = m2
  k1 = k1
  Client = {c1, c2, c3}
  Provider = {p1, p2}
  Model = {m1, m2}
  Id = {m1, m2, k1}
  Copies = 2
  MaxCount = 6
  ProvidersOf <- FixedProviders
  CanonOf <- OneCanon
SPECIFICATION Spec
INVARIANTS
  CountsExact
  IndexExact
  RouteResolves
PROPERTIES
  ImplementsCatalog
