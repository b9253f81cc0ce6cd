\* Two workers that share the cache, while projects, zones and types come and go.
SPECIFICATION FairSpec
CONSTANTS
  Projects = {p1, p2}
  Changing = {p1}
  Zones = {z1}
  Types = {t1}
  Workers = {w1, w2}
  Requests <- SomeRequests
  TTL = 2
  CallTimeout = 1
  MaxEntries = 1
  MaxAttempts = 2
  None = None
  p1 = p1  p2 = p2  z1 = z1  t1 = t1
INVARIANT TypeOK
INVARIANT ExistsCacheBounded
PROPERTY StaleProjectBounded
PROPERTY VerdictsAreTrue
PROPERTY OperationEnds
