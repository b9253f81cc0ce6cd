\* Concurrent lists of two callers share a cache with room for one of them.
SPECIFICATION Spec
CONSTANTS
  Ids = {x1, x2}
  Subjects = {u1, u2}
  Volatile <- OneGrant
  Requests = {r1, r2}
  CacheTTL = 1
  Timeout = 1
  MaxResults = 1
  MaxEntries = 1
  MaxTime = 6
  NoSubject = NoSubject
  NoEntry = NoEntry
  u1 = u1  x1 = x1
SYMMETRY Symmetry
INVARIANT TypeOK
INVARIANT StalenessBounded
INVARIANT GrantsAppear
INVARIANT CacheBounded
