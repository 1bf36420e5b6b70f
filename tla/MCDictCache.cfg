SPECIFICATION CacheSpec
CONSTANTS
  d1 = d1
  d2 = d2
  p1 = p1
  p2 = p2
  Ids = {d1, d2}
  Procs = {p1, p2}
  Keep = 1
  MaxCalls = 3
  MaxMishaps = 1
  MaxDamage = 1
SYMMETRY Symmetry
INVARIANTS PublishedWhole NoLitter KeepsFew NewestFinds
PROPERTIES NewestIsLatest RemovesOnlySpent
CHECK_DEADLOCK FALSE
