SPECIFICATION LiveSpec
CONSTANTS
  k1 = k1
  k2 = k2
  k3 = k3
  t1 = t1
  t2 = t2
  w1 = w1
  w2 = w2
  Requests = {r1, r2}
  Submissions <- MCSubmissions
  Kids = {k1, k2, k3}
  KeySets <- MCKeySets
  Unsupported = {k3}
  Tenants = {t1, t2}
  Workloads = {w1, w2}
  Trusted = {w1}
  HasWorkload = TRUE
  MaxConcurrent = 1
  MaxKeys = 2
  RefreshAfter = 1
  MaxStale = 1
  ClockSkew = 1
  MaxTime = 3
  MaxRotations = 1
  Null = Null
INVARIANTS
  PermitsAreReturned
  IdentityIsRecent
PROPERTIES
  GenuineIsNotRefused
  EveryRequestIsAnswered
