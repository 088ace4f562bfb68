SPECIFICATION LiveSpec
CONSTANTS
  p1 = p1
  p2 = p2
  c1 = c1
  c2 = c2
  Processes = {p1, p2}
  Calls = {c1, c2}
  ProcessOf <- MCProcessOf
  Keys = {k1}
  Digests = {d1, d2}
  InvocationIDs = {i1, i2}
  Payloads = {v1, v2}
  Lease <- MCLease
  MaxRecoveries <- MCMaxRecoveries
  Skew <- MCSkew
  Null = Null
INVARIANTS
  BoundedOwnership
  LeasesDisjoint
  CompletedByLastOwner
  ReplayAgreement
PROPERTIES
  KeepsPromise
  Settles
