SPECIFICATION ToolSpec
CONSTANTS
  p1 = p1
  p2 = p2
  c1 = c1
  c2 = c2
  a1 = a1
  a2 = a2
  a3 = a3
  a4 = a4
  Processes = {p1, p2}
  Calls = {c1, c2}
  ProcessOf <- MCProcessOf
  Keys = {k1}
  Digests = {d1, d2}
  InvocationIDs = {i1}
  Payloads = {v1}
  Lease <- MCLease
  MaxRecoveries <- MCMaxRecoveries
  Skew <- MCSkew
  Decisions = {a1, a2, a3, a4}
  Allowed = {a1, a2, a4}
  Members = {"r1", "r2", "r3", "operation"}
  Arguments = {}
  Constraints <- MCGranted
  Ceiling <- MCCeiling
  Null = Null
INVARIANT UnknownIsNotResent
