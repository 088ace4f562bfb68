SPECIFICATION Spec
CONSTANTS
  w1 = w1
  w2 = w2
  Workers = {w1, w2}
  Outcomes = {"confirmed_success", "unknown"}
  Lease <- MCLease
  Skew <- MCSkew
  MaxAttempts = 3
  Null = Null
INVARIANT NoAttemptAfterSuccess
