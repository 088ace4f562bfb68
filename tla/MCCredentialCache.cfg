SPECIFICATION LiveSpec
CONSTANTS
  b1 = b1
  r1 = r1
  r2 = r2
  Callers = {c1, c2}
  Requests <- MCRequests
  Epochs = {e0, e1}
  NoEpoch = e0
  MaxEntries = 1
  MaximumTTL = 1
  ExpirySkew = 0
  Lifetime = 2
  MaxLoads = 2
  Null = Null
INVARIANTS
  SourcesAreOwned
  SingleFlight
PROPERTY HandedOutIsCurrent
PROPERTY WaitersGoOn
