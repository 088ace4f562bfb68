SPECIFICATION Spec
CONSTANTS
  Calls = {c1, c2}
  Keys = {k1, h1}
  HighRisk = {h1}
  Feed <- MCFeed
  LastPosition = 1
  HasRevocations = TRUE
  AllowTTL = 2
  DenyTTL = 1
  MaxEntries = 1
  MaxDecisionAge = 1
  Revocations <- MCRevocations
  Terms <- MCTerms
  MaxTime = 2
  Null = Null
INVARIANTS
  RevokedIsNotUsed
  ReuseIsBounded
  HighRiskIsLive
SYMMETRY Symmetry
