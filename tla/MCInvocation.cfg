SPECIFICATION MCSpec
CONSTANTS
  w1 = w1
  w2 = w2
  Workers = {w1, w2}
  Outcomes = {"confirmed_success", "unknown"}
  Lease <- MCLease
  Skew <- MCSkew
  MaxAttempts = 3
  Holders = {h1, h2}
  MaxVersion = 9
  Null = Null
INVARIANTS
  LeasesRespected
  FencesAreUnique
  ControlledExecution
  NoBlindRetry
PROPERTIES
  EvidenceFrozen
  DecidedOnCurrent
  Overtaken
