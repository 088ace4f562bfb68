SPECIFICATION Spec
CONSTANTS
  t1 = t1
  t2 = t2
  home = home
  other = other
  foreign = foreign
  repo1 = repo1
  repo2 = repo2
  n1 = n1
  text = text
  Projections <- MCProjections
  Arguments <- MCArguments
  PullNumbers = {n1}
  Comments = {text}
  Repositories = {repo1, repo2}
  Tenants = {t1, t2}
  Tools <- MCTools
  Instances <- MCInstances
  Connectors <- MCConnectors
  Bindings <- MCBindings
  Tokens <- MCTokens
  TrustedIssuers = {"cluster"}
  MaxLifetime = 2
  ClockSkew = 1
  MaxTime = 3
  Hosts = {home, other, foreign}
  AllowedHosts = {home, other}
  Addresses = {a1, a2, p1}
  Prohibited = {p1}
  AllowPrivate = FALSE
  MaxRedirects = 2
  MaxBody = 2
  Bodies = {2, 3}
  Null = Null
INVARIANTS
  ClassificationIsSound
  CredentialStaysHome
  DestinationsArePermitted
PROPERTIES
  CredentialIsCurrent
