SPECIFICATION FairSpec
CONSTANTS
  u1 = u1
  u2 = u2
  NoUrl = NoUrl
  URLs <- MCURLs
  Specs <- Autoscaled
  FirstSpec <- MCFirst
  UserOps = {"edit", "pause", "delete"}
  Failures = {"call", "job", "pods"}
  Lagging = {"Deployment"}
  MaxGen = 4
  MaxEdits = 2
  MaxFaults = 1
  MaxLosses = 1
INVARIANTS
  TypeOK
  ServingAtRest
  QuiescentPhase
  NoLeftovers
PROPERTIES
  ImplementsCluster
  SwitchesMaps
  Converges
CHECK_DEADLOCK FALSE
