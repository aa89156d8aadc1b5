SPECIFICATION Spec
CONSTANTS
  car = car
  foot = foot
  u1 = u1
  u2 = u2
  NoUrl = NoUrl
  Profiles <- MCProfiles
  URLs <- MCURLs
  Specs <- AllSpecs
  FirstSpec <- First
  UserOps = {"edit", "tamper"}
  Failures = {"call", "collect", "job", "pods"}
  Lagging = {}
  MaxGen = 4
  MaxEdits = 2
  MaxFaults = 1
INVARIANTS
  BuiltBeforeDeployed
  QuiescentPhase
  NoLeftovers
PROPERTIES
  SwitchesMaps
  LastAppliedIsCurrent
