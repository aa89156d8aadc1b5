SPECIFICATION Spec
CONSTANTS
  car = car
  foot = foot
  u1 = u1
  u2 = u2
  NoUrl = NoUrl
  Profiles <- MCProfiles
  URLs <- MCURLs
  Specs <- AllSpecs
  FirstSpec <- First
  UserOps = {"patientEdit"}
  Failures = {"call", "collect", "job", "pods"}
  Lagging = {"Job", "Deployment"}
  MaxGen = 5
  MaxEdits = 3
  MaxFaults = 1
INVARIANTS
  ServesSpec
  QuiescentPhase
  NoLeftovers
  BuiltBeforeDeployed
