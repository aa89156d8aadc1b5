SPECIFICATION FairSpec
CONSTANTS
  car = car
  foot = foot
  u1 = u1
  u2 = u2
  NoUrl = NoUrl
  Profiles <- MCProfiles
  URLs <- MCURLs
  Specs <- SomeSpecs
  FirstSpec <- First
  UserOps = {"edit", "pause", "delete"}
  Failures = {"call", "pods"}
  Lagging = {}
  MaxGen = 4
  MaxEdits = 2
  MaxFaults = 1
INVARIANT BlueAndGreenOnly
PROPERTIES
  Converges
  DeletionCompletes
CHECK_DEADLOCK FALSE
