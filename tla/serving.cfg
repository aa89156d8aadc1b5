SPECIFICATION FairSpec
CONSTANTS
  car = car
  foot = foot
  Profiles <- MCProfiles
  Specs <- SomeSpecs
  FirstSpec <- First
  UserOps = {"edit", "pause"}
  Failures = {"call", "pods"}
  MaxAddress = 4
  MaxEdits = 2
  MaxFaults = 1
INVARIANTS
  TypeOK
  ChildrenMatchSpec
  GatewayRoutesWorkers
  
PROPERTIES
  Converges
