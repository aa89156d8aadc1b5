SPECIFICATION FairSpec
CONSTANTS
  car = car
  foot = foot
  u1 = u1
  u2 = u2
  NoUrl = NoUrl
  Profiles <- MCProfiles
  URLs <- MCURLs
  Specs <- SomeSpecs
  FirstSpec <- First
  UserOps = {"edit"}
  Failures = {"collect"}
  Lagging = {}
  MaxGen = 3
  MaxEdits = 2
  MaxFaults = 1
PROPERTIES
  Converges
