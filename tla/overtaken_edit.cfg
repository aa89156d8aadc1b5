SPECIFICATION Spec
CONSTANTS
  car = car
  foot = foot
  u1 = u1
  u2 = u2
  NoUrl = NoUrl
  Profiles <- MCOneProfile
  URLs <- MCURLs
  Specs <- OneProfile
  FirstSpec <- FirstOne
  UserOps = {"edit"}
  Failures = {}
  Lagging = {}
  MaxGen = 3
  MaxEdits = 2
  MaxFaults = 0
INVARIANTS
  ServesSpec
