SPECIFICATION Spec
CONSTANTS
  car = car
  foot = foot
  u1 = u1
  u2 = u2
  NoUrl = NoUrl
  Profiles <- MCProfiles
  URLs <- MCURLs
  Specs <- UrlSpecs
  FirstSpec <- First
  UserOps = {"edit", "pause", "replace", "delete"}
  Failures = {"job", "pods"}
  Lagging = {}
  MaxGen = 4
  MaxEdits = 3
  MaxFaults = 1
INVARIANTS
  TypeOK
  WorkersHaveMap
  MountedVolumesQuiet
  BlueAndGreenOnly
PROPERTIES
  SwitchesMapsSafely
CHECK_DEADLOCK FALSE
