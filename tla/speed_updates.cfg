SPECIFICATION FairSpec
CONSTANTS
  MaxHours = 4
  MaxActive = 1
  BackoffLimit = 1
  MaxFaults = 3
INVARIANTS
  TypeOK
  NoTornMap
  FreshTraffic
PROPERTIES
  MapReturns
