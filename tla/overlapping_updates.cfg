SPECIFICATION Spec
CONSTANTS
  MaxHours = 2
  MaxActive = 2
  BackoffLimit = 2
  MaxFaults = 0
INVARIANTS
  MapInPlace
