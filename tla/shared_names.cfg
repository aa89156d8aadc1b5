SPECIFICATION FairSpec
CONSTANTS
  Namespaces <- Rivals
  MaxGen = 3
  MaxLives = 2
  MaxFaults = 1
INVARIANT TypeOK
INVARIANT NeverForeignMap
PROPERTY KeepsToOwn
PROPERTY SurvivorServes
CHECK_DEADLOCK FALSE
