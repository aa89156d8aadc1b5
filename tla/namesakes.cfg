SPECIFICATION FairSpec
CONSTANTS
  Namespaces <- Namesakes
  MaxGen = 4
  MaxLives = 2
  MaxFaults = 0
PROPERTY KeepsActive
CHECK_DEADLOCK FALSE
