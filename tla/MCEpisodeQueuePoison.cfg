SPECIFICATION FairSpec
CONSTANTS
  user = user
  Names <- MCNames
  Turns = 2
  MaxFacts = 2
  MaxCuts = 1
  MaxFaults = 0
CHECK_DEADLOCK FALSE
PROPERTY NeverRetriedForEver
