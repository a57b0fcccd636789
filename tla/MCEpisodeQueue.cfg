SPECIFICATION FairSpec
CONSTANTS
  user = user
  Names <- MCNames
  Turns = 2
  MaxFacts = 2
  MaxCuts = 1
  MaxFaults = 1
CHECK_DEADLOCK FALSE
INVARIANTS
  TriesCounted
  ClosedMeansRead
  SightedOnce
  WordsOutliveTheWait
PROPERTY QueueDrains
