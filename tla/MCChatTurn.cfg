SPECIFICATION Spec
CONSTANTS
  t1 = t1
  t2 = t2
  c1 = c1
  Turns <- MCTurns
  Conversations <- MCConversations
  MaxFaults = 1
CHECK_DEADLOCK FALSE
SYMMETRY TurnSymmetry
INVARIANTS
  HandledMeansStored
  TurnsListedWhole
  AnswersListedAfterTurn
