SPECIFICATION Spec
CONSTANTS
  t1 = t1
  t2 = t2
  c1 = c1
  Turns <- MCTurns
  Conversations <- MCConversations
  MaxFaults = 0
CHECK_DEADLOCK FALSE
INVARIANT MemoryNamesShownMessage
