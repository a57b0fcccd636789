SPECIFICATION FairSpec
CONSTANTS
  s1 = s1
  s2 = s2
  r1 = r1
  r2 = r2
  Scripts <- MCScripts
  Conversed <- MCConversed
  Requests <- MCRequests
  MaxFaults = 2
CHECK_DEADLOCK FALSE
INVARIANTS
  ReplyHolds
  AnswerAfterRun
PROPERTIES
  ApprovalCloses
  DecidesOnce
