SPECIFICATION Spec
CONSTANTS
  x1 = x1
  x2 = x2
  lives = lives
  v1 = v1
  v2 = v2
  worker = worker
  editor = editor
  Names <- MCNames
  Relations <- MCRelations
  Values <- MCValues
  Workers <- MCWorkers
  Editors <- MCEditors
  MaxNodes = 2
  MaxEdges = 3
  MaxCalls = 3
  MaxFaults = 0
CHECK_DEADLOCK FALSE
INVARIANT OneCurrent
