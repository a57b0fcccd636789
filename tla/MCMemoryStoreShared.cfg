SPECIFICATION Spec
CONSTANTS
  x1 = x1
  x2 = x2
  lives = lives
  v1 = v1
  v2 = v2
  worker = worker
  editor = editor
  Names <- MCNames
  Relations <- MCRelations
  Values <- MCOneValue
  Workers <- MCWorkers
  Editors <- MCEditors
  MaxNodes = 2
  MaxEdges = 2
  MaxCalls = 3
  MaxFaults = 1
CHECK_DEADLOCK FALSE
SYMMETRY NameSymmetry
PROPERTIES
  HistoryKept
  NamesStay
