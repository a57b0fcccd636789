SPECIFICATION Spec
CONSTANTS
  e1 = e1
  e2 = e2
  m1 = m1
  near = near
  None = None
  Intents <- MCIntents
  ScriptEntity = {1, 2}
  ClosedValues <- MCClosedValues
  TopK = 2
  Floor = 2
  Margin = 1
  Entries = {e1, e2}
  Near = near
  NearEntry = e1
  OpenEntity = {1}
  Required = {"app", "place"}
  MaxScore = 3
  LabelBudget = 1
  Messages <- MCMessages
INVARIANT ClosedValueProven
CHECK_DEADLOCK FALSE
