CONSTANTS
  FieldNames = {"received", "x"}
  Protected = {"received"}
  FieldValues = {"", " ", "a", " a"}
  Trim <- MCTrim
  Original <- MCOriginal
  MaxIndex = 2
  ParsedHeap <- MCHeap
  Texts = {"t", "u"}
  MaxNodes = 16
  MaxLoops = 2
  MaxFieldCommands = 3
  MaxPartCommands = 6
SPECIFICATION Spec
INVARIANT LeafEditsStayAttached
PROPERTIES
  ReplaysAsEdited
  ReplaceShownIfAttached
CHECK_DEADLOCK FALSE
