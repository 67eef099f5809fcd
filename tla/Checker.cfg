SPECIFICATION Spec
CONSTANTS
  Bytes = {"a", "b", "space", "newline", "nul"}
  Blanks = {"space", "newline"}
  MaxLength = 3
  MaxUser = 4
  MaxRight = 4
CHECK_DEADLOCK FALSE
INVARIANTS
  TypeOK
  VerdictCorrect
PROPERTY CheckerReturns
