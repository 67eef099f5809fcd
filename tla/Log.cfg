SPECIFICATION FairSpec
CONSTANTS
  Threads = {"broker", "w1"}
  MaxLines = 3
  MaxItems = 2
CHECK_DEADLOCK FALSE
INVARIANTS
  TypeOK
  WholeLines
  HeldWithinStatement
PROPERTY LineWritten
