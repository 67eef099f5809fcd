SPECIFICATION FairSpec
CONSTANT WorkerNums = 3
CHECK_DEADLOCK FALSE
INVARIANTS
  TypeOK
  NumberNotStale
  RunsWithServer
PROPERTIES
  FailureEnds
  WorkersEnd
  AllServe
