SPECIFICATION FairSpec
CONSTANTS
  Workers = {w1, w2}
  Tasks = {"t1", "t2", "t3"}
  RunId <- MixedRunId
  Unbuilt = {}
  Language = "compiled"
  Leftover = {"r0", "r3"}
  RunTimes = 1
  MaxFds = 6
  Faults = {"mkdir", "fork", "litter"}
CHECK_DEADLOCK FALSE
INVARIANTS
  TypeOK
  OwnProgramUnlessShared
  NoFileError
  DirectoryRemoved
PROPERTY TaskEnds
