SPECIFICATION JudgerFairSpec
CONSTANTS
  Syscalls = {"fork", "exit_group"}
  CallLimit = {"exit_group"}
  ExitCall = "exit_group"
  Signals = {"SIGSEGV", "SIGKILL"}
  TimeLimit = 0
  MemoryLimit = 1
  MemoryAdd <- MCMemoryAdd
  UintMod = 8
  MaxTime = 1
  MaxMemory = 3
  RunTimes = 2
CHECK_DEADLOCK FALSE
INVARIANTS
  JudgerTypeOK
  AcceptedMeansMatched
PROPERTIES
  GradingSpec
  Judged
