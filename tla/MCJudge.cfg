SPECIFICATION RunTerminatingSpec
CONSTANTS
  Syscalls = {"read", "fork", "exit_group"}
  CallLimit = {"read", "exit_group"}
  ExitCall = "exit_group"
  Signals = {"SIGSEGV", "SIGXCPU", "SIGTRAP", "SIGKILL"}
  TimeLimit = 1
  MemoryLimit = 1
  MemoryAdd <- MCMemoryAdd
  UintMod = 4
  MaxTime = 4
  MaxMemory = 6
CHECK_DEADLOCK FALSE
INVARIANTS
  TypeOK
  AllowedCallsOnly
  AcceptedRunExited
  AcceptedRunWithinLimits
  MemoryVerdict
  DownOnlyByKill
PROPERTY RunReturns
