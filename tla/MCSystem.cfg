SPECIFICATION FairSpec
CONSTANTS
  c1 = c1
  c2 = c2
  Clients = {c1, c2}
  Workers = {w1, w2}
  HWM = 1
  Tasks = {"s1", "s2", "s3", "s4", "s5"}
  Submissions <- Several
  RunId <- OwnRunId
  Right = {"s2"}
  Broken = {"s5"}
  Unbuilt = {"s4"}
  Language = "compiled"
  Leftover = {"r1"}
  RunTimes = 1
  MaxFds = 6
  Faults = {}
CHECK_DEADLOCK FALSE
INVARIANTS
  TypeOK
  OwnVerdict
  CleanBeforeReply
  StaysUp
PROPERTIES
  Answered
  ServerSpec
