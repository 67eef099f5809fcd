SPECIFICATION Spec
CONSTANTS
  c1 = c1
  c2 = c2
  Clients = {c1, c2}
  Workers = {w1, w2}
  HWM = 1
  Tasks = {"s1", "s2"}
  Submissions <- One
  RunId <- SameRunId
  Right = {"s1"}
  Broken = {}
  Unbuilt = {}
  Language = "compiled"
  Leftover = {}
  RunTimes = 1
  MaxFds = 9
  Faults = {}
CHECK_DEADLOCK FALSE
INVARIANT OwnVerdict
