SPECIFICATION FairSpec
CONSTANTS
  Clients = {c1, c2, c3}
  Workers = {w1}
  Kinds = {"ends"}
  Faults = {}
  HWM = 1
  MaxRequests = 2
CHECK_DEADLOCK FALSE
PROPERTY AnsweredUnlessStranded
