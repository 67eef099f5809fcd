SPECIFICATION FairSpec
CONSTANTS
  Clients = {c1, c2}
  Workers = {w1}
  Kinds = {"ends", "unbuilt"}
  Faults = {}
  HWM = 1
  MaxRequests = 2
CHECK_DEADLOCK FALSE
PROPERTY EveryRequestAnswered
