SPECIFICATION FairSpec
CONSTANTS
  Clients = {c1, c2}
  Workers = {w1, w2}
  Kinds = {"ends", "loops", "unbuilt", "mistyped"}
  Faults = {"env", "file"}
  HWM = 1
  MaxRequests = 2
CHECK_DEADLOCK FALSE
INVARIANTS
  TypeOK
  InOnePlace
PROPERTIES
  ServiceSpec
  AnsweredUnlessStranded
