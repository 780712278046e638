SPECIFICATION Spec
CONSTANTS
  f = f
  a = a
  People = {f, a}
  Founder = f
  NoOne = NoOne
  MaxRequests = 1
  MaxMessages = 2
  Credits = 1
  Acts = {"add","invite","recall"}
  FaultKinds = {"crash"}
  MaxFaults = 1
CHECK_DEADLOCK FALSE
PROPERTIES
  RecallIsExplicit
