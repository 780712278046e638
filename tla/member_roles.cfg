SPECIFICATION FairSpec
CONSTANTS
  f = f
  a = a
  People = {f, a}
  Founder = f
  NoOne = NoOne
  MaxRequests = 1
  MaxMessages = 3
  Credits = 1
  Acts = {"add","transfer","caps","close","join","invite"}
  FaultKinds = {"miss","update","pass","crash"}
  MaxFaults = 1
CHECK_DEADLOCK FALSE
INVARIANTS
  MembersFollowChain
PROPERTIES
  RolesConverge
  ConfirmingSettles
