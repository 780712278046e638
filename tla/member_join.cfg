SPECIFICATION Spec
CONSTANTS
  f = f
  a = a
  People = {f, a}
  Founder = f
  NoOne = NoOne
  MaxRequests = 2
  MaxMessages = 3
  Credits = 1
  Acts = {"add","remove","join","deny","recall"}
  FaultKinds = {"crash"}
  MaxFaults = 1
CHECK_DEADLOCK FALSE
INVARIANTS
  TypeOK
  MembersFollowChain
  ApprovedAreMembers
