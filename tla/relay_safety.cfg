SPECIFICATION Spec
CONSTANTS
  Orgs = {"o1","o2"}
  NoOrg = NoOrg
  Workers = {w1, w2}
  Serves = {"s1","t1"}
  Denials = {"d1"}
  Outcomes = {"x1"}
  Orphans = {"t1"}
  Refused = {"x1"}
  Exempt = {"o2"}
  QueueSize = 1
  FetchLimit = 4
  MaxMsgs = 2
  FaultKinds = {"report","pass","check","drop","miss","crash"}
  MaxFaults = 1
  MaxReRecords = 0
  MaxFiling = 1
  OrgOf <- MCOrgOf
  MemoryOf <- MCMemoryOf
  EpochOf <- MCEpochOf
  ServeOf <- MCServeOf
CHECK_DEADLOCK FALSE
SYMMETRY Symmetry
INVARIANTS
  TypeOK
  SingleFlight
  NoStrandedOrg
  NoLostWakeup
  SubmittedIsBacked
  IncludedOnce
  ServeFirstInPass
PROPERTIES
  ImplementsOutbox
