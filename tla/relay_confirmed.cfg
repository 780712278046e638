SPECIFICATION Spec
CONSTANTS
  Orgs = {"o1"}
  NoOrg = NoOrg
  Workers = {w1}
  Serves = {"s1","s2"}
  Denials = {}
  Outcomes = {}
  Orphans = {}
  Refused = {}
  Exempt = {}
  QueueSize = 1
  FetchLimit = 4
  MaxMsgs = 3
  FaultKinds = {}
  MaxFaults = 0
  MaxReRecords = 0
  MaxFiling = 1
  OrgOf <- MCOrgOf
  MemoryOf <- MCMemoryOf
  EpochOf <- MCEpochOf
  ServeOf <- MCServeOf
CHECK_DEADLOCK FALSE
INVARIANTS
  ConfirmedIsOnChain
