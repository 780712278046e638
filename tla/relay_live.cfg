SPECIFICATION FairSpec
CONSTANTS
  Orgs = {"o1","o2"}
  NoOrg = NoOrg
  Workers = {w1}
  Serves = {"t1"}
  Denials = {"d1"}
  Outcomes = {"x1"}
  Orphans = {"t1"}
  Refused = {"x1"}
  Exempt = {"o2"}
  QueueSize = 1
  FetchLimit = 4
  MaxMsgs = 2
  FaultKinds = {"report","pass","check","drop","miss","crash"}
  MaxFaults = 1
  MaxReRecords = 1
  MaxFiling = 1
  OrgOf <- MCOrgOf
  MemoryOf <- MCMemoryOf
  EpochOf <- MCEpochOf
  ServeOf <- MCServeOf
CHECK_DEADLOCK FALSE
PROPERTIES
  ServesLeave
  OutcomesLeave
