SPECIFICATION Spec
CONSTANTS
  Memories = {m1, m2}
  NoMemory = NoMemory
  ContributorOf <- MCContributorOf
  Moderators = {v1}
  Verifiers = {q1}
  Redrives = {r1}
  Watcher = watcher
  FaultKinds = {"query","index","update","record","miss","crash"}
  MaxFaults = 1
  MaxSubmits = 1
  MaxBlocks = 1
CHECK_DEADLOCK FALSE
SYMMETRY Symmetry
INVARIANTS
  TypeOK
  CommittedIsSearchable
  StuckIsReported
