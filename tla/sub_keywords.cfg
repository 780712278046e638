SPECIFICATION Spec
CONSTANTS
  Memories = {m1}
  NoMemory = NoMemory
  ContributorOf <- MCContributorOf
  Moderators = {}
  Verifiers = {q1}
  Redrives = {}
  Watcher = watcher
  FaultKinds = {}
  MaxFaults = 0
  MaxSubmits = 1
  MaxBlocks = 1
CHECK_DEADLOCK FALSE
INVARIANTS
  KeywordsAreVerified
