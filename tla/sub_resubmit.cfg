SPECIFICATION FairSpec
CONSTANTS
  Memories = {m1}
  NoMemory = NoMemory
  ContributorOf <- MCContributorOf
  Moderators = {v1}
  Verifiers = {q1}
  Redrives = {r1}
  Watcher = watcher
  FaultKinds = {"query","index","update","record","miss","crash"}
  MaxFaults = 2
  MaxSubmits = 2
  MaxBlocks = 2
CHECK_DEADLOCK FALSE
PROPERTIES
  VotesAreFrozen
  ImplementsLifecycle
  ApprovalsAreTaken
