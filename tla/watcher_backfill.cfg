SPECIFICATION Spec
CONSTANTS
  MaxHeight = 5
  InitialCursors = {1}
  StreamCap = 1
  FaultKinds = {"crash"}
  MaxFaults = 1
CHECK_DEADLOCK FALSE
INVARIANTS
  MissedBlocksAreBackfilled
