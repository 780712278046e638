SPECIFICATION FairSpec
CONSTANTS
  MaxHeight = 5
  InitialCursors = {0, 1}
  StreamCap = 2
  FaultKinds = {"cursor","rpc","save","block","close","lost","crash"}
  MaxFaults = 2
CHECK_DEADLOCK FALSE
INVARIANTS
  TypeOK
  LossesAreKnown
  RepeatsAreInterruptions
PROPERTIES
  CursorMonotone
  BlocksAreProcessed
