\* One viewer of a three-block tape, a lost connection or restart, a rewind.
SPECIFICATION FairSpec
CONSTANTS
  Moves <- MCMoves
  BufferMoves = 2
  Catchup = 1
  MaxGap = 2
  HighWater = 4
  MaxBlock = 3
  MaxFaults = 1
  MaxRecreated = 1
CHECK_DEADLOCK FALSE
INVARIANTS
  NoGap
PROPERTIES
  HeldForLane
  TapeCatchesUp
