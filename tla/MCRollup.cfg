\* Two replicas, a fold that times out, two faults, one schema recreated.
SPECIFICATION FairSpec
CONSTANTS
  r1 = r1
  r2 = r2
  Replicas <- MCReplicas
  Busy <- MCBusy
  Floor = 1
  MaxSpan = 4
  Affordable = 1
  Watched = TRUE
  MaxBlock = 4
  MaxFaults = 2
  MaxRecreated = 1
CHECK_DEADLOCK FALSE
INVARIANTS
  FoldedOnce
PROPERTY RollsUp
