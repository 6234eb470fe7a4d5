SPECIFICATION FairSpec
CONSTANTS
  s1 = s1
  s2 = s2
  s3 = s3
  m1 = m1
  m2 = m2
  NoModel = NoModel
  None = None
  Rows <- MCRows
  Models = {m1, m2}
  Start <- MCTwoBehind
  BatchBlocks = 3
  MaxRows = 2
  BatchMax = 2
  MaxChain = 3
  MaxFaults = 2
  MaxSwaps = 1
INVARIANTS AnsweredKept RoundBounded
PROPERTIES FollowsRows CatchesUp
