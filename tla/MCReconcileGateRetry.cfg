SPECIFICATION FairSpec
CONSTANTS
  first = first
  name = name
  r1 = r1
  r2 = r2
  l1 = l1
  None = None
  Keys <- MCOneKey
  NameOf <- MCOneNameOf
  Names = {name}
  Runs <- MCTwoRuns
  Loops = {}
  Disruptions <- MCRestart
  MaxGen = 2
  MaxQueue = 2
  Invalid = {1}
  SecretAtStart = {TRUE, FALSE}
  Parts = 2
  RetryStart = 5
  RetryMax = 12
CHECK_DEADLOCK FALSE
PROPERTIES Forgotten
