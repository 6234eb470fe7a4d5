SPECIFICATION FairSpec
CONSTANTS
  first = first
  name = name
  r1 = r1
  r2 = r2
  l1 = l1
  None = None
  Keys <- MCOneKey
  NameOf <- MCOneNameOf
  Names = {name}
  Runs <- MCTwoRuns
  Loops = {l1}
  Disruptions <- MCEach
  MaxGen = 2
  MaxQueue = 1
  Invalid = {}
  SecretAtStart = {TRUE}
  Parts = 2
  RetryStart = 5
  RetryMax = 5
INVARIANTS OneRun NoEventLost RetryIdle
PROPERTIES ForwardUnlessFailed Converges Quiet
