\* Announced heads, a capped provider, faults: every safety property.
SPECIFICATION FairSpec
CONSTANTS
  usdc = usdc
  vault = vault
  n1 = n1
  n2 = n2
  tail = tail
  Tail = tail
  Contracts <- MCContracts
  StartOf <- MCAbsolute
  Logs <- MCLogs
  Nodes <- MCOneNode
  Latest = TRUE
  HeadFirst = TRUE
  Batch = 3
  GrowAfter = 2
  ProviderCap = 2
  MaxBlock = 4
  MaxFaults = 3
INVARIANTS
  Complete
  DeadOnce
  LiveMeansNear
PROPERTIES
  NoSleepThrough
  SettledHistory
  CatchesUp
  SettlesLive
  FollowsChain
