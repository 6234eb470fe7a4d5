\* An omitted startBlock, and one restart.
SPECIFICATION Spec
CONSTANTS
  usdc = usdc
  vault = vault
  n1 = n1
  n2 = n2
  tail = tail
  Tail = tail
  Contracts <- MCContracts
  StartOf <- MCRelative
  Logs <- MCLogs
  Nodes <- MCOneNode
  Latest = TRUE
  HeadFirst = TRUE
  Batch = 3
  GrowAfter = 2
  ProviderCap = 3
  MaxBlock = 3
  MaxFaults = 1
INVARIANT Complete
