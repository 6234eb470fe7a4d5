\* The guard's two requests answered at different instants.
SPECIFICATION Spec
CONSTANTS
  usdc = usdc
  vault = vault
  n1 = n1
  n2 = n2
  tail = tail
  Tail = tail
  Contracts <- MCContracts
  StartOf <- MCAbsolute
  Logs <- MCLogs
  Nodes <- MCOneNode
  Latest = TRUE
  HeadFirst = FALSE
  Batch = 3
  GrowAfter = 2
  ProviderCap = 3
  MaxBlock = 3
  MaxFaults = 0
INVARIANT Complete
