SPECIFICATION FairReadSpec
CONSTANTS
  alice = alice
  bob = bob
  carol = carol
  token = token
  pool = pool
  pair = pair
  aero = aero
  factory = factory
  swapTopic = swapTopic
  transferTopic = transferTopic
  transferCall = transferCall
  empty = empty
  None = None
  Nothing = Nothing
  NoContext = NoContext
  NoRound = NoRound
  ZeroAddress = ZeroAddress
  Count = 2
  Chunk <- MCChunk
  Shared = {1}
  Calls <- MCCalls
  Oversized <- MCOversized
  RestStart = 1
  RestMax = 1
  PaceStart = 1
  PaceMin = 1
  PaceMax = 1
  FactOfSelector <- MCFactOfSelector
  FactOfTopic <- MCFactOfTopic
  PlainSelectors = {empty, transferCall}
  EmptyInput = empty
  MovementTopics = {transferTopic}
  PoolTopics = {swapTopic}
  Rules <- MCRules
  EntryPoints = {}
  PoolManager = PoolManager
  VenueOfFactory <- MCVenueOfFactory
  Rows <- MCRows
  FactoryOf <- MCFactoryOf
  IsContract <- MCIsContract
  CacheMax = 2
  FactoryRetry = 1
  MaxRows = 1
INVARIANTS RejectedByAll DescribedFromChain
PROPERTIES Recovers
