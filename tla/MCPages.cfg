SPECIFICATION FairPageSpec
CONSTANTS
  Moves <- MCMoves
  Subject = "a"
  Txs = {1}
  Pooled = {1}
  Tokens = {"t1"}
  Size = 1
  Latest = 2
  Slack = 0
  Outage = 2
  Polls = 1
  MaxBlock = 2
  MaxFaults = 1
CHECK_DEADLOCK FALSE
INVARIANTS HistoryWhole
PROPERTIES TokensLearned PagesSettle
