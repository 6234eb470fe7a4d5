SPECIFICATION FairSpec
CONSTANTS
  x = x
  y = y
  None = None
  Writers = {w1, w2}
  Compacting = {w1}
  Reader = Reader
  Tables = {1, 2}
  BlocksTable = 1
  ReadOrder <- MCReadOrder
  Logs <- MCLogs
  Size = 3
  Batch = 2
  Addresses = {x, y}
  MaxFaults = 1
INVARIANTS MadeExist LockOrder Addressed CursorCovered Tidy
PROPERTIES Advances
