\* A transaction may fail and the application goes on.
SPECIFICATION AbortsSpec
CONSTANTS
  Key = {1, 2, 3}
  Val = {8, 9}
  Long = {3, 9}
  CStr <- MCCStr
  PearsonHash <- MCHash
  NODE_KEYS = 2
  NODE_KEYS_MIDPOINT = 1
  None = None
  PoolLeaves = 2
  MaxOpened = 2
INVARIANT
  GetReadsContents
CHECK_DEADLOCK FALSE
