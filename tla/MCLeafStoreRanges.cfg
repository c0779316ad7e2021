\* Three leaves, one of which may be emptied and dropped when the pool is opened.
SPECIFICATION Spec
CONSTANTS
  Key = {1, 2, 3, 4}
  Val = {9}
  Long = {3}
  CStr <- MCCStr
  PearsonHash <- MCHash
  NODE_KEYS = 2
  NODE_KEYS_MIDPOINT = 1
  None = None
  PoolLeaves = 3
  MaxOpened = 3
INVARIANTS
  EveryEntryReachable
  DisjointRanges
CHECK_DEADLOCK FALSE
