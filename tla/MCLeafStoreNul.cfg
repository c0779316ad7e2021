\* Keys that differ only behind a NUL byte.
SPECIFICATION Spec
CONSTANTS
  Key = {1, 2, 3}
  Val = {9}
  Long = {3, 9}
  CStr <- NulCStr
  PearsonHash <- NulHash
  NODE_KEYS = 2
  NODE_KEYS_MIDPOINT = 1
  None = None
  PoolLeaves = 2
  MaxOpened = 2
PROPERTY
  PutTakesEffect
CHECK_DEADLOCK FALSE
