\* Eight keys, one slot a leaf: three levels of inner nodes.
SPECIFICATION GrowSpec
CONSTANTS
  Key = {1, 2, 3, 4, 5, 6, 7, 8}
  Val = {9}
  Long = {3}
  CStr <- MCCStr
  PearsonHash <- MCHash
  NODE_KEYS = 1
  NODE_KEYS_MIDPOINT = 0
  INNER_KEYS = 2
  None = None
  PoolLeaves = 8
  MaxOpened = 2
PROPERTIES
  ImplementsLeafStore
  CallsEnd
CHECK_DEADLOCK FALSE
