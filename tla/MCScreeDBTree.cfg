\* Four keys, one slot a leaf: every new key splits a leaf, and inner nodes split too.
SPECIFICATION Spec
CONSTANTS
  Key = {1, 2, 3, 4}
  Val = {9}
  Long = {3}
  CStr <- MCCStr
  PearsonHash <- MCHash
  NODE_KEYS = 1
  NODE_KEYS_MIDPOINT = 0
  INNER_KEYS = 2
  None = None
  PoolLeaves = 4
  MaxOpened = 2
INVARIANTS
  BalancedTree
  LeavesInTree
PROPERTIES
  ImplementsLeafStore
CHECK_DEADLOCK FALSE
