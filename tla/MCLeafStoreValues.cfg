\* Two leaves, and two values to overwrite one another.
SPECIFICATION Spec
CONSTANTS
  Key = {1, 2, 3}
  Val = {8, 9}
  Long = {3, 9}
  CStr <- MCCStr
  PearsonHash <- MCHash
  NODE_KEYS = 2
  NODE_KEYS_MIDPOINT = 1
  None = None
  PoolLeaves = 2
  MaxOpened = 2
INVARIANTS
  CacheCoherent
  NoDuplicateKeys
  GetReadsContents
PROPERTIES
  PutTakesEffect
  DeleteTakesEffect
  ImplementsKVStore
CHECK_DEADLOCK FALSE
