SPECIFICATION Spec
CONSTANTS
  Threads = {t1, t2}
  Keys = {k1, k2}
  Values = {v1, v2}
  NODE_KEYS = 3
  MaxCalls = 2
  None = None
SYMMETRY Symmetry
INVARIANTS
  PutsAreKept
CHECK_DEADLOCK FALSE
