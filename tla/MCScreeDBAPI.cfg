SPECIFICATION Spec
CONSTANTS
  Strings = {s1, s2, s3}
  Text <- Texts
  EmptyText = ""
  Strlen <- Lengths
  SSO_CHARS = 1
  Address = {a1, a2, a3}
  Null = Null
  Keys = {k1, k2}
  MaxKeys = 2
SYMMETRY Symmetry
INVARIANTS
  MemoryOwnedOnce
  ReadsBack
  FreedAsAllocated
  
