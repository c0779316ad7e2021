SPECIFICATION Spec
CONSTANTS
  Writer = {1, 2, 3}
  Null = Null
  SmallBatch = 2
  MaxGroup = 3
  Requests <- Combinations
  Faults = {"prepare", "log", "insert"}
  AllowConcurrentMemtableWrite = TRUE
INVARIANTS
  NoDanglingWriter
  LinksAgree
  ExclusiveWriters
  OkMeansWritten
  ReplayAgrees
  PublishedApplied
PROPERTY
  EveryWriteReturns
CHECK_DEADLOCK FALSE
