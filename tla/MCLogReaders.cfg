SPECIFICATION Spec
CONSTANTS
  kBlockSize = 6
  kHeaderSize = 2
  kRecyclableHeaderSize = 3
  RecordSizes = {0, 2, 7}
  MaxRecords = 2
  MaxTailRecords = 3
INVARIANTS
  InOneBlock
  FragmentsFollow
  ReplaysPrefix
  SyncedReplayed
  TornTailTolerated
  TailInOrder
PROPERTY
  TailCatchesUp
CHECK_DEADLOCK FALSE
