SPECIFICATION Spec
CONSTANTS
  Txn = {t1, t2}
  Key = {1}
  GetStripe <- OneStripe
  MaxSequence = 2
  MaxSavePoints = 1
INVARIANTS
  LocksHeldAtCommit
  NoWriteSinceSnapshot
  NothingLeftLocked
SYMMETRY Symmetry
VIEW View
CHECK_DEADLOCK FALSE
