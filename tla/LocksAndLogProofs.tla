------------------------- MODULE LocksAndLogProofs --------------------------
(***************************************************************************)
(* Proofs about three components that others build on: the locks of        *)
(* transactions, the handshake between a waiting writer and the thread     *)
(* that sets its state, and the writer of the log.                         *)
(***************************************************************************)
EXTENDS TransactionLocks, WriterState, LogWriter, TLAPS

-----------------------------------------------------------------------------
(***************************************************************************)
(* The four invariants of TransactionLocks, for any transactions, keys and *)
(* stripes.                                                                *)
(*                                                                         *)
(* A transaction loses a lock it has not released only when another steals *)
(* it, which changes its exec_status_ to LOCKS_STOLEN.  So a transaction   *)
(* whose locks are not stolen holds all the locks it knows of (Held), and  *)
(* as a key has one holder (OneHolder), what it knows of the key's last    *)
(* write stays true (Unmodified): the only others that write the key would *)
(* hold its lock.  A transaction that writes has no stolen lock, because   *)
(* it is COMMITTING or never expires (Status).                             *)
(***************************************************************************)

Ended == {"deleted", "reused"}
Label == {"new", "run", "acquire", "validate", "unlock", "exchange", "write", "ended"}
           \cup Ended
Op == [key : Key, write : BOOLEAN, untracked : BOOLEAN]
SavePoint == [keys : SUBSET Key, batch : SUBSET Key, snapshot : SUBSET Nat]

LocksType ==
  /\ keys \in [Key -> SUBSET Txn]
  /\ exec_status_ \in [Txn -> {"STARTED", "COMMITTING", "LOCKS_STOLEN"}]
  /\ expiring \in SUBSET Txn /\ expired \in SUBSET expiring
  /\ expirable_transactions_map_ \in SUBSET Txn

DatabaseType == LastSequence \in Nat /\ modified \in [Key -> Nat]

TrackingType ==
  /\ tracked_keys_ \in [Txn -> SUBSET Key]
  /\ seq \in [Txn -> [Key -> Nat]]
  /\ batch \in [Txn -> SUBSET Key]
  /\ snapshot_ \in [Txn -> SUBSET Nat]
  /\ save_points_ \in [Txn -> Seq(SavePoint)]
  /\ since \in [Txn -> [Key -> Nat]]

ControlType ==
  /\ pc \in [Txn -> Label]
  /\ op \in [Txn -> Op]
  /\ to_unlock \in [Txn -> SUBSET Key]
  /\ after \in [Txn -> {"run", "ended"} \cup Ended]

TypeOK == LocksType /\ DatabaseType /\ TrackingType /\ ControlType

\* The keys that t has locked and not released.
Locked(t) ==
  tracked_keys_[t] \cup to_unlock[t]
    \cup (IF pc[t] = "validate" THEN {op[t].key} ELSE {})

Stolen(t) == exec_status_[t] = "LOCKS_STOLEN"

OneHolder == \A k \in Key : \A t, u \in keys[k] : t = u

Held ==
  \A t \in Txn : \A k \in Key :
    /\ t \in keys[k] => k \in Locked(t)
    /\ k \in Locked(t) /\ ~Stolen(t) => t \in keys[k]

\* What a transaction is doing, and the keys it may then have.
Phase ==
  \A t \in Txn :
    /\ pc[t] # "unlock" => to_unlock[t] = {}
    /\ tracked_keys_[t] \cap to_unlock[t] = {}
    /\ pc[t] = "acquire" => op[t].key \notin tracked_keys_[t]
    /\ pc[t] \in {"new"} \cup Ended => tracked_keys_[t] = {}
    /\ pc[t] = "unlock" /\ after[t] \in Ended => tracked_keys_[t] = {}

Status ==
  \A t \in Txn :
    /\ Stolen(t) => t \in expired
    /\ pc[t] = "write" /\ t \in expiring => exec_status_[t] = "COMMITTING"
    /\ pc[t] = "new" => t \notin expiring
    /\ t \in expiring /\ pc[t] \notin Ended => t \in expirable_transactions_map_

\* The keys of a save point are still locked, and those of the ones below it
\* are among them.
SavePoints ==
  \A t \in Txn :
    /\ batch[t] \subseteq tracked_keys_[t]
    /\ \A i \in 1 .. Len(save_points_[t]) :
         /\ save_points_[t][i].batch \subseteq save_points_[t][i].keys
         /\ save_points_[t][i].keys \subseteq tracked_keys_[t]
         /\ \A j \in 1 .. i : save_points_[t][j].keys \subseteq save_points_[t][i].keys

Unmodified ==
  /\ \A k \in Key : modified[k] <= LastSequence
  /\ \A t \in Txn : ~Stolen(t) =>
       \A k \in tracked_keys_[t] : modified[k] <= seq[t][k] /\ seq[t][k] <= since[t][k]

LocksInv == TypeOK /\ OneHolder /\ Held /\ Phase /\ Status /\ SavePoints /\ Unmodified
-----------------------------------------------------------------------------
(***************************************************************************)
(* The steps, by what they do to the locks: Commit, CompareExchange,       *)
(* Write, Rollback and End either proceed to the write or clear.           *)
(***************************************************************************)

Clears(t) ==
  /\ pc[t] \in {"run", "exchange", "write", "ended"}
  /\ \E next \in {"run", "ended"} \cup Ended : Clear(t, next)
  /\ UNCHANGED locks

Writes(t) ==
  /\ pc[t] = "write"
  /\ LastSequence' = LastSequence + 1
  /\ modified' = [k \in Key |-> IF k \in batch[t] THEN LastSequence + 1 ELSE modified[k]]

Proceeds(t) ==
  /\ \/ pc[t] = "run" /\ t \notin expiring /\ Goto(t, "write") /\ UNCHANGED exec_status_
     \/ pc[t] = "run" /\ Goto(t, "exchange") /\ UNCHANGED exec_status_
     \/ /\ pc[t] = "exchange" /\ Goto(t, "write")
        /\ exec_status_[t] = "STARTED"
        /\ exec_status_' = [exec_status_ EXCEPT ![t] = "COMMITTING"]
  /\ UNCHANGED <<keys, expiring, expired, expirable_transactions_map_, database,
                 tracking, op, to_unlock, after>>

\* Commit, CompareExchange, Write, Rollback and End proceed, write or clear.
LEMMA CommitCases ==
  ASSUME NEW t \in Txn,
         Commit(t) \/ CompareExchange(t) \/ Write(t) \/ Rollback(t)
           \/ \E how \in Ended : End(t, how)
  PROVE  Proceeds(t) \/ (Clears(t) /\ (UNCHANGED database \/ Writes(t)))
<1>1. CASE Commit(t) /\ t \in expired
  BY <1>1, Zenon DEF Commit, Clears
<1>2. CASE Commit(t) /\ t \notin expired
  BY <1>2, Zenon DEF Commit, Proceeds, locks, Goto
<1>3. CASE CompareExchange(t) /\ exec_status_[t] = "STARTED"
  BY <1>3, Zenon DEF CompareExchange, Proceeds
<1>4. CASE CompareExchange(t) /\ exec_status_[t] # "STARTED"
  BY <1>4, Zenon DEF CompareExchange, Clears, locks
<1>5. CASE Write(t)
  BY <1>5, Zenon DEF Write, Clears, Writes
<1>6. CASE Rollback(t)
  BY <1>6, Zenon DEF Rollback, Clears
<1>7. CASE \E how \in Ended : End(t, how)
  BY <1>7, Zenon DEF End, Clears
<1> QED
  BY <1>1, <1>2, <1>3, <1>4, <1>5, <1>6, <1>7, Zenon

\* The steps of a transaction, by what they do to the locks.
LEMMA StepCases ==
  ASSUME NEW t \in Txn, Step(t)
  PROVE  \/ \E expires \in BOOLEAN : Initialize(t, expires)
         \/ SetSnapshot(t) \/ SetSavePoint(t)
         \/ \E o \in Op : TryLock(t, o)
         \/ AcquireLocked(t) \/ AcquireFails(t) \/ TryLockEnds(t) \/ ValidateFails(t)
         \/ UnLock(t) \/ UnLockEnds(t)
         \/ Proceeds(t)
         \/ Clears(t) /\ (UNCHANGED database \/ Writes(t))
         \/ RollbackToSavePoint(t) \/ \E k \in Key : UndoGetForUpdate(t, k)
         \/ Expire(t)
BY CommitCases, Zenon DEF Step, Op, Ended

\* The key of an operation is a key.
LEMMA OpKey == \A o \in Op : o.key \in Key
BY Zenon DEF Op

\* SetSnapshotIfNeeded sets a snapshot to a sequence number.
LEMMA SnapshotType ==
  ASSUME LocksInv, NEW t \in Txn, SetSnapshotIfNeeded(t)
  PROVE  snapshot_' \in [Txn -> SUBSET Nat]
<1>1. {LastSequence} \in SUBSET Nat
  BY Zenon DEF LocksInv, TypeOK, DatabaseType
<1> QED
  BY <1>1, Zenon DEF SetSnapshotIfNeeded, LocksInv, TypeOK, TrackingType

\* What TryLock tracks of the key: it is not modified after the first number,
\* which is no later than the second.
LEMMA Tracked ==
  ASSUME LocksInv, NEW t \in Txn, TryLockEnds(t)
  PROVE  \E m, n \in Nat :
           /\ TrackKey(t, m, n)
           /\ ~Stolen(t) => modified[op[t].key] <= m /\ m <= n
<1> DEFINE k == op[t].key
<1>1. k \in Key
  BY OpKey, Zenon DEF LocksInv, TypeOK, ControlType
<1>2. snapshot_'[t] \subseteq Nat
  BY SnapshotType, Zenon DEF TryLockEnds
<1>3. modified[k] \in Nat /\ LastSequence \in Nat /\ modified[k] <= LastSequence
  BY <1>1, Zenon DEF LocksInv, TypeOK, DatabaseType, Unmodified
<1>4. seq[t][k] \in Nat /\ since[t][k] \in Nat
  BY <1>1 DEF LocksInv, TypeOK, TrackingType
<1>5. k \in tracked_keys_[t] /\ ~Stolen(t)
        => modified[k] <= seq[t][k] /\ seq[t][k] <= since[t][k]
  BY Zenon DEF LocksInv, Unmodified
<1>6. CASE NotChecked(t)
  <2>1. CASE k \in tracked_keys_[t]
    BY <1>4, <1>5, <1>6, <2>1, Zenon DEF NotChecked
  <2>2. CASE k \notin tracked_keys_[t]
    BY <1>3, <1>6, <2>2 DEF NotChecked
  <2> QED
    BY <2>1, <2>2, Zenon
<1>7. CASE Validated(t)
  <2> DEFINE m(n) == IF KnownSince(t, n) THEN seq[t][k] ELSE n
             s(n) == IF k \in tracked_keys_[t] /\ since[t][k] < n THEN since[t][k] ELSE n
  <2>1. PICK n \in snapshot_'[t] : /\ KnownSince(t, n) \/ modified[k] <= n
                                   /\ TrackKey(t, m(n), s(n))
    BY <1>7, Zenon DEF Validated
  <2>2. n \in Nat
    BY <1>2, <2>1, Zenon
  <2>3. m(n) \in Nat /\ s(n) \in Nat
    BY <1>4, <2>2, Zenon
  <2>4. ~Stolen(t) => modified[k] <= m(n) /\ m(n) <= s(n)
    <3>1. CASE k \in tracked_keys_[t]
      BY <1>3, <1>4, <1>5, <2>1, <2>2, <3>1 DEF KnownSince
    <3>2. CASE k \notin tracked_keys_[t]
      BY <1>3, <2>1, <2>2, <3>2 DEF KnownSince
    <3> QED
      BY <3>1, <3>2, Zenon
  <2> HIDE DEF m, s
  <2> QED
    BY <2>1, <2>3, <2>4, Zenon
<1> QED
  BY <1>6, <1>7, Zenon DEF TryLockEnds

\* A step that leaves the lock table, the statuses and what transactions have
\* locked alone keeps their agreement.
LEMMA SameLocks ==
  ASSUME LocksInv, UNCHANGED <<keys, exec_status_>>, \A u \in Txn : Locked(u)' = Locked(u)
  PROVE  Held'
<1>1. \A u \in Txn : Stolen(u)' <=> Stolen(u)
  BY Zenon DEF Stolen
<1> QED
  BY <1>1, Zenon DEF LocksInv, Held

\* The keys that UnLock will release are locked until it does.
LEMMA StartUnLockLocked ==
  ASSUME LocksInv, NEW t \in Txn, NEW unlocked \in SUBSET tracked_keys_[t], NEW next,
         StartUnLock(t, unlocked, next),
         pc[t] \in {"run", "exchange", "write", "ended"}, op' = op
  PROVE  \A u \in Txn : Locked(u)' = Locked(u)
<1>1. Locked(t)' = Locked(t)
  BY Zenon DEF StartUnLock, Goto, Locked, LocksInv, TypeOK, TrackingType, ControlType, Phase
<1>2. \A u \in Txn \ {t} : Locked(u)' = Locked(u)
  BY Zenon DEF StartUnLock, Goto, Locked, LocksInv, TypeOK, TrackingType, ControlType
<1> QED
  BY <1>1, <1>2, Zenon

\* No step makes a second holder of a key: AcquireLocked steals before it locks.
LEMMA OneHolderStep ==
  ASSUME LocksInv, NEW t \in Txn, Step(t)
  PROVE  OneHolder'
<1>1. CASE AcquireLocked(t)
  BY <1>1 DEF AcquireLocked, LocksInv, TypeOK, LocksType, OneHolder
<1>2. CASE UnLock(t)
  BY <1>2 DEF UnLock, LocksInv, OneHolder
<1>3. CASE UNCHANGED keys
  BY <1>3, Zenon DEF LocksInv, OneHolder
<1> QED
  BY <1>1, <1>2, <1>3, StepCases, Zenon
     DEF Initialize, SetSnapshot, SetSavePoint, TryLock, AcquireFails, TryLockEnds,
         ValidateFails, UnLockEnds, Proceeds, Clears, RollbackToSavePoint,
         UndoGetForUpdate, Expire, locks

\* Every step keeps the types of the lock table.
LEMMA LocksTypeStep ==
  ASSUME LocksInv, NEW t \in Txn, Step(t)
  PROVE  LocksType'
<1>1. CASE \E expires \in BOOLEAN : Initialize(t, expires)
  BY <1>1, Zenon DEF Initialize, LocksInv, LocksType, TypeOK
<1>2. CASE AcquireLocked(t)
  BY <1>2, Zenon DEF AcquireLocked, TryStealingLocks, LocksInv, LocksType, TypeOK
<1>3. CASE UnLock(t)
  BY <1>3 DEF UnLock, LocksInv, LocksType, TypeOK
<1>4. CASE UnLockEnds(t)
  BY <1>4, Zenon DEF UnLockEnds, LocksInv, LocksType, TypeOK
<1>5. CASE Proceeds(t)
  BY <1>5, Zenon DEF Proceeds, LocksInv, LocksType, TypeOK
<1>6. CASE Expire(t)
  BY <1>6, Zenon DEF Expire, LocksInv, LocksType, TypeOK
<1>7. CASE UNCHANGED locks
  BY <1>7, Zenon DEF LocksInv, LocksType, TypeOK, locks
<1> QED
  BY <1>1, <1>2, <1>3, <1>4, <1>5, <1>6, <1>7, StepCases, Zenon DEF SetSnapshot,
     SetSavePoint, TryLock, AcquireFails, TryLockEnds, ValidateFails, Clears,
     RollbackToSavePoint, UndoGetForUpdate, locks, database, tracking, control

\* Every step keeps the types of sequence numbers.
LEMMA DatabaseTypeStep ==
  ASSUME LocksInv, NEW t \in Txn, Step(t)
  PROVE  DatabaseType'
<1>1. CASE Clears(t) /\ (UNCHANGED database \/ Writes(t))
  BY <1>1 DEF Clears, Writes, database, LocksInv, DatabaseType, TypeOK
<1>2. CASE UNCHANGED database
  BY <1>2, Zenon DEF LocksInv, DatabaseType, TypeOK, database
<1> QED
  BY <1>1, <1>2, StepCases, Zenon DEF Initialize, SetSnapshot, SetSavePoint, TryLock,
                               AcquireLocked, AcquireFails, TryLockEnds,
                               ValidateFails, UnLock, UnLockEnds, Proceeds,
                               RollbackToSavePoint, UndoGetForUpdate, Expire, locks,
                               database, tracking, control

\* Every step keeps the types of what transactions track.
LEMMA TrackingTypeStep ==
  ASSUME LocksInv, NEW t \in Txn, Step(t)
  PROVE  TrackingType'
<1>1. CASE SetSnapshot(t)
  BY <1>1 DEF SetSnapshot, LocksInv, TrackingType, TypeOK, DatabaseType
<1>2. CASE SetSavePoint(t)
  <2> DEFINE s == [keys |-> tracked_keys_[t], batch |-> batch[t], snapshot |-> snapshot_[t]]
  <2>1. s \in SavePoint
    BY Zenon DEF LocksInv, TypeOK, TrackingType, SavePoint
  <2>2. Append(save_points_[t], s) \in Seq(SavePoint)
    BY <2>1 DEF LocksInv, TypeOK, TrackingType
  <2> HIDE DEF s
  <2> QED
    BY <1>2, <2>2, Zenon DEF SetSavePoint, LocksInv, TypeOK, TrackingType, s
<1>3. CASE AcquireFails(t)
  BY <1>3, SnapshotType, Zenon DEF AcquireFails, LocksInv, TypeOK, TrackingType
<1>4. CASE TryLockEnds(t)
  <2>1. snapshot_' \in [Txn -> SUBSET Nat] /\ save_points_' = save_points_
    BY <1>4, SnapshotType, Zenon DEF TryLockEnds
  <2>2. PICK m \in Nat, n \in Nat : TrackKey(t, m, n)
    BY <1>4, Tracked, Zenon
  <2>3. op[t].key \in Key
    BY OpKey, Zenon DEF LocksInv, TypeOK, ControlType
  <2>4. seq' \in [Txn -> [Key -> Nat]] /\ since' \in [Txn -> [Key -> Nat]]
    BY <2>2, <2>3, Zenon DEF TrackKey, LocksInv, TypeOK, TrackingType
  <2>5. tracked_keys_' \in [Txn -> SUBSET Key] /\ batch' \in [Txn -> SUBSET Key]
    BY <2>2, <2>3, Zenon DEF TrackKey, LocksInv, TypeOK, TrackingType
  <2> QED
    BY <2>1, <2>4, <2>5, Zenon DEF LocksInv, TypeOK, TrackingType
<1>5. CASE ValidateFails(t)
  BY <1>5, SnapshotType, Zenon DEF ValidateFails, LocksInv, TypeOK, TrackingType
<1>6. CASE Clears(t) /\ (UNCHANGED database \/ Writes(t))
  BY <1>6 DEF Clears, Clear, StartUnLock, LocksInv, TrackingType, TypeOK
<1>7. CASE RollbackToSavePoint(t)
  <2> DEFINE n == Len(save_points_[t])
             top == save_points_[t][n]
  <2>1. top \in SavePoint /\ SubSeq(save_points_[t], 1, n - 1) \in Seq(SavePoint)
    BY <1>7 DEF RollbackToSavePoint, LocksInv, TypeOK, TrackingType
  <2>2. top.batch \in SUBSET Key /\ top.snapshot \in SUBSET Nat
    BY <2>1, Zenon DEF SavePoint
  <2> QED
    BY <1>7, <2>1, <2>2, Zenon DEF RollbackToSavePoint, StartUnLock, LocksInv, TypeOK,
                            TrackingType
<1>8. CASE \E k \in Key : UndoGetForUpdate(t, k)
  BY <1>8 DEF UndoGetForUpdate, StartUnLock, LocksInv, TrackingType, TypeOK
<1>9. CASE UNCHANGED tracking
  BY <1>9, Zenon DEF LocksInv, TrackingType, TypeOK, tracking
<1> QED
  BY <1>1, <1>2, <1>3, <1>4, <1>5, <1>6, <1>7, <1>8, <1>9, StepCases, Zenon DEF Initialize,
     TryLock, AcquireLocked, UnLock, UnLockEnds, Proceeds, Expire, locks, database,
     tracking, control

\* Every step keeps the types of the control state.
LEMMA ControlTypeStep ==
  ASSUME LocksInv, NEW t \in Txn, Step(t)
  PROVE  ControlType'
<1>1. CASE \E expires \in BOOLEAN : Initialize(t, expires)
  BY <1>1, Zenon DEF Initialize, Goto, LocksInv, ControlType, TypeOK, Label
<1>2. CASE \E o \in Op : TryLock(t, o)
  BY <1>2 DEF TryLock, Goto, LocksInv, ControlType, TypeOK, Label
<1>3. CASE AcquireLocked(t)
  BY <1>3, Zenon DEF AcquireLocked, Goto, LocksInv, ControlType, TypeOK, Label
<1>4. CASE AcquireFails(t)
  BY <1>4, Zenon DEF AcquireFails, Goto, LocksInv, ControlType, TypeOK, Label
<1>5. CASE TryLockEnds(t)
  BY <1>5, Zenon DEF TryLockEnds, Goto, LocksInv, ControlType, TypeOK, Label
<1>6. CASE ValidateFails(t)
  BY <1>6, OpKey, Zenon DEF ValidateFails, Goto, LocksInv, TypeOK, ControlType, Label
<1>7. CASE UnLock(t)
  BY <1>7 DEF UnLock, LocksInv, ControlType, TypeOK
<1>8. CASE UnLockEnds(t)
  BY <1>8, Zenon DEF UnLockEnds, Goto, LocksInv, ControlType, TypeOK, Label, Ended
<1>9. CASE Proceeds(t)
  BY <1>9, Zenon DEF Proceeds, Goto, LocksInv, ControlType, TypeOK, Label
<1>10. CASE Clears(t) /\ (UNCHANGED database \/ Writes(t))
  BY <1>10 DEF Clears, Clear, StartUnLock, Goto, LocksInv, ControlType, TypeOK, Label,
               Ended, TrackingType
<1>11. CASE RollbackToSavePoint(t)
  BY <1>11, Zenon DEF RollbackToSavePoint, StartUnLock, Goto, LocksInv, ControlType, TypeOK,
               Label, TrackingType
<1>12. CASE \E k \in Key : UndoGetForUpdate(t, k)
  BY <1>12 DEF UndoGetForUpdate, StartUnLock, Goto, LocksInv, ControlType, TypeOK, Label,
               TrackingType
<1>13. CASE UNCHANGED control
  BY <1>13, Zenon DEF LocksInv, ControlType, TypeOK, control
<1> QED
  BY <1>1, <1>2, <1>3, <1>4, <1>5, <1>6, <1>7, <1>8, <1>9, <1>10, <1>11, <1>12, <1>13,
     StepCases, Zenon DEF SetSnapshot, SetSavePoint, Expire, locks, database, tracking,
     control

\* A transaction keeps the locks it knows of unless they are stolen.
LEMMA HeldStep ==
  ASSUME LocksInv, NEW t \in Txn, Step(t)
  PROVE  Held'
<1>1. CASE \E expires \in BOOLEAN : Initialize(t, expires)
  BY <1>1 DEF Initialize, Goto, tracking, LocksInv, Held, Locked, Stolen, TypeOK,
              ControlType
<1>2. CASE \E o \in Op : TryLock(t, o)
  BY <1>2 DEF TryLock, Goto, locks, tracking, LocksInv, Held, Locked, Stolen, TypeOK,
              ControlType
<1>3. CASE AcquireLocked(t)
  <2> DEFINE k == op[t].key
  <2>1. /\ k \in Key /\ k \notin Locked(t)
        /\ Locked(t)' = Locked(t) \cup {k}
        /\ \A u \in Txn \ {t} : Locked(u)' = Locked(u)
    BY <1>3, OpKey DEF AcquireLocked, Goto, tracking, LocksInv, TypeOK, ControlType,
                       Phase, Locked
  <2>2. keys' = [keys EXCEPT ![k] = {t}] /\ keys \in [Key -> SUBSET Txn]
    BY <1>3, Zenon DEF AcquireLocked, LocksInv, TypeOK, LocksType
  <2>3. \A u \in Txn : Stolen(u) => Stolen(u)'
    BY <1>3, Zenon DEF AcquireLocked, TryStealingLocks, Stolen, LocksInv, TypeOK, LocksType
  <2>4. \A u \in Txn \ {t} : u \in keys[k] => Stolen(u)'
    <3> SUFFICES ASSUME NEW u \in Txn \ {t}, u \in keys[k]
                 PROVE  Stolen(u)'
      BY Zenon
    <3>1. CanSteal(u) /\ TryStealingLocks(u)
      BY <1>3, <2>1 DEF AcquireLocked, LocksInv, OneHolder
    <3>2. u \in expiring /\ pc[u] \notin Ended
      BY <2>1, <3>1 DEF CanSteal, LocksInv, TypeOK, LocksType, Held, Locked, Phase, Ended
    <3> QED
      BY <3>1, <3>2, Zenon DEF TryStealingLocks, Stolen, LocksInv, Status, TypeOK, LocksType
  <2> SUFFICES ASSUME NEW u \in Txn, NEW q \in Key
               PROVE  /\ u \in keys'[q] => q \in Locked(u)'
                      /\ q \in Locked(u)' /\ ~Stolen(u)' => u \in keys'[q]
    BY Zenon DEF Held
  <2> HIDE DEF k
  <2> QED
    BY <2>1, <2>2, <2>3, <2>4 DEF LocksInv, Held
<1>4. CASE AcquireFails(t)
  BY <1>4 DEF AcquireFails, Goto, locks, LocksInv, Held, Locked, Stolen, TypeOK,
              ControlType
<1>5. CASE TryLockEnds(t)
  <2>1. UNCHANGED <<keys, exec_status_, op, to_unlock>> /\ Goto(t, "run")
    BY <1>5, Zenon DEF TryLockEnds, locks
  <2>2. tracked_keys_' = [tracked_keys_ EXCEPT ![t] = @ \cup {op[t].key}]
    BY <1>5, Tracked, Zenon DEF TrackKey
  <2>3. \A u \in Txn : Locked(u)' = Locked(u)
    BY <1>5, <2>1, <2>2, Zenon DEF TryLockEnds, Goto, Locked, LocksInv, TypeOK, TrackingType,
                            ControlType
  <2> QED
    BY <2>1, <2>3, SameLocks, Zenon
<1>6. CASE ValidateFails(t)
  <2>1. UNCHANGED <<keys, exec_status_, op, tracked_keys_>>
    BY <1>6, Zenon DEF ValidateFails, locks
  <2>2. \A u \in Txn \ {t} : Locked(u)' = Locked(u)
    BY <1>6, <2>1, Zenon DEF ValidateFails, Goto, Locked, LocksInv, TypeOK, ControlType
  <2>3. Locked(t)' = Locked(t)
    BY <1>6, <2>1, Zenon DEF ValidateFails, Goto, Locked, LocksInv, TypeOK, ControlType, Phase
  <2> QED
    BY <2>1, <2>2, <2>3, SameLocks, Zenon
<1>7. CASE UnLock(t)
  BY <1>7 DEF UnLock, tracking, LocksInv, Held, Locked, Stolen, TypeOK, ControlType,
              LocksType, Phase
<1>8. CASE UnLockEnds(t)
  <2>1. UNCHANGED <<keys, exec_status_, op, tracked_keys_, to_unlock>>
    BY <1>8, Zenon DEF UnLockEnds, tracking
  <2>2. pc'[t] # "validate" /\ pc[t] # "validate"
    BY <1>8, Zenon DEF UnLockEnds, Goto, LocksInv, TypeOK, ControlType, Ended
  <2>3. \A u \in Txn : Locked(u)' = Locked(u)
    BY <1>8, <2>1, <2>2, Zenon DEF UnLockEnds, Goto, Locked, LocksInv, TypeOK, ControlType
  <2> QED
    BY <2>1, <2>3, SameLocks, Zenon
<1>9. CASE Proceeds(t)
  BY <1>9 DEF Proceeds, Goto, tracking, LocksInv, Held, Locked, Stolen, TypeOK,
              ControlType, LocksType
<1>10. CASE Clears(t) /\ (UNCHANGED database \/ Writes(t))
  <2>1. PICK next : StartUnLock(t, tracked_keys_[t], next) /\ op' = op
    BY <1>10, Zenon DEF Clears, Clear
  <2>2. pc[t] \in {"run", "exchange", "write", "ended"} /\ UNCHANGED <<keys, exec_status_>>
    BY <1>10, Zenon DEF Clears, locks
  <2> QED
    BY <2>1, <2>2, StartUnLockLocked, SameLocks, Zenon
<1>11. CASE RollbackToSavePoint(t)
  <2>1. PICK unlocked \in SUBSET tracked_keys_[t] : StartUnLock(t, unlocked, "run")
    BY <1>11, Zenon DEF RollbackToSavePoint
  <2>2. pc[t] = "run" /\ op' = op /\ UNCHANGED <<keys, exec_status_>>
    BY <1>11, Zenon DEF RollbackToSavePoint, locks
  <2> QED
    BY <2>1, <2>2, StartUnLockLocked, SameLocks, Zenon
<1>12. CASE \E k \in Key : UndoGetForUpdate(t, k)
  <2>1. PICK unlocked \in SUBSET tracked_keys_[t] : StartUnLock(t, unlocked, "run")
    BY <1>12, Zenon DEF UndoGetForUpdate
  <2>2. pc[t] = "run" /\ op' = op /\ UNCHANGED <<keys, exec_status_>>
    BY <1>12, Zenon DEF UndoGetForUpdate, locks
  <2> QED
    BY <2>1, <2>2, StartUnLockLocked, SameLocks, Zenon
<1>13. CASE UNCHANGED <<keys, exec_status_, tracked_keys_, control>>
  BY <1>13, SameLocks, Zenon DEF Locked, control
<1> QED
  BY <1>1, <1>2, <1>3, <1>4, <1>5, <1>6, <1>7, <1>8, <1>9, <1>10, <1>11, <1>12, <1>13,
     StepCases, Zenon DEF SetSnapshot, SetSavePoint, Expire, locks, database, tracking,
     control

\* Every step keeps what is said of the keys by what a transaction is doing.
LEMMA PhaseStep ==
  ASSUME LocksInv, NEW t \in Txn, Step(t)
  PROVE  Phase'
<1>1. CASE \E expires \in BOOLEAN : Initialize(t, expires)
  BY <1>1, Zenon DEF Initialize, Goto, tracking, LocksInv, Phase, TypeOK, ControlType, Ended
<1>2. CASE \E o \in Op : TryLock(t, o)
  BY <1>2 DEF TryLock, Goto, tracking, LocksInv, Phase, TypeOK, ControlType, Ended
<1>3. CASE AcquireLocked(t)
  BY <1>3, Zenon DEF AcquireLocked, Goto, tracking, LocksInv, Phase, TypeOK, ControlType, Ended
<1>4. CASE AcquireFails(t)
  BY <1>4, Zenon DEF AcquireFails, Goto, LocksInv, Phase, TypeOK, ControlType, Ended
<1>5. CASE TryLockEnds(t)
  BY <1>5, SMTT(30) DEF TryLockEnds, NotChecked, Validated, TrackKey, Goto, LocksInv, Phase, TypeOK,
              ControlType, TrackingType, Ended
<1>6. CASE ValidateFails(t)
  BY <1>6 DEF ValidateFails, Goto, LocksInv, Phase, TypeOK, ControlType, Ended
<1>7. CASE UnLock(t)
  BY <1>7 DEF UnLock, tracking, LocksInv, Phase, TypeOK, ControlType
<1>8. CASE UnLockEnds(t)
  BY <1>8, Zenon DEF UnLockEnds, Goto, tracking, LocksInv, Phase, TypeOK, ControlType, Ended
<1>9. CASE Proceeds(t)
  BY <1>9 DEF Proceeds, Goto, tracking, LocksInv, Phase, TypeOK, ControlType, Ended
<1>10. CASE Clears(t) /\ (UNCHANGED database \/ Writes(t))
  BY <1>10 DEF Clears, Clear, StartUnLock, Goto, LocksInv, Phase, TypeOK, ControlType,
               TrackingType, Ended
<1>11. CASE RollbackToSavePoint(t)
  BY <1>11, Zenon DEF RollbackToSavePoint, StartUnLock, Goto, LocksInv, Phase, TypeOK,
               ControlType, TrackingType, Ended
<1>12. CASE \E k \in Key : UndoGetForUpdate(t, k)
  BY <1>12 DEF UndoGetForUpdate, StartUnLock, Goto, LocksInv, Phase, TypeOK, ControlType,
               TrackingType, Ended
<1>13. CASE UNCHANGED <<tracked_keys_, control>>
  BY <1>13, Zenon DEF LocksInv, Phase, control
<1> QED
  BY <1>1, <1>2, <1>3, <1>4, <1>5, <1>6, <1>7, <1>8, <1>9, <1>10, <1>11, <1>12, <1>13,
     StepCases, Zenon DEF SetSnapshot, SetSavePoint, Expire, locks, database, tracking,
     control

\* Only expired transactions are stolen from, and a writer that can expire is
\* COMMITTING.
LEMMA StatusStep ==
  ASSUME LocksInv, NEW t \in Txn, Step(t)
  PROVE  Status'
<1>1. CASE \E expires \in BOOLEAN : Initialize(t, expires)
  BY <1>1 DEF Initialize, Goto, LocksInv, Status, Stolen, TypeOK, ControlType, LocksType,
              Ended
<1>2. CASE \E o \in Op : TryLock(t, o)
  BY <1>2 DEF TryLock, Goto, locks, LocksInv, Status, Stolen, TypeOK, ControlType, Ended
<1>3. CASE AcquireLocked(t)
  BY <1>3 DEF AcquireLocked, CanSteal, TryStealingLocks, Goto, LocksInv, Status, Stolen,
              TypeOK, ControlType, LocksType, Ended
<1>4. CASE AcquireFails(t)
  BY <1>4, Zenon DEF AcquireFails, Goto, locks, LocksInv, Status, Stolen, TypeOK, ControlType,
              Ended
<1>5. CASE TryLockEnds(t)
  BY <1>5, Zenon DEF TryLockEnds, Goto, locks, LocksInv, Status, Stolen, TypeOK, ControlType,
              Ended
<1>6. CASE ValidateFails(t)
  BY <1>6, Zenon DEF ValidateFails, Goto, locks, LocksInv, Status, Stolen, TypeOK, ControlType,
              Ended
<1>7. CASE UnLockEnds(t)
  <2>1. UNCHANGED <<exec_status_, expiring, expired>>
    BY <1>7, Zenon DEF UnLockEnds
  <2>2. pc'[t] \notin {"new", "write"} /\ \A u \in Txn \ {t} : pc'[u] = pc[u]
    BY <1>7, Zenon DEF UnLockEnds, Goto, LocksInv, TypeOK, ControlType, Ended
  <2>3. t \in expirable_transactions_map_' \/ t \notin expiring \/ pc'[t] \in Ended
    BY <1>7, Zenon DEF UnLockEnds, Goto, LocksInv, TypeOK, ControlType, Status, Ended
  <2>4. \A u \in Txn \ {t} : u \in expirable_transactions_map_
                               => u \in expirable_transactions_map_'
    BY <1>7, Zenon DEF UnLockEnds
  <2> QED
    BY <2>1, <2>2, <2>3, <2>4, Zenon DEF LocksInv, Status, Stolen
<1>8. CASE Proceeds(t)
  <2>1. UNCHANGED <<expiring, expired, expirable_transactions_map_>>
    BY <1>8, Zenon DEF Proceeds
  <2>2. \A u \in Txn \ {t} : pc'[u] = pc[u] /\ exec_status_'[u] = exec_status_[u]
    BY <1>8, Zenon DEF Proceeds, Goto, LocksInv, TypeOK, LocksType, ControlType
  <2>3. /\ pc[t] \in {"run", "exchange"} /\ pc'[t] \in {"exchange", "write"}
        /\ Stolen(t)' => Stolen(t)
        /\ pc'[t] = "write" /\ t \in expiring => exec_status_'[t] = "COMMITTING"
    BY <1>8, Zenon DEF Proceeds, Goto, Stolen, LocksInv, TypeOK, LocksType, ControlType
  <2> QED
    BY <2>1, <2>2, <2>3, Zenon DEF LocksInv, Status, Stolen, Ended
<1>9. CASE Clears(t) /\ (UNCHANGED database \/ Writes(t))
  BY <1>9, Zenon DEF Clears, Clear, StartUnLock, Goto, locks, LocksInv, Status, Stolen, TypeOK,
              ControlType, Ended
<1>10. CASE RollbackToSavePoint(t)
  BY <1>10, Zenon DEF RollbackToSavePoint, StartUnLock, Goto, locks, LocksInv, Status, Stolen,
               TypeOK, ControlType, Ended
<1>11. CASE \E k \in Key : UndoGetForUpdate(t, k)
  BY <1>11, Zenon DEF UndoGetForUpdate, StartUnLock, Goto, locks, LocksInv, Status, Stolen,
               TypeOK, ControlType, Ended
<1>12. CASE Expire(t)
  BY <1>12, Zenon DEF Expire, control, LocksInv, Status, Stolen, LocksType
<1>13. CASE UNCHANGED <<exec_status_, expiring, expired, expirable_transactions_map_, pc>>
  BY <1>13, Zenon DEF LocksInv, Status, Stolen
<1> QED
  BY <1>1, <1>2, <1>3, <1>4, <1>5, <1>6, <1>7, <1>8, <1>9, <1>10, <1>11, <1>12, <1>13,
     StepCases, Zenon DEF SetSnapshot, SetSavePoint, UnLock, locks, database, tracking,
     control

\* Setting, rolling back to and clearing save points keeps their keys locked.
LEMMA SavePointsStep ==
  ASSUME LocksInv, NEW t \in Txn, Step(t)
  PROVE  SavePoints'
<1>1. CASE SetSavePoint(t)
  <2> DEFINE n == Len(save_points_[t])
             s == [keys |-> tracked_keys_[t], batch |-> batch[t], snapshot |-> snapshot_[t]]
  <2>1. n \in Nat /\ save_points_[t] \in Seq(SavePoint)
    BY DEF LocksInv, TypeOK, TrackingType
  <2>2. save_points_'[t] = Append(save_points_[t], s)
    BY <1>1, Zenon DEF SetSavePoint, LocksInv, TypeOK, TrackingType
  <2>3. /\ \A u \in Txn : batch'[u] = batch[u] /\ tracked_keys_'[u] = tracked_keys_[u]
        /\ \A u \in Txn \ {t} : save_points_'[u] = save_points_[u]
    BY <1>1, Zenon DEF SetSavePoint, LocksInv, TypeOK, TrackingType
  <2>4. s.keys = tracked_keys_[t] /\ s.batch = batch[t]
    BY Zenon
  <2> HIDE DEF s
  <2>5. /\ Len(save_points_'[t]) = n + 1 /\ save_points_'[t][n + 1] = s
        /\ \A i \in 1 .. n : save_points_'[t][i] = save_points_[t][i]
    BY <2>1, <2>2
  <2>6. /\ batch[t] \subseteq tracked_keys_[t]
        /\ \A i \in 1 .. n : /\ save_points_[t][i].batch \subseteq save_points_[t][i].keys
                              /\ save_points_[t][i].keys \subseteq tracked_keys_[t]
                              /\ \A j \in 1 .. i :
                                   save_points_[t][j].keys \subseteq save_points_[t][i].keys
    BY Zenon DEF LocksInv, SavePoints
  <2> HIDE DEF n
  <2>7. \A i \in 1 .. n + 1 :
          /\ save_points_'[t][i].batch \subseteq save_points_'[t][i].keys
          /\ save_points_'[t][i].keys \subseteq tracked_keys_[t]
          /\ \A j \in 1 .. i : save_points_'[t][j].keys \subseteq save_points_'[t][i].keys
    <3> SUFFICES ASSUME NEW i \in 1 .. n + 1
                 PROVE  /\ save_points_'[t][i].batch \subseteq save_points_'[t][i].keys
                        /\ save_points_'[t][i].keys \subseteq tracked_keys_[t]
                        /\ \A j \in 1 .. i :
                             save_points_'[t][j].keys \subseteq save_points_'[t][i].keys
      BY Zenon
    <3>1. CASE i \in 1 .. n
      <4>1. /\ save_points_'[t][i] = save_points_[t][i]
            /\ save_points_[t][i].batch \subseteq save_points_[t][i].keys
            /\ save_points_[t][i].keys \subseteq tracked_keys_[t]
            /\ \A j \in 1 .. i : save_points_[t][j].keys \subseteq save_points_[t][i].keys
        BY <2>5, <2>6, <3>1, Zenon
      <4>2. \A j \in 1 .. i : j \in 1 .. n
        BY <2>1, <3>1
      <4>3. \A j \in 1 .. i : save_points_'[t][j] = save_points_[t][j]
        BY <2>5, <4>2, Zenon
      <4> QED
        BY <4>1, <4>3, Zenon
    <3>2. CASE i = n + 1
      BY <2>1, <2>4, <2>5, <2>6, <3>2
    <3> QED
      BY <2>1, <3>1, <3>2
  <2>8. SUFFICES ASSUME NEW u \in Txn \ {t}
                 PROVE  /\ batch'[u] \subseteq tracked_keys_'[u]
                        /\ \A i \in 1 .. Len(save_points_'[u]) :
                             /\ save_points_'[u][i].batch \subseteq save_points_'[u][i].keys
                             /\ save_points_'[u][i].keys \subseteq tracked_keys_'[u]
                             /\ \A j \in 1 .. i :
                                  save_points_'[u][j].keys \subseteq save_points_'[u][i].keys
    BY <2>3, <2>5, <2>6, <2>7 DEF SavePoints
  <2> QED
    BY <2>3 DEF LocksInv, SavePoints
<1>2. CASE TryLockEnds(t)
  <2>1. PICK m \in Nat, n \in Nat : TrackKey(t, m, n)
    BY <1>2, Tracked, Zenon
  <2>2. save_points_' = save_points_
    BY <1>2, Zenon DEF TryLockEnds
  <2>3. \A u \in Txn : tracked_keys_[u] \subseteq tracked_keys_'[u]
    BY <2>1, Zenon DEF TrackKey, LocksInv, TypeOK, TrackingType
  <2>4. \A u \in Txn : batch'[u] \subseteq tracked_keys_'[u]
    BY <2>1, Zenon DEF TrackKey, LocksInv, TypeOK, TrackingType, SavePoints
  <2> QED
    BY <2>2, <2>3, <2>4, Zenon DEF LocksInv, SavePoints
<1>3. CASE Clears(t) /\ (UNCHANGED database \/ Writes(t))
  <2>1. /\ batch'[t] = {} /\ save_points_'[t] = <<>>
        /\ \A u \in Txn \ {t} : /\ batch'[u] = batch[u] /\ tracked_keys_'[u] = tracked_keys_[u]
                                /\ save_points_'[u] = save_points_[u]
    BY <1>3, Zenon DEF Clears, Clear, StartUnLock, LocksInv, TypeOK, TrackingType
  <2> QED
    BY <2>1 DEF LocksInv, SavePoints
<1>4. CASE RollbackToSavePoint(t)
  <2> DEFINE n == Len(save_points_[t])
             top == save_points_[t][n]
  <2>1. n \in Nat \ {0} /\ save_points_[t] \in Seq(SavePoint)
    BY <1>4 DEF RollbackToSavePoint, LocksInv, TypeOK, TrackingType
  <2>2. save_points_'[t] = SubSeq(save_points_[t], 1, n - 1)
    BY <1>4, Zenon DEF RollbackToSavePoint, LocksInv, TypeOK, TrackingType
  <2>3. /\ Len(save_points_'[t]) = n - 1
        /\ \A i \in 1 .. n - 1 : save_points_'[t][i] = save_points_[t][i]
    BY <2>1, <2>2
  <2>4. top.batch \subseteq top.keys /\ top.keys \subseteq tracked_keys_[t]
    BY <2>1 DEF LocksInv, SavePoints
  <2>5. batch'[t] = top.batch /\ tracked_keys_'[t] = top.keys
    BY <1>4, <2>4, Zenon DEF RollbackToSavePoint, StartUnLock, LocksInv, TypeOK, TrackingType
  <2>6. \A i \in 1 .. n - 1 : save_points_[t][i].keys \subseteq top.keys
    BY <2>1 DEF LocksInv, SavePoints
  <2>7. \A u \in Txn \ {t} : /\ batch'[u] = batch[u] /\ tracked_keys_'[u] = tracked_keys_[u]
                             /\ save_points_'[u] = save_points_[u]
    BY <1>4, Zenon DEF RollbackToSavePoint, StartUnLock, LocksInv, TypeOK, TrackingType
  <2> SUFFICES ASSUME NEW u \in Txn
               PROVE  /\ batch'[u] \subseteq tracked_keys_'[u]
                      /\ \A i \in 1 .. Len(save_points_'[u]) :
                           /\ save_points_'[u][i].batch \subseteq save_points_'[u][i].keys
                           /\ save_points_'[u][i].keys \subseteq tracked_keys_'[u]
                           /\ \A j \in 1 .. i :
                                save_points_'[u][j].keys \subseteq save_points_'[u][i].keys
    BY Zenon DEF SavePoints
  <2>8. CASE u # t
    BY <2>7, <2>8, Zenon DEF LocksInv, SavePoints
  <2>9. CASE u = t
    <3> HIDE DEF n, top
    <3>1. \A i \in 1 .. n - 1 : i \in 1 .. n /\ 1 .. i \subseteq 1 .. n - 1
      BY <2>1
    <3>2. \A i \in 1 .. n :
            /\ save_points_[t][i].batch \subseteq save_points_[t][i].keys
            /\ \A j \in 1 .. i : save_points_[t][j].keys \subseteq save_points_[t][i].keys
      BY Zenon DEF LocksInv, SavePoints, n
    <3> QED
      BY <2>3, <2>4, <2>5, <2>6, <2>9, <3>1, <3>2, Zenon
  <2> QED
    BY <2>8, <2>9, Zenon
<1>5. CASE \E k \in Key : UndoGetForUpdate(t, k)
  <2> DEFINE n == Len(save_points_[t])
  <2>1. PICK k \in tracked_keys_[t] \ batch[t] :
          /\ n > 0 => k \notin save_points_[t][n].keys
          /\ tracked_keys_' = [tracked_keys_ EXCEPT ![t] = @ \ {k}]
    BY <1>5, Zenon DEF UndoGetForUpdate, StartUnLock
  <2>2. UNCHANGED <<batch, save_points_>>
    BY <1>5, Zenon DEF UndoGetForUpdate
  <2>3. \A i \in 1 .. n : k \notin save_points_[t][i].keys
    <3> SUFFICES ASSUME NEW i \in 1 .. n
                 PROVE  k \notin save_points_[t][i].keys
      BY Zenon
    <3>1. n \in Nat
      BY DEF LocksInv, TypeOK, TrackingType
    <3>2. n \in 1 .. n /\ i \in 1 .. n /\ n > 0
      BY <3>1
    <3>3. save_points_[t][i].keys \subseteq save_points_[t][n].keys
      BY <3>2, Zenon DEF LocksInv, SavePoints
    <3> QED
      BY <2>1, <3>2, <3>3, Zenon
  <2>4. /\ tracked_keys_'[t] = tracked_keys_[t] \ {k}
        /\ \A u \in Txn \ {t} : tracked_keys_'[u] = tracked_keys_[u]
    BY <2>1, Zenon DEF LocksInv, TypeOK, TrackingType
  <2> QED
    BY <2>1, <2>2, <2>3, <2>4 DEF LocksInv, SavePoints
<1>6. CASE UNCHANGED <<tracked_keys_, batch, save_points_>>
  BY <1>6, Zenon DEF LocksInv, SavePoints
<1> QED
  BY <1>1, <1>2, <1>3, <1>4, <1>5, <1>6, StepCases, Zenon DEF Initialize, SetSnapshot,
     TryLock, AcquireLocked, AcquireFails, ValidateFails, UnLock, UnLockEnds,
     Proceeds, Expire, locks, database, tracking, control

\* No one else writes a key that is locked and not stolen.
LEMMA UnmodifiedStep ==
  ASSUME LocksInv, NEW t \in Txn, Step(t)
  PROVE  Unmodified'
<1>1. CASE AcquireLocked(t)
  BY <1>1, Zenon DEF AcquireLocked, TryStealingLocks, database, tracking, LocksInv, Unmodified,
              Stolen, TypeOK, LocksType
<1>2. CASE TryLockEnds(t)
  <2> DEFINE k == op[t].key
  <2>1. UNCHANGED <<modified, LastSequence, exec_status_>>
    BY <1>2, Zenon DEF TryLockEnds, locks, database
  <2>2. PICK m \in Nat, n \in Nat :
          /\ TrackKey(t, m, n)
          /\ ~Stolen(t) => modified[k] <= m /\ m <= n
    BY <1>2, Tracked, Zenon
  <2>3. k \in Key
    BY OpKey, Zenon DEF LocksInv, TypeOK, ControlType
  <2> HIDE DEF k
  <2>4. /\ tracked_keys_' = [tracked_keys_ EXCEPT ![t] = @ \cup {k}]
        /\ seq' = [seq EXCEPT ![t][k] = m]
        /\ since' = [since EXCEPT ![t][k] = n]
    BY <2>2, Zenon DEF TrackKey, k
  <2>5. \A u \in Txn : Stolen(u)' <=> Stolen(u)
    BY <2>1, Zenon DEF Stolen
  <2> SUFFICES ASSUME NEW u \in Txn, ~Stolen(u), NEW q \in tracked_keys_'[u]
               PROVE  modified[q] <= seq'[u][q] /\ seq'[u][q] <= since'[u][q]
    BY <2>1, <2>5, Zenon DEF LocksInv, Unmodified
  <2>6. CASE u = t /\ q = k
    BY <2>2, <2>3, <2>4, <2>6, Zenon DEF LocksInv, TypeOK, TrackingType
  <2>7. CASE ~(u = t /\ q = k)
    <3>1. q \in tracked_keys_[u] /\ q \in Key
      BY <2>3, <2>4, <2>7, Zenon DEF LocksInv, TypeOK, TrackingType
    <3>2. seq'[u][q] = seq[u][q] /\ since'[u][q] = since[u][q]
      BY <2>3, <2>4, <2>7, <3>1, Zenon DEF LocksInv, TypeOK, TrackingType
    <3> QED
      BY <3>1, <3>2, Zenon DEF LocksInv, Unmodified
  <2> QED
    BY <2>6, <2>7, Zenon
<1>3. CASE Proceeds(t)
  BY <1>3, Zenon DEF Proceeds, database, tracking, LocksInv, Unmodified, TypeOK, LocksType,
              Stolen
<1>4. CASE Clears(t) /\ (UNCHANGED database \/ Writes(t))
  <2>1. UNCHANGED <<keys, exec_status_, seq, since>>
    BY <1>4, Zenon DEF Clears, Clear, locks
  <2>2. /\ tracked_keys_'[t] = {}
        /\ \A u \in Txn \ {t} : tracked_keys_'[u] = tracked_keys_[u]
    BY <1>4 DEF Clears, Clear, StartUnLock, LocksInv, TypeOK, TrackingType
  <2>3. CASE UNCHANGED database
    BY <2>1, <2>2, <2>3, Zenon DEF database, LocksInv, Unmodified, Stolen
  <2>4. CASE Writes(t)
    <3>1. \A k \in Key : modified'[k] <= LastSequence'
      BY <2>4 DEF Writes, LocksInv, TypeOK, DatabaseType, Unmodified
    <3>2. ASSUME NEW u \in Txn \ {t}, ~Stolen(u), NEW k \in tracked_keys_[u]
          PROVE  modified'[k] = modified[k]
      <4>1. k \in Key /\ u \in keys[k]
        BY <3>2, Zenon DEF LocksInv, TypeOK, TrackingType, Held, Locked
      <4>2. ~Stolen(t)
        BY <2>4, Zenon DEF Writes, LocksInv, TypeOK, LocksType, Status, Stolen
      <4>3. k \notin Locked(t)
        BY <4>1, <4>2, Zenon DEF LocksInv, OneHolder, Held
      <4>4. k \notin batch[t]
        BY <4>3, Zenon DEF LocksInv, SavePoints, Locked
      <4> QED
        BY <2>4, <4>1, <4>4, Zenon DEF Writes
    <3> QED
      BY <2>1, <2>2, <3>1, <3>2 DEF LocksInv, Unmodified, Stolen
  <2> QED
    BY <1>4, <2>3, <2>4, Zenon
<1>5. CASE RollbackToSavePoint(t)
  BY <1>5, Zenon DEF RollbackToSavePoint, StartUnLock, locks, database, LocksInv, Unmodified,
              Stolen, TypeOK, TrackingType
<1>6. CASE \E k \in Key : UndoGetForUpdate(t, k)
  BY <1>6 DEF UndoGetForUpdate, StartUnLock, locks, database, LocksInv, Unmodified,
              Stolen, TypeOK, TrackingType
<1>7. CASE UNCHANGED <<exec_status_, tracked_keys_, seq, since, database>>
  BY <1>7, Zenon DEF LocksInv, Unmodified, Stolen, database
<1> QED
  BY <1>1, <1>2, <1>3, <1>4, <1>5, <1>6, <1>7, StepCases, Zenon DEF Initialize, SetSnapshot,
     SetSavePoint, TryLock, AcquireFails, ValidateFails, UnLock, UnLockEnds, Expire,
     locks, database, tracking, control

\* The invariant holds at the start.
LEMMA Initially == Init => LocksInv
<1> SUFFICES ASSUME Init
             PROVE  LocksInv
  BY Zenon
<1>1. TypeOK
  BY DEF Init, TypeOK, LocksType, DatabaseType, TrackingType, ControlType, Label,
         Ended, Op
<1>2. OneHolder /\ Held
  BY Zenon DEF Init, OneHolder, Held, Locked
<1>3. Phase /\ Status
  BY Zenon DEF Init, Phase, Status, Stolen, Ended
<1>4. SavePoints
  <2>1. \A t \in Txn : Len(save_points_[t]) = 0 /\ batch[t] = {}
    BY Zenon DEF Init
  <2>2. 1 .. 0 = {}
    OBVIOUS
  <2> QED
    BY <2>1, <2>2, Zenon DEF SavePoints
<1>5. Unmodified
  BY DEF Init, Unmodified
<1> QED
  BY <1>1, <1>2, <1>3, <1>4, <1>5, Zenon DEF LocksInv

\* A step that changes nothing keeps the invariant.
LEMMA Stutter ==
  ASSUME LocksInv, UNCHANGED vars
  PROVE  LocksInv'
<1>1. TypeOK' /\ OneHolder' /\ Phase'
  BY Zenon DEF vars, locks, database, tracking, control, LocksInv, TypeOK, LocksType,
         DatabaseType,
         TrackingType, ControlType, OneHolder, Phase
<1>2. Held'
  BY SameLocks, Zenon DEF vars, locks, tracking, control, Locked
<1>3. Status' /\ SavePoints' /\ Unmodified'
  BY Zenon DEF vars, locks, database, tracking, control, LocksInv, Status, SavePoints,
         Unmodified, Stolen
<1> QED
  BY <1>1, <1>2, <1>3, Zenon DEF LocksInv

\* LocksInv is an invariant of the transactions.
THEOREM TransactionInvariant == Spec => []LocksInv
<1>1. LocksInv /\ [Next]_vars => LocksInv'
  <2> SUFFICES ASSUME LocksInv, [Next]_vars
               PROVE  LocksInv'
    BY Zenon
  <2>1. ASSUME NEW t \in Txn, Step(t)
        PROVE  LocksInv'
    BY <2>1, LocksTypeStep, DatabaseTypeStep, TrackingTypeStep, ControlTypeStep,
       OneHolderStep, HeldStep, PhaseStep, StatusStep, SavePointsStep, UnmodifiedStep, Zenon
       DEF LocksInv, TypeOK
  <2> QED
    BY <2>1, Stutter, Zenon DEF Next
<1> QED
  BY <1>1, Initially, PTL DEF Spec

\* A transaction that writes has lost no lock.
LEMMA WriterNotStolen == LocksInv => \A t \in Txn : pc[t] = "write" => ~Stolen(t)
BY Zenon DEF LocksInv, TypeOK, LocksType, Status, Stolen

\* DoCommit writes only while the transaction holds the lock of every key it
\* writes or has read for update, however its expiration, the thieves of its
\* locks and its own calls interleave.
THEOREM CommitHoldsItsLocks == Spec => []LocksHeldAtCommit
<1>1. LocksInv => LocksHeldAtCommit
  <2> SUFFICES ASSUME LocksInv, NEW t \in Txn, pc[t] = "write"
               PROVE  /\ batch[t] \subseteq tracked_keys_[t]
                      /\ \A k \in tracked_keys_[t] : keys[k] = {t}
    BY Zenon DEF LocksHeldAtCommit
  <2>1. batch[t] \subseteq tracked_keys_[t]
    BY Zenon DEF LocksInv, SavePoints
  <2>2. ASSUME NEW k \in tracked_keys_[t]
        PROVE  keys[k] = {t}
    <3>1. k \in Key /\ t \in keys[k]
      BY WriterNotStolen, Zenon DEF LocksInv, TypeOK, TrackingType, Held, Locked
    <3> QED
      BY <3>1 DEF LocksInv, OneHolder
  <2> QED
    BY <2>1, <2>2, Zenon
<1> QED
  BY <1>1, TransactionInvariant, PTL

\* No update is lost: when a transaction writes, no other has written what it
\* locked since the snapshot that ValidateSnapshot compared with, or since it
\* locked the key when there was none to compare with.
THEOREM CommitLosesNoUpdate == Spec => []NoWriteSinceSnapshot
<1>1. LocksInv => NoWriteSinceSnapshot
  <2> SUFFICES ASSUME LocksInv, NEW t \in Txn, pc[t] = "write", NEW k \in tracked_keys_[t]
               PROVE  modified[k] <= since[t][k]
    BY Zenon DEF NoWriteSinceSnapshot
  <2>1. modified[k] <= seq[t][k] /\ seq[t][k] <= since[t][k]
    BY WriterNotStolen, Zenon DEF LocksInv, Unmodified
  <2>2. modified[k] \in Nat /\ seq[t][k] \in Nat /\ since[t][k] \in Nat
    BY DEF LocksInv, TypeOK, TrackingType, DatabaseType
  <2>3. \A x, y, z \in Nat : x <= y /\ y <= z => x <= z
    OBVIOUS
  <2> QED
    BY <2>1, <2>2, <2>3, Zenon
<1> QED
  BY <1>1, TransactionInvariant, PTL

\* A transaction object that is deleted or reused leaves no lock in the table,
\* although UnLock lets other threads in between two stripes.
THEOREM NoLockIsLeft == Spec => []NothingLeftLocked
<1>1. LocksInv => NothingLeftLocked
  BY Zenon DEF LocksInv, NothingLeftLocked, Held, Locked, Phase, Ended
<1> QED
  BY <1>1, TransactionInvariant, PTL

\* What UnLock asserts when it does not find a lock of its own.
THEOREM UnLockAssertion == Spec => []UnlocksOwnOrExpired
<1>1. LocksInv => UnlocksOwnOrExpired
  <2> SUFFICES ASSUME LocksInv, NEW t \in Txn, NEW k \in to_unlock[t], t \notin expired
               PROVE  keys[k] = {t}
    BY Zenon DEF UnlocksOwnOrExpired
  <2>1. k \in Key /\ t \in keys[k]
    BY Zenon DEF LocksInv, TypeOK, ControlType, Status, Held, Locked
  <2> QED
    BY <2>1 DEF LocksInv, OneHolder
<1> QED
  BY <1>1, TransactionInvariant, PTL

-----------------------------------------------------------------------------
(***************************************************************************)
(* Proofs about the handshake of WriterState, for every set of sequences   *)
(* of states that WriteThread gives its writers.                           *)
(***************************************************************************)

\* What JoinBatchGroup and CompleteParallelWorker wait for: a role or the end,
\* then, for a leader or follower of a parallel group, its end.
Roles ==
  \A w \in Wakes :
    /\ w \in Seq(States) /\ Len(w) \in 1..2
    /\ w[1] # "INIT"
    /\ Len(w) = 2 => w[1] # "COMPLETED" /\ w[2] = "COMPLETED"

\* The state before the wait under way has been answered.
Before == IF waits = 0 THEN "INIT" ELSE wakes[waits]

Blocking == {"lock", "check", "blocked"}

Answered == sets = waits + 1 \/ wpc \in {"notify", "unlock"}

\* A waiter that blocks is in LOCKED_WAITING until it is answered, the waker
\* takes the mutex only from there, and the waiter cannot leave before the
\* waker has released it.
HandshakeInv ==
  /\ HandshakeTypeOK
  /\ apc = "check" <=> mutex = "waiter"
  /\ wpc \in {"store", "notify", "unlock"} <=> mutex = "waker"
  /\ wpc # "idle" => sets = waits /\ sets < Len(wakes)
  /\ sets = waits \/ sets = waits + 1
  /\ apc = "returned" <=> waits = Len(wakes)
  /\ apc \in {"load", "swap"} \cup Blocking => made_waitable
  /\ state = "LOCKED_WAITING" => apc \in Blocking
  /\ wpc \in {"lock", "store"} => state = "LOCKED_WAITING"
  /\ wpc \in {"notify", "unlock"} => apc \in {"lock", "blocked"}
  /\ Answered => state = wakes[waits + 1]
  /\ ~Answered => state \in {"LOCKED_WAITING", Before}
  /\ ~Answered /\ apc \in Blocking => state = "LOCKED_WAITING"
  /\ apc = "blocked" => state = "LOCKED_WAITING" \/ wpc = "notify"
  /\ apc = "swap" => loaded = Before
  /\ wpc = "swap" => wloaded = Before
  /\ apc = "met" => loaded = wakes[waits + 1] /\ sets = waits + 1

\* A waiter that is blocked though it has been answered is about to be
\* notified: SetState's notify_one comes after its store, both under the
\* mutex the waiter checks the state under.
WakeupNotLost == apc = "blocked" => state = "LOCKED_WAITING" \/ wpc = "notify"
-----------------------------------------------------------------------------
\* What a wait is for, and what was there before it.
LEMMA Goals ==
  ASSUME Roles, HandshakeTypeOK, waits < Len(wakes)
  PROVE  /\ wakes \in Seq(States)
         /\ Before \in States /\ Before \notin Goal
         /\ wakes[waits + 1] \in States /\ wakes[waits + 1] \in Goal
<1>1. wakes \in Seq(States) /\ Len(wakes) \in 1..2 /\ waits \in {0, 1}
  <2>1. wakes \in Wakes /\ waits \in 0..Len(wakes)
    BY Zenon DEF HandshakeTypeOK
  <2>2. wakes \in Seq(States) /\ Len(wakes) \in 1..2
    BY <2>1, Zenon DEF Roles
  <2>3. \A n \in 1..2 : \A k \in 0..n : k < n => k \in {0, 1}
    OBVIOUS
  <2>4. QED
    BY <2>1, <2>2, <2>3, Zenon
<1>2. CASE waits = 0
  BY <1>1, <1>2 DEF Roles, HandshakeTypeOK, Before, Goal, States
<1>3. CASE waits = 1
  BY <1>1, <1>3 DEF Roles, HandshakeTypeOK, Before, Goal, States
<1>4. QED
  BY <1>1, <1>2, <1>3, Zenon

\* The invariant holds before the first wait.
LEMMA HandshakeInitInv ==
  ASSUME Roles, HandshakeInit
  PROVE  HandshakeInv
<1>1. waits = 0 /\ sets = 0 /\ Len(wakes) \in 1..2 /\ wakes \in Wakes
  BY Zenon DEF Roles, HandshakeInit
<1>2. HandshakeTypeOK
  <2>1. waits \in 0..Len(wakes) /\ sets \in 0..Len(wakes)
    BY <1>1
  <2>2. QED
    BY <1>1, <2>1, Zenon DEF HandshakeInit, HandshakeTypeOK, States
<1>3. ~Answered
  BY <1>1 DEF HandshakeInit, Answered
<1>4. QED
  BY <1>1, <1>2, <1>3 DEF HandshakeInit, HandshakeInv, Before, Blocking

\* The steps of the waiter.
LEMMA WaiterStep ==
  ASSUME Roles, HandshakeInv, Waiter \/ SpuriousWakeup
  PROVE  HandshakeInv'
<1> DEFINE Same == Before' = Before /\ Answered' = Answered /\ Goal' = Goal
<1>1. /\ HandshakeTypeOK /\ Len(wakes) \in 1..2
      /\ waits \in 0..Len(wakes) /\ sets \in 0..Len(wakes)
  BY Zenon DEF HandshakeInv, HandshakeTypeOK, Roles
<1> USE DEF Blocking
<1>2. CASE Spin
  <2>1. waits < Len(wakes)
    BY <1>1, <1>2 DEF Spin, HandshakeInv
  <2>2. HandshakeTypeOK' /\ Same
    BY <1>1, <1>2, <2>1 DEF Spin, HandshakeTypeOK, Before, Answered, Goal, waker, States
  <2>3. QED
    BY <1>1, <1>2, <2>1, <2>2, Goals, Zenon DEF Spin, HandshakeInv, Answered, waker
<1>3. CASE CreateMutex
  <2>1. waits < Len(wakes)
    BY <1>1, <1>3 DEF CreateMutex, HandshakeInv
  <2>2. HandshakeTypeOK' /\ Same
    BY <1>1, <1>3, <2>1 DEF CreateMutex, HandshakeTypeOK, Before, Answered, Goal, waker, States
  <2>3. QED
    BY <1>1, <1>3, <2>1, <2>2, Goals, Zenon DEF CreateMutex, HandshakeInv, Answered, waker
<1>4. CASE LoadState
  <2>1. waits < Len(wakes)
    BY <1>1, <1>4 DEF LoadState, HandshakeInv
  <2>2. HandshakeTypeOK' /\ Same
    BY <1>1, <1>4, <2>1 DEF LoadState, HandshakeTypeOK, Before, Answered, Goal, waker, States
  <2>3. QED
    BY <1>1, <1>4, <2>1, <2>2, Goals, Zenon DEF LoadState, HandshakeInv, Answered, waker
<1>5. CASE SwapWaiting
  <2>1. waits < Len(wakes)
    BY <1>1, <1>5 DEF SwapWaiting, HandshakeInv
  <2>2. HandshakeTypeOK' /\ Same
    BY <1>1, <1>5, <2>1 DEF SwapWaiting, HandshakeTypeOK, Before, Answered, Goal, waker, States
  <2>3. QED
    BY <1>1, <1>5, <2>1, <2>2, Goals, Zenon DEF SwapWaiting, HandshakeInv, Answered, waker
<1>6. CASE Lock
  <2>1. waits < Len(wakes)
    BY <1>1, <1>6 DEF Lock, HandshakeInv
  <2>2. HandshakeTypeOK' /\ Same
    BY <1>1, <1>6, <2>1 DEF Lock, HandshakeTypeOK, Before, Answered, Goal, waker, States
  <2>3. QED
    BY <1>1, <1>6, <2>1, <2>2, Goals, Zenon DEF Lock, HandshakeInv, Answered, waker
<1>7. CASE CheckWaiting
  <2>1. waits < Len(wakes)
    BY <1>1, <1>7 DEF CheckWaiting, HandshakeInv
  <2>2. HandshakeTypeOK' /\ Same
    BY <1>1, <1>7, <2>1 DEF CheckWaiting, HandshakeTypeOK, Before, Answered, Goal, waker, States
  <2>3. QED
    BY <1>1, <1>7, <2>1, <2>2, Goals, Zenon DEF CheckWaiting, HandshakeInv, Answered, waker
<1>8. CASE SpuriousWakeup
  <2>1. waits < Len(wakes)
    BY <1>1, <1>8 DEF SpuriousWakeup, HandshakeInv
  <2>2. HandshakeTypeOK' /\ Same
    BY <1>1, <1>8, <2>1 DEF SpuriousWakeup, HandshakeTypeOK, Before, Answered, Goal, waker, States
  <2>3. QED
    BY <1>1, <1>8, <2>1, <2>2, Goals, Zenon DEF SpuriousWakeup, HandshakeInv, Answered, waker
<1>9. CASE Return
  <2>1. waits < Len(wakes) /\ sets = waits + 1 /\ wpc = "idle"
    BY <1>1, <1>9 DEF Return, HandshakeInv
  <2>2. HandshakeTypeOK' /\ ~Answered' /\ Before' = state
    BY <1>1, <1>9, <2>1 DEF Return, HandshakeTypeOK, HandshakeInv, Before, Answered, waker
  <2>3. QED
    BY <1>1, <1>9, <2>1, <2>2, Zenon DEF Return, HandshakeInv, waker
<1>10. QED
  BY <1>2, <1>3, <1>4, <1>5, <1>6, <1>7, <1>8, <1>9, Zenon DEF Waiter

\* The steps of the waker.
LEMMA WakerStep ==
  ASSUME Roles, HandshakeInv, Waker
  PROVE  HandshakeInv'
<1> DEFINE Same == Before' = Before /\ Goal' = Goal
<1>1. /\ HandshakeTypeOK /\ Len(wakes) \in 1..2
      /\ waits \in 0..Len(wakes) /\ sets \in 0..Len(wakes)
  BY Zenon DEF HandshakeInv, HandshakeTypeOK, Roles
<1> USE DEF Blocking
<1>2. CASE SetState
  <2>1. waits < Len(wakes) /\ sets = waits
    BY <1>1, <1>2, Zenon DEF SetState, HandshakeInv
  <2>2. HandshakeTypeOK' /\ Same
    BY <1>1, <1>2, <2>1, Goals DEF SetState, HandshakeTypeOK, Before, Goal, waiter, States
  <2>3. QED
    BY <1>1, <1>2, <2>1, <2>2, Goals DEF SetState, HandshakeInv, Answered, waiter
<1>3. CASE SwapState
  <2>1. waits < Len(wakes) /\ sets = waits
    BY <1>1, <1>3, Zenon DEF SwapState, HandshakeInv
  <2>2. HandshakeTypeOK' /\ Same
    BY <1>1, <1>3, <2>1, Goals DEF SwapState, HandshakeTypeOK, Before, Goal, waiter, States
  <2>3. wpc = "swap" /\ wloaded = Before /\ ~Answered
    BY <1>1, <1>3, <2>1 DEF SwapState, HandshakeInv, Answered
  <2>4. CASE state = wloaded
    <3>1. apc \notin Blocking /\ state # "LOCKED_WAITING"
      BY <2>1, <2>3, <2>4, Goals, <1>1, Zenon DEF HandshakeInv, States
    <3>2. state' = wakes[waits + 1] /\ sets' = waits + 1 /\ wpc' = "idle"
      BY <1>3, <2>1, <2>4, Zenon DEF SwapState
    <3>3. /\ UNCHANGED <<wakes, made_waitable, mutex, apc, loaded, waits, wloaded>>
          /\ state' # "LOCKED_WAITING"
      BY <1>1, <1>3, <2>1, <2>4, <3>2, Goals, Zenon DEF SwapState, waiter, States
    <3>4. Answered'
      BY <3>2, <3>3, Zenon DEF Answered
    <3>5. QED
      BY <1>1, <2>1, <2>2, <2>3, <3>1, <3>2, <3>3, <3>4, Zenon DEF HandshakeInv
  <2>5. CASE state # wloaded
    <3>1. state = "LOCKED_WAITING" /\ wpc' = "lock" /\ ~Answered'
      BY <1>1, <1>3, <2>1, <2>3, <2>5, Zenon DEF SwapState, HandshakeInv, Answered, waiter
    <3>2. QED
      BY <1>1, <1>3, <2>1, <2>2, <2>3, <2>5, <3>1, Zenon DEF SwapState, HandshakeInv, waiter
  <2>6. QED
    BY <2>4, <2>5, Zenon
<1>4. CASE WakerLock
  <2>1. waits < Len(wakes) /\ sets = waits
    BY <1>1, <1>4, Zenon DEF WakerLock, HandshakeInv
  <2>2. HandshakeTypeOK' /\ Same
    BY <1>1, <1>4, <2>1, Goals DEF WakerLock, HandshakeTypeOK, Before, Goal, waiter, States
  <2>3. QED
    BY <1>1, <1>4, <2>1, <2>2, Goals, Zenon DEF WakerLock, HandshakeInv, Answered, waiter
<1>5. CASE WakerStore
  <2>1. waits < Len(wakes) /\ sets = waits
    BY <1>1, <1>5, Zenon DEF WakerStore, HandshakeInv
  <2>2. HandshakeTypeOK' /\ Same
    BY <1>1, <1>5, <2>1, Goals DEF WakerStore, HandshakeTypeOK, Before, Goal, waiter, States
  <2>3. QED
    BY <1>1, <1>5, <2>1, <2>2, Goals, Zenon DEF WakerStore, HandshakeInv, Answered, waiter
<1>6. CASE WakerNotify
  <2>1. waits < Len(wakes) /\ sets = waits
    BY <1>1, <1>6, Zenon DEF WakerNotify, HandshakeInv
  <2>2. HandshakeTypeOK' /\ Same
    BY <1>1, <1>6, <2>1, Goals DEF WakerNotify, HandshakeTypeOK, Before, Goal, waiter, States
  <2>3. QED
    BY <1>1, <1>6, <2>1, <2>2, Goals, Zenon DEF WakerNotify, HandshakeInv, Answered, waiter
<1>7. CASE WakerUnlock
  <2>1. waits < Len(wakes) /\ sets = waits
    BY <1>1, <1>7, Zenon DEF WakerUnlock, HandshakeInv
  <2>2. HandshakeTypeOK' /\ Same
    BY <1>1, <1>7, <2>1, Goals DEF WakerUnlock, HandshakeTypeOK, Before, Goal, waiter, States
  <2>3. QED
    BY <1>1, <1>7, <2>1, <2>2, Goals, Zenon DEF WakerUnlock, HandshakeInv, Answered, waiter
<1>8. QED
  BY <1>2, <1>3, <1>4, <1>5, <1>6, <1>7, Zenon DEF Waker

\* The invariant of the handshake.
THEOREM HandshakeInvariant ==
  ASSUME Roles
  PROVE  HandshakeSpec => []HandshakeInv
<1>1. HandshakeInit => HandshakeInv
  BY HandshakeInitInv, Zenon
<1>2. HandshakeInv /\ [HandshakeNext]_handshake => HandshakeInv'
  <2>1. HandshakeInv /\ HandshakeNext => HandshakeInv'
    BY WaiterStep, WakerStep, Zenon DEF HandshakeNext
  <2>2. HandshakeInv /\ UNCHANGED handshake => HandshakeInv'
    BY DEF HandshakeInv, handshake, waiter, waker, HandshakeTypeOK, Before, Answered
  <2>3. QED
    BY <2>1, <2>2, Zenon
<1>3. QED
  BY <1>1, <1>2, PTL DEF HandshakeSpec

\* SetState never touches a mutex or condition variable that is not made yet
\* or that went with the waiter's stack frame.
THEOREM MutexIsAlive ==
  ASSUME Roles
  PROVE  HandshakeSpec => []MutexAlive
<1>1. HandshakeInv => MutexAlive
  BY Zenon DEF HandshakeInv, MutexAlive, Blocking
<1>2. QED
  BY <1>1, HandshakeInvariant, PTL

\* AwaitState returns the state its Writer was set to, which is one it waits
\* for (the assertions of BlockingAwaitState and AwaitState).
THEOREM WaitsReturnGoal ==
  ASSUME Roles
  PROVE  HandshakeSpec => []WaitReturnsGoal
<1>1. HandshakeInv => WaitReturnsGoal
  <2>1. SUFFICES ASSUME HandshakeInv, apc = "met"
                 PROVE  loaded \in Goal /\ loaded = wakes[waits + 1]
    BY Zenon DEF WaitReturnsGoal
  <2>2. HandshakeTypeOK /\ waits < Len(wakes)
    BY <2>1 DEF HandshakeInv, HandshakeTypeOK, Roles
  <2>3. QED
    BY <2>1, <2>2, Goals, Zenon DEF HandshakeInv
<1>2. QED
  BY <1>1, HandshakeInvariant, PTL

\* No wakeup is lost: a thread blocked in BlockingAwaitState has not been
\* answered, or the SetState that answered it has still to notify it.
THEOREM WakeupsAreNotLost ==
  ASSUME Roles
  PROVE  HandshakeSpec => []WakeupNotLost
<1>1. HandshakeInv => WakeupNotLost
  BY Zenon DEF HandshakeInv, WakeupNotLost
<1>2. QED
  BY <1>1, HandshakeInvariant, PTL

-----------------------------------------------------------------------------
(***************************************************************************)
(* Proofs about log::Writer for blocks, headers and records of any size,   *)
(* any number of records and any number of logs in the same file.          *)
(* LogRecovery and LogTail take these steps and no others on the writer.   *)
(***************************************************************************)

WriterNext ==
  \/ \E size \in RecordSizes : AddRecord(size)
  \/ EmitFragment
  \/ NewWriter

WriterSpec == WriterInit /\ [][WriterNext]_writer

PhysicalRecord ==
  [type : {"full", "first", "last", "middle"}, log : Nat, recyclable : BOOLEAN,
   length : Nat, record : Nat, from : Nat]

WriterTypeOK ==
  /\ recycle_log_files \in BOOLEAN
  /\ file \in Seq(Nat \X Nat)
  /\ emitted \in Seq(PhysicalRecord)
  /\ block_offset_ \in 0..kBlockSize
  /\ log_number \in Nat
  /\ sizes \in Seq(Nat)
  /\ left \in Nat
  /\ adding \in BOOLEAN
  /\ begin \in BOOLEAN

\* block_offset_ is where the file ends in its block.
Aligned == \E b \in Nat : Len(file) = b * kBlockSize + block_offset_

\* Nothing of this log has been emitted; its last physical record otherwise.
Fresh == emitted = <<>> \/ emitted[Len(emitted)].log # log_number
Latest == emitted[Len(emitted)]

\* What left and begin say of the record that AddRecord is at work on.
Progress ==
  /\ adding => /\ sizes # <<>>
               /\ left <= sizes[Len(sizes)]
  /\ adding /\ begin =>
       /\ left = sizes[Len(sizes)]
       /\ IF Fresh THEN Len(sizes) = 1
          ELSE Ends(Latest) /\ Latest.record = Len(sizes) - 1
  /\ adding /\ ~begin =>
       /\ ~Fresh /\ ~Ends(Latest) /\ Latest.record = Len(sizes)
       /\ Latest.from + Latest.length = sizes[Len(sizes)] - left
  /\ ~adding =>
       IF Fresh THEN sizes = <<>>
       ELSE Ends(Latest) /\ Latest.record = Len(sizes)

NoLaterLog == \A i \in 1..Len(emitted) : emitted[i].log <= log_number

LogInv ==
  /\ WriterTypeOK
  /\ Aligned
  /\ NoLaterLog
  /\ Progress
  /\ InOneBlock
  /\ FragmentsFollow

\* Where EmitFragment puts the next fragment, and how long it is.
Offset == IF Trailer > 0 \/ block_offset_ = kBlockSize THEN 0 ELSE block_offset_
Length == IF left < Avail(Offset) THEN left ELSE Avail(Offset)
Fragment ==
  [type |-> FragmentType(begin, left = Length), log |-> log_number,
   recyclable |-> recycle_log_files, length |-> Length,
   record |-> Len(sizes), from |-> sizes[Len(sizes)] - left]
-----------------------------------------------------------------------------
\* A header fits into a block.
LEMMA Headers ==
  ASSUME WriterTypeOK
  PROVE  HeaderSize \in Nat /\ 0 < HeaderSize /\ HeaderSize < kBlockSize
BY LogAssumption DEF WriterTypeOK, HeaderSize

\* EmitFragment pads the block if there is no room for a header, then appends one
\* fragment.
LEMMA Emits ==
  ASSUME EmitFragment
  PROVE  /\ adding
         /\ file' = file \o [i \in 1..Trailer |-> Zero]
                         \o Cells(Len(emitted) + 1, HeaderSize + Length)
         /\ emitted' = Append(emitted, Fragment)
         /\ block_offset_' = Offset + HeaderSize + Length
         /\ left' = left - Length
         /\ begin' = FALSE
         /\ adding' = (left > Length)
         /\ UNCHANGED <<recycle_log_files, log_number, sizes>>
BY Zenon DEF EmitFragment, Offset, Length, Fragment

\* The assertion of AddRecord: behind the trailer there is room for a header.
LEMMA RoomForHeader ==
  ASSUME WriterTypeOK
  PROVE  /\ Trailer \in Nat
         /\ Offset \in 0..kBlockSize - HeaderSize
         /\ Avail(Offset) \in Nat
         /\ Length \in Nat /\ Length <= left
         /\ Offset + HeaderSize + Length <= kBlockSize
         /\ \/ Trailer = 0 /\ Offset = block_offset_
            \/ Offset = 0 /\ Trailer = kBlockSize - block_offset_
<1>1. /\ HeaderSize \in Nat /\ 0 < HeaderSize /\ HeaderSize < kBlockSize
      /\ kBlockSize \in Nat /\ block_offset_ \in 0..kBlockSize /\ left \in Nat
  BY Headers, LogAssumption, Zenon DEF WriterTypeOK
<1>2. /\ Trailer \in Nat /\ Offset \in 0..kBlockSize - HeaderSize
      /\ \/ Trailer = 0 /\ Offset = block_offset_
         \/ Offset = 0 /\ Trailer = kBlockSize - block_offset_
  BY <1>1 DEF Trailer, Offset
<1>3. Avail(Offset) \in Nat /\ Offset + HeaderSize + Avail(Offset) = kBlockSize
  BY <1>1, <1>2 DEF Avail
<1>4. Length \in Nat /\ Length <= left /\ Length <= Avail(Offset)
  BY <1>1, <1>3 DEF Length
<1>5. Offset + HeaderSize + Length <= kBlockSize
  BY <1>1, <1>2, <1>3, <1>4
<1>6. QED
  BY <1>2, <1>3, <1>4, <1>5, Zenon

\* The invariant holds of a log that is empty.
LEMMA WriterLogInitInv ==
  ASSUME WriterInit
  PROVE  LogInv
<1>1. /\ Len(file) = 0 /\ block_offset_ = 0
      /\ file \in Seq(Nat \X Nat)
      /\ emitted \in Seq(PhysicalRecord)
      /\ sizes \in Seq(Nat)
      /\ block_offset_ \in 0..kBlockSize /\ log_number \in Nat /\ left \in Nat
  BY LogAssumption DEF WriterInit
<1>2. WriterTypeOK
  BY <1>1, Zenon DEF WriterInit, WriterTypeOK
<1>3. Aligned
  <2>1. Len(file) = 0 * kBlockSize + block_offset_
    BY <1>1, LogAssumption
  <2>2. QED
    BY <2>1, Zenon DEF Aligned
<1>4. Len(emitted) = 0 /\ emitted = <<>> /\ sizes = <<>> /\ adding = FALSE
  BY Zenon DEF WriterInit
<1>5. NoLaterLog /\ InOneBlock /\ FragmentsFollow
  BY <1>4 DEF NoLaterLog, InOneBlock, FragmentsFollow
<1>6. Progress
  BY <1>4, Zenon DEF Progress, Fresh
<1>7. QED
  BY <1>2, <1>3, <1>5, <1>6, Zenon DEF LogInv

\* The start of AddRecord keeps the invariant.
LEMMA AddRecordStep ==
  ASSUME LogInv, NEW size \in RecordSizes, AddRecord(size)
  PROVE  LogInv'
<1>1. /\ WriterTypeOK /\ size \in Nat
      /\ ~adding /\ adding' = TRUE /\ begin' = TRUE /\ left' = size
      /\ sizes' = Append(sizes, size)
      /\ UNCHANGED <<recycle_log_files, file, emitted, block_offset_, log_number>>
  BY LogAssumption, Zenon DEF LogInv, AddRecord
<1>2. /\ Len(sizes') = Len(sizes) + 1 /\ sizes'[Len(sizes')] = size
      /\ \A r \in 1..Len(sizes) : sizes'[r] = sizes[r]
      /\ sizes' \in Seq(Nat) /\ Len(sizes) \in Nat /\ sizes' # <<>>
  <2>1. sizes \in Seq(Nat)
    BY <1>1, Zenon DEF WriterTypeOK
  <2>2. QED
    BY <1>1, <2>1, SMTT(30)
<1>3. WriterTypeOK'
  BY <1>1, <1>2, Zenon DEF WriterTypeOK
<1>4. Aligned' /\ NoLaterLog'
  BY <1>1, Zenon DEF LogInv, Aligned, NoLaterLog
<1>5. InOneBlock'
  <2>1. HeaderSize' = HeaderSize /\ file' = file
        /\ emitted' = emitted /\ log_number' = log_number
    BY <1>1, Zenon DEF HeaderSize
  <2>2. InOneBlock
    BY Zenon DEF LogInv
  <2>3. QED
    BY <2>1, <2>2, Zenon DEF InOneBlock
<1>6. Fresh' = Fresh /\ Latest' = Latest
  BY <1>1, Zenon DEF Fresh, Latest
<1>7. Progress'
  <2>1. IF Fresh THEN sizes = <<>> ELSE Ends(Latest) /\ Latest.record = Len(sizes)
    BY <1>1, Zenon DEF LogInv, Progress
  <2>2. Ends(Latest)' = Ends(Latest)
    BY <1>6, Zenon DEF Ends
  <2>3. IF Fresh THEN Len(sizes') = 1
        ELSE Ends(Latest) /\ Latest.record = Len(sizes') - 1
    BY <1>2, <2>1
  <2>4. QED
    BY <1>1, <1>2, <1>6, <2>2, <2>3 DEF Progress
<1>8. FragmentsFollow'
  <2>1. SUFFICES ASSUME NEW i \in 1..Len(emitted), emitted[i].log = log_number
                 PROVE  /\ emitted[i].record \in 1..Len(sizes')
                        /\ sizes'[emitted[i].record] = sizes[emitted[i].record]
    BY <1>1, SMTT(30) DEF LogInv, FragmentsFollow, Follows, Starts, Ends
  <2>2. emitted[i].record \in 1..Len(sizes)
    BY <2>1, Zenon DEF LogInv, FragmentsFollow, Follows
  <2>3. QED
    BY <1>2, <2>2, SMTT(30)
<1>9. QED
  BY <1>3, <1>4, <1>5, <1>7, <1>8, Zenon DEF LogInv

\* A new log in the same file keeps the invariant.
LEMMA NewWriterStep ==
  ASSUME LogInv, NewWriter
  PROVE  LogInv'
<1>1. /\ WriterTypeOK /\ NoLaterLog /\ ~adding
      /\ file' = <<>> /\ block_offset_' = 0 /\ sizes' = <<>>
      /\ log_number' = log_number + 1
      /\ UNCHANGED <<recycle_log_files, emitted, left, adding, begin>>
  BY Zenon DEF LogInv, NewWriter
<1>2. WriterTypeOK' /\ Len(file') = 0 * kBlockSize + block_offset_'
  BY <1>1, LogAssumption DEF WriterTypeOK
<1>3. Aligned'
  BY <1>2, Zenon DEF Aligned
<1>4. \A i \in 1..Len(emitted') :
        emitted'[i].log <= log_number' /\ emitted'[i].log # log_number'
  <2>1. SUFFICES ASSUME NEW i \in 1..Len(emitted)
                 PROVE  /\ emitted[i].log <= log_number + 1
                        /\ emitted[i].log # log_number + 1
    BY <1>1, Zenon
  <2>2. emitted[i] \in PhysicalRecord /\ log_number \in Nat
    BY <1>1 DEF WriterTypeOK
  <2>3. emitted[i].log \in Nat /\ emitted[i].log <= log_number
    BY <1>1, <2>2, Zenon DEF PhysicalRecord, NoLaterLog
  <2>4. QED
    BY <2>2, <2>3
<1>5. NoLaterLog' /\ InOneBlock' /\ FragmentsFollow'
  BY <1>4, Zenon DEF NoLaterLog, InOneBlock, FragmentsFollow
<1>6. Fresh'
  BY <1>1, <1>4 DEF Fresh, WriterTypeOK
<1>7. Progress'
  BY <1>1, <1>6, Zenon DEF Progress
<1>8. QED
  BY <1>2, <1>3, <1>5, <1>7, Zenon DEF LogInv

\* The elements of three sequences put together.
LEMMA Concatenated ==
  ASSUME NEW S, NEW a \in Seq(S), NEW b \in Seq(S), NEW c \in Seq(S)
  PROVE  /\ a \o b \o c \in Seq(S)
         /\ Len(a \o b \o c) = Len(a) + Len(b) + Len(c)
         /\ \A i \in 1..Len(a) : (a \o b \o c)[i] = a[i]
         /\ \A i \in 1..Len(c) : (a \o b \o c)[Len(a) + Len(b) + i] = c[i]
<1>1. /\ a \o b \in Seq(S) /\ Len(a \o b) = Len(a) + Len(b)
      /\ \A i \in 1..Len(a) : (a \o b)[i] = a[i]
  OBVIOUS
<1>2. QED
  BY <1>1

\* The file grows by the trailer and the fragment.
LEMMA Grows ==
  ASSUME WriterTypeOK, EmitFragment
  PROVE  LET at == Len(file) + Trailer n == HeaderSize + Length IN
         /\ file' \in Seq(Nat \X Nat)
         /\ Len(file') = at + n
         /\ \A i \in 1..Len(file) : file'[i] = file[i]
         /\ \A i \in 1..n : file'[at + i] = <<Len(emitted) + 1, i - 1>>
<1>. DEFINE T == [i \in 1..Trailer |-> Zero]
            n == HeaderSize + Length
            C == [i \in 1..n |-> <<Len(emitted) + 1, i - 1>>]
<1>1. /\ Trailer \in Nat /\ n \in Nat /\ Len(emitted) \in Nat
      /\ file \in Seq(Nat \X Nat)
  BY Headers, RoomForHeader DEF WriterTypeOK
<1>2. T \in Seq(Nat \X Nat) /\ Len(T) = Trailer
  BY <1>1 DEF Zero
<1>3. C \in Seq(Nat \X Nat) /\ Len(C) = n
  <2>1. \A i \in 1..n : <<Len(emitted) + 1, i - 1>> \in Nat \X Nat
    BY <1>1
  <2>. HIDE DEF n
  <2>2. C \in [1..n -> Nat \X Nat]
    BY <2>1, Zenon
  <2>3. QED
    BY <1>1, <2>2
<1>4. file' = file \o T \o C
  BY Emits, Zenon DEF Cells
<1>5. \A i \in 1..n : C[i] = <<Len(emitted) + 1, i - 1>>
  BY Zenon
<1>. HIDE DEF T, C, n
<1>6. /\ file' \in Seq(Nat \X Nat)
      /\ Len(file') = Len(file) + Len(T) + Len(C)
      /\ \A i \in 1..Len(file) : file'[i] = file[i]
      /\ \A i \in 1..Len(C) : file'[Len(file) + Len(T) + i] = C[i]
  <2>. DEFINE S == Nat \X Nat
  <2>1. file \in Seq(S) /\ T \in Seq(S) /\ C \in Seq(S)
    BY <1>1, <1>2, <1>3, Zenon
  <2>. HIDE DEF S
  <2>2. /\ file \o T \o C \in Seq(S)
        /\ Len(file \o T \o C) = Len(file) + Len(T) + Len(C)
        /\ \A i \in 1..Len(file) : (file \o T \o C)[i] = file[i]
        /\ \A i \in 1..Len(C) : (file \o T \o C)[Len(file) + Len(T) + i] = C[i]
    BY <2>1, Concatenated
  <2>3. QED
    BY <1>4, <2>2, Zenon DEF S
<1>7. QED
  BY <1>2, <1>3, <1>5, <1>6, Zenon DEF n

\* A trailer ends the block that it is in.
LEMMA TrailerEndsBlock ==
  ASSUME WriterTypeOK, Aligned
  PROVE  \E b \in Nat : Len(file) + Trailer = b * kBlockSize + Offset
<1>1. PICK b \in Nat : Len(file) = b * kBlockSize + block_offset_
  BY Zenon DEF Aligned
<1>2. kBlockSize \in Nat /\ block_offset_ \in Nat /\ b * kBlockSize \in Nat
  BY LogAssumption DEF WriterTypeOK
<1>3. CASE Trailer = 0 /\ Offset = block_offset_
  BY <1>1, <1>2, <1>3
<1>4. CASE Offset = 0 /\ Trailer = kBlockSize - block_offset_
  <2>1. b + 1 \in Nat /\ (b + 1) * kBlockSize = b * kBlockSize + kBlockSize
    BY <1>2
  <2>2. Len(file) + Trailer = (b + 1) * kBlockSize + Offset
    BY <1>1, <1>2, <1>4, <2>1
  <2>3. QED
    BY <2>1, <2>2, Zenon
<1>5. QED
  BY <1>3, <1>4, RoomForHeader, Zenon

\* What is in a block stays there when the file grows.
LEMMA StaysInBlock ==
  ASSUME NEW S, NEW c \in Seq(S), NEW d \in Seq(S), NEW p \in Nat, NEW n \in Nat,
         Len(c) <= Len(d), \A i \in 1..Len(c) : d[i] = c[i], InBlock(c, p, n)
  PROVE  InBlock(d, p, n)
<1>1. kBlockSize \in Nat /\ Len(c) \in Nat /\ Len(d) \in Nat
  BY LogAssumption
<1>2. PICK b \in 0..Len(c), o \in 0..kBlockSize - n :
        /\ b * kBlockSize + o + n <= Len(c)
        /\ \A i \in 1..n : c[b * kBlockSize + o + i] = <<p, i - 1>>
  BY Zenon DEF InBlock
<1>. DEFINE at == b * kBlockSize
<1>3. at \in Nat
  BY <1>1, <1>2
<1>4. b \in 0..Len(d)
  BY <1>1, <1>2
<1>. HIDE DEF at
<1>5. at + o + n <= Len(c) /\ \A i \in 1..n : c[at + o + i] = <<p, i - 1>>
  BY <1>2, Zenon DEF at
<1>6. \A i \in 1..n : at + o + i \in 1..Len(c)
  BY <1>1, <1>3, <1>5
<1>7. at + o + n <= Len(d) /\ \A i \in 1..n : d[at + o + i] = <<p, i - 1>>
  <2>1. at + o + n <= Len(d)
    BY <1>1, <1>3, <1>5
  <2>2. SUFFICES ASSUME NEW i \in 1..n PROVE d[at + o + i] = <<p, i - 1>>
    BY <2>1, Zenon
  <2>3. d[at + o + i] = c[at + o + i]
    BY <1>6, Zenon
  <2>4. QED
    BY <1>5, <2>3, Zenon
<1>8. QED
  BY <1>4, <1>7, Zenon DEF InBlock, at

\* The fragment emitted is in one block, and those before it still are.
LEMMA EmitInOneBlock ==
  ASSUME WriterTypeOK, Aligned, InOneBlock, EmitFragment
  PROVE  InOneBlock' /\ Aligned'
<1>. DEFINE n == HeaderSize + Length
            at == Len(file) + Trailer
<1>1. /\ n \in Nat /\ n > 0 /\ Trailer \in Nat /\ Len(file) \in Nat
      /\ Offset \in Nat /\ Offset + n <= kBlockSize
      /\ kBlockSize \in Nat /\ kBlockSize > 0
  <2>1. file \in Seq(Nat \X Nat)
    BY Zenon DEF WriterTypeOK
  <2>2. kBlockSize \in Nat /\ HeaderSize \in Nat /\ 0 < HeaderSize /\ HeaderSize < kBlockSize
    BY Headers, LogAssumption, Zenon
  <2>3. /\ Trailer \in Nat /\ Offset \in 0..kBlockSize - HeaderSize
        /\ Length \in Nat /\ Offset + HeaderSize + Length <= kBlockSize
    BY RoomForHeader, Zenon
  <2>4. Len(file) \in Nat
    BY <2>1
  <2>5. QED
    BY <2>2, <2>3, <2>4
<1>2. /\ file \in Seq(Nat \X Nat) /\ file' \in Seq(Nat \X Nat)
      /\ Len(file') = at + n
      /\ \A i \in 1..Len(file) : file'[i] = file[i]
      /\ \A i \in 1..n : file'[at + i] = <<Len(emitted) + 1, i - 1>>
  BY Grows, Zenon DEF WriterTypeOK
<1>3. PICK b \in Nat : at = b * kBlockSize + Offset
  BY TrailerEndsBlock, Zenon
<1>4. block_offset_' = Offset + n
  BY Emits, Headers, RoomForHeader
<1>5. HeaderSize' = HeaderSize /\ log_number' = log_number
  BY Emits DEF HeaderSize
<1>6. /\ emitted \in Seq(PhysicalRecord) /\ Len(emitted) \in Nat
      /\ emitted' = Append(emitted, Fragment) /\ Fragment.length = Length
  BY Emits DEF WriterTypeOK, Fragment
<1>7. /\ Len(emitted') = Len(emitted) + 1
      /\ \A p \in 1..Len(emitted) : emitted'[p] = emitted[p]
      /\ emitted'[Len(emitted) + 1] = Fragment
  BY <1>6
<1>. HIDE DEF n, at
<1>8. InBlock(file', Len(emitted) + 1, n)
  <2>1. b * kBlockSize \in Nat /\ b <= b * kBlockSize
    BY <1>1
  <2>2. b \in 0..Len(file') /\ Offset \in 0..kBlockSize - n
    <3>1. Len(file') = b * kBlockSize + Offset + n
      BY <1>2, <1>3, Zenon
    <3>2. QED
      BY <1>1, <2>1, <3>1
  <2>3. b * kBlockSize + Offset + n <= Len(file')
    BY <1>1, <1>2, <1>3, <2>1
  <2>4. \A i \in 1..n : file'[b * kBlockSize + Offset + i] = <<Len(emitted) + 1, i - 1>>
    BY <1>2, <1>3, Zenon
  <2>5. QED
    BY <2>2, <2>3, <2>4, Zenon DEF InBlock
<1>9. ASSUME NEW p \in 1..Len(emitted), emitted[p].log = log_number
      PROVE  InBlock(file', p, HeaderSize + emitted[p].length)
  <2>1. InBlock(file, p, HeaderSize + emitted[p].length)
    BY <1>9, Zenon DEF InOneBlock
  <2>2. emitted[p] \in PhysicalRecord
    BY <1>6
  <2>3. HeaderSize + emitted[p].length \in Nat /\ p \in Nat
    <3>1. emitted[p].length \in Nat /\ HeaderSize \in Nat
      BY <2>2, Headers, Zenon DEF PhysicalRecord
    <3>2. QED
      BY <1>6, <3>1
  <2>4. at >= Len(file)
    BY <1>1 DEF at
  <2>5. Len(file) <= Len(file')
    BY <1>1, <1>2, <2>4 DEF at
  <2>. DEFINE S == Nat \X Nat
  <2>6. file \in Seq(S) /\ file' \in Seq(S)
    BY <1>2, Zenon
  <2>. HIDE DEF S
  <2>7. QED
    BY <1>2, <2>1, <2>3, <2>5, <2>6, StaysInBlock, Zenon
<1>10. InOneBlock'
  <2>1. SUFFICES ASSUME NEW p \in 1..Len(emitted'), emitted'[p].log = log_number
                 PROVE  InBlock(file', p, HeaderSize + emitted'[p].length)
    BY <1>5, Zenon DEF InOneBlock
  <2>2. CASE p \in 1..Len(emitted)
    BY <1>7, <1>9, <2>1, <2>2, Zenon
  <2>3. CASE p = Len(emitted) + 1
    BY <1>6, <1>7, <1>8, <2>3, Zenon DEF n
  <2>4. QED
    BY <1>6, <1>7, <2>1, <2>2, <2>3
<1>11. Aligned'
  <2>1. Len(file') = b * kBlockSize + block_offset_'
    <3>1. b * kBlockSize \in Nat
      BY <1>1
    <3>2. QED
      BY <1>1, <1>2, <1>3, <1>4, <3>1
  <2>2. QED
    BY <2>1, Zenon DEF Aligned
<1>12. QED
  BY <1>10, <1>11, Zenon

\* The next fragment belongs to the record being added and continues it; it starts
\* or ends the record exactly when the code's flags say so.
LEMMA FragmentFacts ==
  ASSUME WriterTypeOK, Progress, EmitFragment
  PROVE  /\ Fragment \in PhysicalRecord
         /\ Fragment.log = log_number /\ Fragment.record = Len(sizes)
         /\ Fragment.record \in 1..Len(sizes)
         /\ Fragment.from = sizes[Len(sizes)] - left
         /\ Fragment.from + Fragment.length = sizes[Len(sizes)] - left'
         /\ Starts(Fragment) <=> begin
         /\ Ends(Fragment) <=> left = Length
<1>1. /\ adding /\ sizes # <<>> /\ left <= sizes[Len(sizes)]
      /\ left \in Nat /\ Length \in Nat /\ sizes \in Seq(Nat)
      /\ left' = left - Length
  BY Emits, RoomForHeader, Zenon DEF WriterTypeOK, Progress
<1>2. Len(sizes) \in Nat /\ Len(sizes) \in 1..Len(sizes) /\ sizes[Len(sizes)] \in Nat
  BY <1>1
<1>3. sizes[Len(sizes)] - left \in Nat
      /\ sizes[Len(sizes)] - left + Length = sizes[Len(sizes)] - left'
  BY <1>1, <1>2
<1>4. begin \in BOOLEAN /\ log_number \in Nat /\ recycle_log_files \in BOOLEAN
  BY Zenon DEF WriterTypeOK
<1>5. LET t == FragmentType(begin, left = Length) IN
      /\ t \in {"full", "first", "last", "middle"}
      /\ t \in {"full", "first"} <=> begin
      /\ t \in {"full", "last"} <=> left = Length
  BY <1>4, Zenon DEF FragmentType
<1>6. QED
  BY <1>1, <1>2, <1>3, <1>4, <1>5, Zenon DEF Fragment, PhysicalRecord, Starts, Ends

\* Emitting a fragment keeps the invariant.
LEMMA EmitStep ==
  ASSUME LogInv, EmitFragment
  PROVE  LogInv'
<1>. DEFINE N == Len(emitted)
<1>1. WriterTypeOK /\ Aligned /\ NoLaterLog /\ Progress /\ InOneBlock /\ FragmentsFollow
  BY Zenon DEF LogInv
<1>2. /\ adding /\ begin' = FALSE /\ left' = left - Length /\ left' \in Nat
      /\ left \in Nat /\ Length \in Nat
      /\ adding' = (left # Length)
      /\ UNCHANGED <<recycle_log_files, log_number, sizes>>
  <2>1. left \in Nat /\ Length \in Nat /\ Length <= left
    BY <1>1, RoomForHeader, Zenon DEF WriterTypeOK
  <2>2. left - Length \in Nat /\ (left > Length) = (left # Length)
    BY <2>1
  <2>3. QED
    BY <2>1, <2>2, Emits, Zenon
<1>3. /\ Fragment \in PhysicalRecord
      /\ Fragment.log = log_number /\ Fragment.record = Len(sizes)
      /\ Fragment.record \in 1..Len(sizes)
      /\ Fragment.from = sizes[Len(sizes)] - left
      /\ Fragment.from + Fragment.length = sizes[Len(sizes)] - left'
      /\ Starts(Fragment) <=> begin
      /\ Ends(Fragment) <=> left = Length
  BY <1>1, FragmentFacts, Zenon
<1>4. /\ N \in Nat /\ emitted' \in Seq(PhysicalRecord) /\ Len(emitted') = N + 1
      /\ \A i \in 1..N : emitted'[i] = emitted[i]
      /\ emitted'[N + 1] = Fragment /\ emitted' # <<>>
  <2>1. emitted \in Seq(PhysicalRecord) /\ emitted' = Append(emitted, Fragment)
    BY <1>1, Emits, Zenon DEF WriterTypeOK
  <2>2. QED
    BY <1>3, <2>1
<1>. HIDE DEF N
<1>5. WriterTypeOK'
  <2>1. file' \in Seq(Nat \X Nat)
    BY <1>1, Grows, Zenon
  <2>2. block_offset_' \in 0..kBlockSize
    <3>1. /\ Offset \in 0..kBlockSize - HeaderSize /\ Length \in Nat
          /\ Offset + HeaderSize + Length <= kBlockSize
          /\ HeaderSize \in Nat /\ kBlockSize \in Nat
          /\ block_offset_' = Offset + HeaderSize + Length
      BY <1>1, Emits, RoomForHeader, Headers, LogAssumption, Zenon
    <3>2. QED
      BY <3>1
  <2>3. adding' \in BOOLEAN /\ begin' \in BOOLEAN
    BY <1>2, Zenon
  <2>4. QED
    BY <1>1, <1>2, <1>4, <2>1, <2>2, <2>3, Zenon DEF WriterTypeOK
<1>6. InOneBlock' /\ Aligned'
  BY <1>1, EmitInOneBlock, Zenon
<1>7. NoLaterLog'
  <2>1. SUFFICES ASSUME NEW i \in 1..N + 1
                 PROVE  emitted'[i].log <= log_number
    BY <1>2, <1>4, Zenon DEF NoLaterLog
  <2>2. CASE i \in 1..N
    BY <1>1, <1>4, <2>2, Zenon DEF NoLaterLog, N
  <2>3. CASE i = N + 1
    BY <1>1, <1>3, <1>4, <2>3 DEF WriterTypeOK
  <2>4. QED
    BY <1>4, <2>2, <2>3
<1>8. Fresh' = FALSE /\ Latest' = Fragment
  BY <1>2, <1>3, <1>4, Zenon DEF Fresh, Latest
<1>9. Progress'
  <2>1. Ends(Latest)' <=> left = Length
    BY <1>3, <1>8, Zenon DEF Ends
  <2>2. adding' => sizes # <<>> /\ left' <= sizes[Len(sizes)]
    <3>1. sizes # <<>> /\ left <= sizes[Len(sizes)] /\ sizes \in Seq(Nat)
      BY <1>1, <1>2, Zenon DEF Progress, WriterTypeOK
    <3>2. sizes[Len(sizes)] \in Nat
      BY <3>1
    <3>3. QED
      BY <1>2, <3>1, <3>2
  <2>3. QED
    BY <1>2, <1>3, <1>8, <2>1, <2>2, Zenon DEF Progress
<1>10. ASSUME NEW i \in 1..N, emitted[i].log = log_number
       PROVE  Follows(i)'
  <2>1. Follows(i)
    BY <1>1, <1>10, Zenon DEF FragmentsFollow, N
  <2>2. emitted'[i] = emitted[i] /\ (i # 1 => emitted'[i - 1] = emitted[i - 1])
    BY <1>4
  <2>3. QED
    BY <1>2, <2>1, <2>2, Zenon DEF Follows, Starts, Ends
<1>11. ASSUME NEW i, i = N + 1
       PROVE  Follows(i)'
  <2>. DEFINE q == emitted'[i - 1]
  <2>0. SUFFICES
          /\ Fragment.record \in 1..Len(sizes)
          /\ Ends(Fragment) <=> Fragment.from + Fragment.length = sizes[Fragment.record]
          /\ Starts(Fragment) => Fragment.from = 0
          /\ IF i = 1 \/ q.log # log_number
             THEN Starts(Fragment) /\ Fragment.record = 1
             ELSE IF Starts(Fragment) THEN Ends(q) /\ Fragment.record = q.record + 1
             ELSE ~Ends(q) /\ Fragment.record = q.record
                  /\ Fragment.from = q.from + q.length
    BY <1>2, <1>4, <1>11, Zenon DEF Follows, Starts, Ends
  <2>1. (Ends(Fragment) <=> Fragment.from + Fragment.length = sizes[Fragment.record])
    <3>1. sizes[Len(sizes)] \in Nat
      BY <1>1, <1>2 DEF WriterTypeOK, Progress
    <3>2. left = Length <=> sizes[Len(sizes)] - left' = sizes[Len(sizes)]
      BY <1>2, <3>1
    <3>3. QED
      BY <1>3, <3>2, Zenon
  <2>2. begin => left = sizes[Len(sizes)]
    BY <1>1, <1>2, Zenon DEF Progress
  <2>3. Starts(Fragment) => Fragment.from = 0
    BY <1>2, <1>3, <2>2
  <2>4. CASE Fresh
    <3>1. N = 0 \/ emitted[N].log # log_number
      BY <2>4 DEF Fresh, N
    <3>2. begin /\ Len(sizes) = 1
      BY <1>1, <1>2, <2>4, Zenon DEF Progress, WriterTypeOK
    <3>3. i = 1 \/ q.log # log_number
      BY <1>4, <1>11, <3>1
    <3>4. QED
      BY <1>3, <2>1, <2>3, <3>2, <3>3, Zenon
  <2>5. CASE ~Fresh
    <3>1. N \in 1..N /\ emitted[N] = Latest /\ Latest.log = log_number
      BY <1>4, <2>5 DEF Fresh, Latest, N, LogInv, WriterTypeOK
    <3>2. i # 1 /\ q = Latest
      BY <1>4, <1>11, <3>1
    <3>3. begin => Ends(Latest) /\ Fragment.record = Latest.record + 1
      <4>1. begin => Ends(Latest) /\ Latest.record = Len(sizes) - 1
        BY <1>1, <1>2, <2>5, Zenon DEF Progress
      <4>2. Len(sizes) \in Nat
        BY <1>1 DEF WriterTypeOK
      <4>3. QED
        BY <1>3, <4>1, <4>2
    <3>4. ~begin => /\ ~Ends(Latest) /\ Fragment.record = Latest.record
                    /\ Fragment.from = Latest.from + Latest.length
      BY <1>1, <1>2, <1>3, Zenon DEF Progress
    <3>5. QED
      BY <1>3, <2>1, <2>3, <3>1, <3>2, <3>3, <3>4, Zenon
  <2>6. QED
    BY <2>4, <2>5, Zenon
<1>12. FragmentsFollow'
  <2>1. SUFFICES ASSUME NEW i \in 1..N + 1, emitted'[i].log = log_number
                 PROVE  /\ Follows(i)'
                        /\ i = N + 1 /\ ~adding' =>
                             /\ Ends(emitted'[i])
                             /\ emitted'[i].record = Len(sizes)
    BY <1>2, <1>4, Zenon DEF FragmentsFollow, Ends
  <2>2. CASE i \in 1..N
    BY <1>4, <1>10, <2>1, <2>2
  <2>3. CASE i = N + 1
    BY <1>2, <1>3, <1>4, <1>11, <2>3, Zenon
  <2>4. QED
    BY <1>4, <2>2, <2>3
<1>13. QED
  BY <1>5, <1>6, <1>7, <1>9, <1>12, Zenon DEF LogInv

\* The invariant holds in every state of log::Writer.
LEMMA WriterInvariant == WriterSpec => []LogInv
<1>1. LogInv /\ [WriterNext]_writer => LogInv'
  <2>1. SUFFICES ASSUME LogInv, [WriterNext]_writer PROVE LogInv'
    BY Zenon
  <2>2. CASE WriterNext
    <3>1. CASE \E size \in RecordSizes : AddRecord(size)
      BY <2>1, <3>1, AddRecordStep, Zenon
    <3>2. CASE EmitFragment
      BY <2>1, <3>2, EmitStep, Zenon
    <3>3. CASE NewWriter
      BY <2>1, <3>3, NewWriterStep, Zenon
    <3>4. QED
      BY <2>2, <3>1, <3>2, <3>3, Zenon DEF WriterNext
  <2>3. CASE UNCHANGED writer
    <3>1. UNCHANGED <<recycle_log_files, file, emitted, block_offset_,
                      log_number, sizes, left, adding, begin>>
      BY <2>3, Zenon DEF writer
    <3>2. WriterTypeOK'
      BY <2>1, <3>1, Zenon DEF LogInv, WriterTypeOK
    <3>3. Aligned' /\ NoLaterLog'
      BY <2>1, <3>1, Zenon DEF LogInv, Aligned, NoLaterLog
    <3>4. Progress'
      BY <2>1, <3>1, Zenon DEF LogInv, Progress, Fresh, Latest, Ends
    <3>5. InOneBlock'
      <4>1. HeaderSize' = HeaderSize
        BY <3>1, Zenon DEF HeaderSize
      <4>2. QED
        BY <2>1, <3>1, <4>1, Zenon DEF LogInv, InOneBlock
    <3>6. FragmentsFollow'
      BY <2>1, <3>1, SMTT(30) DEF LogInv, FragmentsFollow, Follows, Starts, Ends
    <3>7. QED
      BY <3>2, <3>3, <3>4, <3>5, <3>6, Zenon DEF LogInv
  <2>4. QED
    BY <2>1, <2>2, <2>3, Zenon
<1>2. QED
  BY <1>1, WriterLogInitInv, PTL DEF WriterSpec
-----------------------------------------------------------------------------
\* Whatever records AddRecord is given and however many logs are written over
\* one another, each physical record lies whole in one block of the file.
THEOREM RecordsStayInBlocks == WriterSpec => []InOneBlock
<1>1. LogInv => InOneBlock
  BY Zenon DEF LogInv
<1>2. QED
  BY <1>1, WriterInvariant, PTL

\* The fragments that AddRecord emits, in order, are the records that it was
\* given, with the types that let the reader put them together again.
THEOREM FragmentsMakeRecords == WriterSpec => []FragmentsFollow
<1>1. LogInv => FragmentsFollow
  BY Zenon DEF LogInv
<1>2. QED
  BY <1>1, WriterInvariant, PTL
=============================================================================
