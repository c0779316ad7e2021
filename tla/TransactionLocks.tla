--------------------------- MODULE TransactionLocks ---------------------------
(***************************************************************************)
(* Pessimistic transactions of a TransactionDB (utilities/transactions):   *)
(* TransactionImpl and TransactionBaseImpl, each used by one thread, over  *)
(* the lock table of TransactionLockMgr, which they share.  A step is what *)
(* a thread does between two looks at what is shared: under the mutex of a *)
(* stripe, at an atomic variable, or in the database below.                *)
(*                                                                         *)
(* A lock expires when its transaction does, so time is the set of         *)
(* transactions that have.  How long a thread waits for a lock, and the    *)
(* limit of locks, only decide when it gives up.                           *)
(***************************************************************************)
EXTENDS Naturals, Sequences

CONSTANTS Txn,         \* transaction ids, which are never used again
          Key,
          GetStripe,   \* the stripe of each key
          MaxSequence, MaxSavePoints    \* bounds

VARIABLES
  keys,            \* holder of each key: {} or {t}
  exec_status_,
  expiring,        \* transactions with an expiration time
  expired,         \* and those for which it has come
  expirable_transactions_map_,
  pc, op,          \* what each is doing; key and flags of its TryLock
  to_unlock, after,\* keys its UnLock has yet to release; what it does then
  tracked_keys_, seq, \* keys it locked; since when they are unmodified
  batch,           \* keys it will write
  snapshot_,       \* sequence number of its snapshot: {} or {n}
  save_points_,
  LastSequence,    \* of the database
  modified,        \* sequence number of the last write of each key
  since            \* oldest snapshot with which it locked each key

locks == <<keys, exec_status_, expiring, expired, expirable_transactions_map_>>
database == <<LastSequence, modified>>
tracking == <<tracked_keys_, seq, batch, snapshot_, save_points_, since>>
control == <<pc, op, to_unlock, after>>
vars == <<locks, database, tracking, control>>

Init ==
  /\ keys = [k \in Key |-> {}]
  /\ exec_status_ = [t \in Txn |-> "STARTED"]
  /\ expiring = {} /\ expired = {} /\ expirable_transactions_map_ = {}
  /\ pc = [t \in Txn |-> "new"]
  /\ op \in [Txn -> [key : Key, write : BOOLEAN, untracked : BOOLEAN]]
  /\ to_unlock = [t \in Txn |-> {}]
  /\ after = [t \in Txn |-> "run"]
  /\ tracked_keys_ = [t \in Txn |-> {}]
  /\ seq = [t \in Txn |-> [k \in Key |-> 0]]
  /\ batch = [t \in Txn |-> {}]
  /\ snapshot_ = [t \in Txn |-> {}]
  /\ save_points_ = [t \in Txn |-> <<>>]
  /\ LastSequence = 0
  /\ modified = [k \in Key |-> 0]
  /\ since = [t \in Txn |-> [k \in Key |-> 0]]

Goto(t, label) == pc' = [pc EXCEPT ![t] = label]

-----------------------------------------------------------------------------
Initialize(t, expires) ==
  /\ pc[t] = "new"
  /\ Goto(t, "run")
  /\ expiring' = expiring \cup (IF expires THEN {t} ELSE {})
  /\ expirable_transactions_map_' =
       expirable_transactions_map_ \cup (IF expires THEN {t} ELSE {})
  /\ UNCHANGED <<keys, exec_status_, expired, database, tracking, op, to_unlock, after>>

\* SetSnapshot or ClearSnapshot.
SetSnapshot(t) ==
  /\ pc[t] = "run"
  /\ \E s \in {{}, {LastSequence}} : snapshot_' = [snapshot_ EXCEPT ![t] = s]
  /\ UNCHANGED <<locks, database, tracked_keys_, seq, batch, save_points_, since, control>>

SetSavePoint(t) ==
  /\ pc[t] = "run"
  /\ Len(save_points_[t]) < MaxSavePoints
  /\ save_points_' = [save_points_ EXCEPT ![t] = Append(@,
       [keys |-> tracked_keys_[t], batch |-> batch[t], snapshot |-> snapshot_[t]])]
  /\ UNCHANGED <<locks, database, tracked_keys_, seq, batch, snapshot_, since, control>>

-----------------------------------------------------------------------------
\* GetForUpdate (~write), Put, Merge, Delete and their untracked forms.
TryLock(t, o) ==
  /\ pc[t] = "run"
  /\ op' = [op EXCEPT ![t] = o]
  /\ Goto(t, IF o.key \in tracked_keys_[t] THEN "validate" ELSE "acquire")
  /\ UNCHANGED <<locks, database, tracking, to_unlock, after>>

\* (Faulty variant: what the holder is doing is not looked at.)
CanStealCommitting(h) == h \in expired

\* TryStealingExpiredTransactionLocks, for a lock that has expired.
CanSteal(h) ==
  /\ h \in expired
  /\ h \in expirable_transactions_map_ => exec_status_[h] = "STARTED"

TryStealingLocks(h) ==
  exec_status_' = IF h \in expirable_transactions_map_
                  THEN [exec_status_ EXCEPT ![h] = "LOCKS_STOLEN"] ELSE exec_status_

\* An attempt of AcquireWithTimeout that succeeds; the others change nothing.
AcquireLocked(t) ==
  LET k == op[t].key IN
  /\ pc[t] = "acquire"
  /\ \/ keys[k] \subseteq {t} /\ UNCHANGED exec_status_
     \/ \E h \in keys[k] \ {t} : CanSteal(h) /\ TryStealingLocks(h)
  /\ keys' = [keys EXCEPT ![k] = {t}]
  /\ Goto(t, "validate")
  /\ UNCHANGED <<expiring, expired, expirable_transactions_map_, database, tracking,
                 op, to_unlock, after>>

\* The caller may have asked for a snapshot with the next operation.
SetSnapshotIfNeeded(t) ==
  \/ UNCHANGED snapshot_
  \/ snapshot_' = [snapshot_ EXCEPT ![t] = {LastSequence}]

\* It times out, or there are too many locks.
AcquireFails(t) ==
  /\ pc[t] = "acquire"
  /\ Goto(t, "run")
  /\ SetSnapshotIfNeeded(t)
  /\ UNCHANGED <<locks, database, tracked_keys_, seq, batch, save_points_, since,
                 op, to_unlock, after>>

\* TrackKey, and the write for which the key was locked.
TrackKey(t, new_seqno, n) ==
  LET k == op[t].key IN
  /\ tracked_keys_' = [tracked_keys_ EXCEPT ![t] = @ \cup {k}]
  /\ seq' = [seq EXCEPT ![t][k] = new_seqno]
  /\ since' = [since EXCEPT ![t][k] = n]
  /\ batch' = IF op[t].write THEN [batch EXCEPT ![t] = @ \cup {k}] ELSE batch

\* The caller does not ask for a check, or has no snapshot.
NotChecked(t) ==
  LET k == op[t].key
      new(old) == IF k \in tracked_keys_[t] THEN old ELSE LastSequence
  IN
  /\ op[t].untracked \/ snapshot_'[t] = {}
  /\ TrackKey(t, new(seq[t][k]), new(since[t][k]))

\* (Faulty variant: a key that is locked is taken to be unmodified.)
KnownLocked(t, n) == op[t].key \in tracked_keys_[t]

KnownSince(t, n) ==
  op[t].key \in tracked_keys_[t] /\ seq[t][op[t].key] <= n

\* ValidateSnapshot succeeds: the key was locked before the snapshot was taken,
\* or CheckKeyForConflicts finds no later write.
Validated(t) ==
  LET k == op[t].key IN
  /\ ~op[t].untracked
  /\ \E n \in snapshot_'[t] :
       /\ KnownSince(t, n) \/ modified[k] <= n
       /\ TrackKey(t, IF KnownSince(t, n) THEN seq[t][k] ELSE n,
                   IF k \in tracked_keys_[t] /\ since[t][k] < n THEN since[t][k] ELSE n)

TryLockEnds(t) ==
  /\ pc[t] = "validate"
  /\ SetSnapshotIfNeeded(t)
  /\ NotChecked(t) \/ Validated(t)
  /\ Goto(t, "run")
  /\ UNCHANGED <<locks, database, save_points_, op, to_unlock, after>>

\* (Faulty variant: the key stays locked.)
ValidateFailsLocked(t) ==
  /\ pc[t] = "validate"
  /\ SetSnapshotIfNeeded(t)
  /\ ~op[t].untracked
  /\ \E n \in snapshot_'[t] : ~KnownSince(t, n)
  /\ Goto(t, "run")
  /\ UNCHANGED <<locks, database, tracked_keys_, seq, batch, save_points_, since,
                 op, to_unlock, after>>

\* ValidateSnapshot finds a later write, or the database cannot be read.
ValidateFails(t) ==
  LET k == op[t].key locked == k \notin tracked_keys_[t] IN
  /\ pc[t] = "validate"
  /\ SetSnapshotIfNeeded(t)
  /\ ~op[t].untracked
  /\ \E n \in snapshot_'[t] : ~KnownSince(t, n)
  /\ Goto(t, IF locked THEN "unlock" ELSE "run")
  /\ to_unlock' = IF locked THEN [to_unlock EXCEPT ![t] = {k}] ELSE to_unlock
  /\ after' = [after EXCEPT ![t] = "run"]
  /\ UNCHANGED <<locks, database, tracked_keys_, seq, batch, save_points_, since, op>>

-----------------------------------------------------------------------------
\* UnLock releases the keys, one stripe after the other.  What the thread
\* itself knows of them is changed before, as no other can tell.
StartUnLock(t, unlocked, next) ==
  /\ to_unlock' = [to_unlock EXCEPT ![t] = unlocked]
  /\ tracked_keys_' = [tracked_keys_ EXCEPT ![t] = @ \ unlocked]
  /\ after' = [after EXCEPT ![t] = next]
  /\ Goto(t, "unlock")

UnLock(t) ==
  /\ pc[t] = "unlock"
  /\ \E any \in to_unlock[t] :
       LET stripe == {k \in to_unlock[t] : GetStripe[k] = GetStripe[any]} IN
       /\ keys' = [k \in Key |-> IF k \in stripe THEN keys[k] \ {t} ELSE keys[k]]
       /\ to_unlock' = [to_unlock EXCEPT ![t] = @ \ stripe]
  /\ UNCHANGED <<exec_status_, expiring, expired, expirable_transactions_map_,
                 database, tracking, pc, op, after>>

\* The destructor also calls RemoveExpirableTransaction; Reinitialize does not.
UnLockEnds(t) ==
  /\ pc[t] = "unlock" /\ to_unlock[t] = {}
  /\ Goto(t, after[t])
  /\ expirable_transactions_map_' =
       expirable_transactions_map_ \ (IF after[t] = "deleted" THEN {t} ELSE {})
  /\ UNCHANGED <<keys, exec_status_, expiring, expired, database, tracking, op, to_unlock, after>>

Clear(t, next) ==
  /\ StartUnLock(t, tracked_keys_[t], next)
  /\ batch' = [batch EXCEPT ![t] = {}]
  /\ save_points_' = [save_points_ EXCEPT ![t] = <<>>]
  /\ UNCHANGED <<seq, snapshot_, since, op>>

\* DoCommit: an expired transaction is not committed.
Commit(t) ==
  /\ pc[t] = "run"
  /\ IF t \in expired THEN Clear(t, "ended")
     ELSE Goto(t, IF t \in expiring THEN "exchange" ELSE "write")
          /\ UNCHANGED <<tracking, op, to_unlock, after>>
  /\ UNCHANGED <<locks, database>>

\* It may expire now, and others may try to steal its locks.
CompareExchange(t) ==
  /\ pc[t] = "exchange"
  /\ IF exec_status_[t] = "STARTED"
     THEN /\ exec_status_' = [exec_status_ EXCEPT ![t] = "COMMITTING"]
          /\ Goto(t, "write")
          /\ UNCHANGED <<tracking, op, to_unlock, after>>
     ELSE Clear(t, "ended") /\ UNCHANGED exec_status_
  /\ UNCHANGED <<keys, expiring, expired, expirable_transactions_map_, database>>

\* db_->Write, which may fail, and Clear.
Write(t) ==
  /\ pc[t] = "write"
  /\ \/ /\ LastSequence < MaxSequence
        /\ LastSequence' = LastSequence + 1
        /\ modified' = [k \in Key |-> IF k \in batch[t] THEN LastSequence + 1
                                      ELSE modified[k]]
     \/ UNCHANGED database
  /\ Clear(t, "ended")
  /\ UNCHANGED locks

Rollback(t) ==
  pc[t] = "run" /\ Clear(t, "run") /\ UNCHANGED <<locks, database>>

\* Keys locked since the save point are released.
RollbackToSavePoint(t) ==
  LET n == Len(save_points_[t]) top == save_points_[t][n] IN
  /\ pc[t] = "run" /\ n > 0
  /\ StartUnLock(t, tracked_keys_[t] \ top.keys, "run")
  /\ batch' = [batch EXCEPT ![t] = top.batch]
  /\ snapshot_' = [snapshot_ EXCEPT ![t] = top.snapshot]
  /\ save_points_' = [save_points_ EXCEPT ![t] = SubSeq(@, 1, n - 1)]
  /\ UNCHANGED <<locks, database, seq, since, op>>

\* The last GetForUpdate of a key that is not written and was not locked at
\* the save point is undone.
UndoGetForUpdate(t, k) ==
  LET n == Len(save_points_[t]) IN
  /\ pc[t] = "run"
  /\ k \in tracked_keys_[t] \ batch[t]
  /\ n > 0 => k \notin save_points_[t][n].keys
  /\ StartUnLock(t, {k}, "run")
  /\ UNCHANGED <<locks, database, seq, batch, snapshot_, save_points_, since, op>>

\* The destructor, or Reinitialize, which gives the object another id.
End(t, how) ==
  /\ pc[t] \in {"run", "ended"}
  /\ Clear(t, how)
  /\ UNCHANGED <<locks, database>>

Expire(t) ==
  /\ t \in expiring \ expired
  /\ expired' = expired \cup {t}
  /\ UNCHANGED <<keys, exec_status_, expiring, expirable_transactions_map_,
                 database, tracking, control>>

Step(t) ==
  \/ \E expires \in BOOLEAN : Initialize(t, expires)
  \/ SetSnapshot(t) \/ SetSavePoint(t)
  \/ \E o \in [key : Key, write : BOOLEAN, untracked : BOOLEAN] : TryLock(t, o)
  \/ AcquireLocked(t) \/ AcquireFails(t) \/ TryLockEnds(t) \/ ValidateFails(t)
  \/ UnLock(t) \/ UnLockEnds(t)
  \/ Commit(t) \/ CompareExchange(t) \/ Write(t)
  \/ Rollback(t) \/ RollbackToSavePoint(t) \/ \E k \in Key : UndoGetForUpdate(t, k)
  \/ \E how \in {"deleted", "reused"} : End(t, how)
  \/ Expire(t)

Next == \E t \in Txn : Step(t)

Spec == Init /\ [][Next]_vars
-----------------------------------------------------------------------------
\* A transaction that is about to write its batch has the lock of every key
\* in it, and of every key it read for update: no other has stolen one.
LocksHeldAtCommit ==
  \A t \in Txn : pc[t] = "write" =>
    batch[t] \subseteq tracked_keys_[t] /\ \A k \in tracked_keys_[t] : keys[k] = {t}

\* And no other has written any of them since the snapshot it had when it
\* locked the key, or since it locked it.
NoWriteSinceSnapshot ==
  \A t \in Txn : pc[t] = "write" =>
    \A k \in tracked_keys_[t] : modified[k] <= since[t][k]

\* No lock is left of a transaction that is deleted or has another id now, so
\* that an entry of expirable_transactions_map_ that Reinitialize left there is
\* not looked at again.
NothingLeftLocked ==
  \A t \in Txn : pc[t] \in {"deleted", "reused"} => \A k \in Key : t \notin keys[k]

\* "This key is either not locked or locked by someone else.  This should only
\* happen if the unlocking transaction has expired."
UnlocksOwnOrExpired ==
  \A t \in Txn : pc[t] = "unlock" =>
    \A k \in to_unlock[t] : keys[k] = {t} \/ t \in expired
=============================================================================
