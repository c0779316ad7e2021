----------------------------- MODULE LogRecovery -----------------------------
(***************************************************************************)
(* A log is written, the machine crashes, and DBImpl::RecoverLogFiles      *)
(* (db/db_impl.cc) replays it in one of the recovery modes.  The crash     *)
(* keeps what was synced and any part of what came after.  In a recycled   *)
(* file the older log's bytes follow.                                      *)
(***************************************************************************)
EXTENDS LogReader

CONSTANT MaxRecords   \* bounds the records of a log

Modes == {"kTolerateCorruptedTailRecords", "kAbsoluteConsistency",
          "kPointInTimeRecovery", "kSkipAnyCorruptedRecords"}

VARIABLES
  old,         \* cells of the file before the log was started in it
  synced,      \* cells that a crash keeps
  durable,     \* records that had been added when the log was synced
  mode,        \* wal_recovery_mode
  phase,       \* "write", "replay" or "done"
  status,      \* ok, or corruption reported while replaying
  replayed,    \* number of records replayed
  cut,         \* cells that survived
  intact       \* every record replayed is whole and is the next one

recovery == <<old, synced, durable, mode, phase, status, replayed, cut, intact>>

RecoveryInit ==
  /\ old = <<>>
  /\ synced = 0 /\ durable = 0
  /\ mode = "kTolerateCorruptedTailRecords"
  /\ phase = "write"
  /\ status = "ok"
  /\ replayed = 0
  /\ cut = 0
  /\ intact = TRUE

WriteLog ==
  /\ phase = "write"
  /\ \/ Len(sizes) < MaxRecords /\ \E size \in RecordSizes : AddRecord(size)
     \/ EmitFragment
  /\ UNCHANGED <<reader, recovery>>

Sync ==
  /\ phase = "write" /\ ~adding
  /\ synced < Len(file)
  /\ synced' = Len(file)
  /\ durable' = Len(sizes)
  /\ UNCHANGED <<writer, reader, old, mode, phase, status, replayed, cut, intact>>

\* The file is reused for the next log, which is written over it.
Recycle ==
  /\ phase = "write"
  /\ old = <<>> /\ file # <<>>
  /\ old' = file
  /\ NewWriter
  /\ synced' = 0 /\ durable' = 0
  /\ UNCHANGED <<reader, mode, phase, status, replayed, cut, intact>>

\* The machine crashes, the log is opened and its first record is asked for.
\* Options are given when the log is opened.
Crash ==
  /\ phase = "write"
  /\ \E n \in synced..Len(file) :
       /\ cut' = n
       /\ content' = SubSeq(file, 1, n) \o SubSeq(old, n + 1, Len(old))
  /\ mode' \in Modes
  /\ phase' = "replay"
  /\ result' = "none"
  /\ UNCHANGED <<writer, fill, buffer_, in_fragmented_record, scratch, record, corruption,
                 old, synced, durable, status, replayed, intact>>

\* What the reporter makes of the status, unless the mode ignores corruption.
Reported ==
  IF corruption' /\ mode # "kSkipAnyCorruptedRecords" THEN "corrupt" ELSE status

Replay ==
  /\ phase = "replay"
  /\ ReadRecord(mode)
  /\ status' = Reported
  /\ UNCHANGED <<writer, old, synced, durable, mode, phase, replayed, cut, intact>>

\* A record is inserted and the next one asked for.
ReplayRecord ==
  /\ phase = "replay"
  /\ result = "record" /\ status = "ok"
  /\ replayed' = replayed + 1
  /\ intact' = (intact /\ replayed < Len(sizes) /\ IsWhole(record, replayed + 1))
  /\ StartRead
  /\ UNCHANGED <<writer, old, synced, durable, mode, phase, status, cut>>

\* The loop ends; an error is returned or, in two modes, ignored.
ReplayEnd ==
  /\ phase = "replay"
  /\ result = "false" \/ (result = "record" /\ status # "ok")
  /\ phase' = "done"
  /\ status' = IF mode = "kPointInTimeRecovery" THEN "ok" ELSE status
  /\ UNCHANGED <<writer, reader, old, synced, durable, mode, replayed, cut, intact>>

Recover == Replay \/ ReplayRecord \/ ReplayEnd

RecoveryNext == WriteLog \/ Sync \/ Recycle \/ Crash \/ Recover

-----------------------------------------------------------------------------
\* What is replayed is a prefix of what was added to this log: whole records,
\* in order, none of an older log in the same file, in every mode.
ReplaysPrefix == intact

\* When recovery succeeds, every record that was synced has been replayed.
SyncedReplayed == phase = "done" /\ status = "ok" => replayed >= durable

\* "We can ignore only incomplete records in the last log file, which are
\* presumably due to a write in progress during restart (or from log
\* recycling)": a crash alone never makes recovery fail, but in the mode that
\* expects a clean shutdown.  Not so in a recycled file, where the older bytes
\* behind the tail may fail their checksum and are reported.
TornTailTolerated ==
  phase = "done" /\ mode # "kAbsoluteConsistency" /\ ~recycle_log_files => status = "ok"

=============================================================================
