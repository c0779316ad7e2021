------------------------------- MODULE LogTail -------------------------------
(***************************************************************************)
(* TransactionLogIteratorImpl (db/transaction_log_impl.cc) follows a log   *)
(* that is still being written, the only log file there is.  The reader    *)
(* may see any part of what the writer has appended; it asks for a record  *)
(* only when the sequence number of a later write has been published.  A   *)
(* record is a batch with one sequence number.                             *)
(***************************************************************************)
EXTENDS LogReader

CONSTANT MaxTailRecords   \* bounds the records of the log

VARIABLES
  overlap,           \* writes are made while Next runs
  LastSequence,      \* last sequence number published
  currentLastSeq_, startingSequenceNumber_, started_, currentStatus_,
  strict,            \* of the seek under way
  at,                \* where Next is
  delivered,         \* last record the caller was given
  in_order           \* each was whole and the next

iterator == <<currentLastSeq_, startingSequenceNumber_, started_, currentStatus_,
              strict, at, delivered, in_order>>
tail == <<overlap, LastSequence>>

Mode == "kTolerateCorruptedTailRecords"

TailInit ==
  /\ overlap \in BOOLEAN
  /\ LastSequence = 0
  /\ currentLastSeq_ = 0 /\ startingSequenceNumber_ = 1
  /\ started_ = FALSE /\ currentStatus_ = "ok"
  /\ strict = FALSE
  /\ at = "idle"
  /\ delivered = 0
  /\ in_order = TRUE

\* Writes are made one after the other; WriteImpl is the subject of others.
MayWrite == overlap \/ at = "idle"

WriteTail ==
  /\ MayWrite
  /\ \/ /\ LastSequence = Len(sizes) /\ Len(sizes) < MaxTailRecords
        /\ \E size \in RecordSizes : AddRecord(size)
     \/ EmitFragment
  /\ UNCHANGED <<reader, tail, iterator>>

\* Some of what was appended reaches the file: all of it once it is flushed.
Show ==
  /\ MayWrite
  /\ \E n \in Len(content)+1..Len(file) : content' = SubSeq(file, 1, n)
  /\ UNCHANGED <<writer, fill, buffer_, call, corruption, tail, iterator>>

\* The write returns and its sequence number is published.
Publish ==
  /\ MayWrite
  /\ LastSequence < Complete
  /\ Len(content) = Len(file)
  /\ LastSequence' = LastSequence + 1
  /\ UNCHANGED <<writer, reader, overlap, iterator>>

-----------------------------------------------------------------------------
OpenLogReader ==
  /\ end_offset' = 0
  /\ buffer_' = <<>>
  /\ eof_' = FALSE
  /\ eof_offset_' = 0

Deliver(r, pieces) ==
  /\ delivered' = r
  /\ in_order' = (in_order /\ r = delivered + 1 /\ IsWhole(pieces, r))

\* Next seeks the start, or looks at the end of the file again.
CallNext ==
  /\ at = "idle"
  /\ IF started_
     THEN /\ IF eof_ THEN UnmarkEOF ELSE UNCHANGED reader
          /\ at' = "restricted"
          /\ UNCHANGED strict
     ELSE /\ OpenLogReader
          /\ UNCHANGED <<content, call, corruption>>
          /\ at' = "seek"
          /\ strict' = FALSE
  /\ UNCHANGED <<writer, tail, currentLastSeq_, startingSequenceNumber_,
                 started_, currentStatus_, delivered, in_order>>

\* Don't read if no more complete entries to read from logs.
MoreEntries == currentLastSeq_ < LastSequence

RestrictedRead ==
  /\ at = "restricted"
  /\ IF MoreEntries THEN StartRead /\ at' = "read"
                    ELSE at' = "end" /\ UNCHANGED reader
  /\ UNCHANGED <<writer, tail, currentLastSeq_, startingSequenceNumber_,
                 started_, currentStatus_, strict, delivered, in_order>>

\* (Faulty variant: a batch that is not the expected one is returned.)
UpdateUnchecked(r) ==
  /\ currentLastSeq_' = r
  /\ currentStatus_' = "ok"
  /\ at' = "idle"
  /\ Deliver(r, record')
  /\ UNCHANGED <<startingSequenceNumber_, started_, strict>>

\* UpdateCurrentWriteBatch: the batch after the last one is returned; any
\* other makes the iterator seek the one it expects, from the start.
UpdateCurrentWriteBatch(r) ==
  IF r = currentLastSeq_ + 1
  THEN /\ currentLastSeq_' = r
       /\ currentStatus_' = "ok"
       /\ at' = "idle"
       /\ Deliver(r, record')
       /\ UNCHANGED <<startingSequenceNumber_, started_, strict>>
  ELSE /\ startingSequenceNumber_' = currentLastSeq_ + 1
       /\ currentStatus_' = "gap"
       /\ started_' = FALSE
       /\ strict' = TRUE
       /\ at' = "reopen"
       /\ UNCHANGED <<currentLastSeq_, delivered, in_order>>

ReadNext ==
  /\ at = "read"
  /\ ReadRecord(Mode)
  /\ CASE result' = "none" -> UNCHANGED iterator
       [] result' = "record" -> UpdateCurrentWriteBatch(record'[1][1])
       [] result' = "false" ->
            /\ at' = "end"
            /\ UNCHANGED <<currentLastSeq_, startingSequenceNumber_, started_,
                           currentStatus_, strict, delivered, in_order>>
  /\ UNCHANGED <<writer, tail>>

\* There is no next file: Next returns with an error if more was published.
NoMoreFiles ==
  /\ at = "end"
  /\ currentStatus_' = IF currentLastSeq_ = LastSequence THEN "ok" ELSE "NO MORE DATA LEFT"
  /\ at' = "idle"
  /\ UNCHANGED <<writer, reader, tail, currentLastSeq_,
                 startingSequenceNumber_, started_, strict, delivered, in_order>>

\* SeekToStartSequence opens the file and reads up to the starting number.
Reopen ==
  /\ at = "reopen"
  /\ OpenLogReader
  /\ at' = "seek"
  /\ UNCHANGED <<writer, content, call, corruption, tail, currentLastSeq_,
                 startingSequenceNumber_, started_, currentStatus_, strict, delivered, in_order>>

SeekEnds(error) ==
  /\ at' = "idle"
  /\ currentStatus_' = IF error THEN "gap" ELSE currentStatus_
  /\ UNCHANGED <<currentLastSeq_, startingSequenceNumber_, started_, strict,
                 delivered, in_order>>

Seek ==
  /\ at = "seek"
  /\ IF MoreEntries
     THEN /\ StartRead /\ at' = "seekread"
          /\ UNCHANGED <<currentLastSeq_, startingSequenceNumber_, started_,
                         currentStatus_, strict, delivered, in_order>>
     ELSE SeekEnds(strict) /\ UNCHANGED reader
  /\ UNCHANGED <<writer, tail>>

Sought(r) ==
  LET start == startingSequenceNumber_ IN
  /\ currentLastSeq_' = r
  /\ currentStatus_' = IF strict /\ r > start THEN "gap" ELSE "ok"
  /\ at' = IF r < start THEN "seek" ELSE "idle"
  /\ IF r < start \/ (strict /\ r > start)
     THEN UNCHANGED <<started_, delivered, in_order>>
     ELSE started_' = TRUE /\ Deliver(r, record')
  /\ UNCHANGED <<startingSequenceNumber_, strict>>

SeekRead ==
  /\ at = "seekread"
  /\ ReadRecord(Mode)
  /\ CASE result' = "none" -> UNCHANGED iterator
       [] result' = "record" -> Sought(record'[1][1])
       [] result' = "false" -> SeekEnds(strict)
  /\ UNCHANGED <<writer, tail>>

Iterate ==
  CallNext \/ RestrictedRead \/ ReadNext \/ NoMoreFiles \/ Reopen \/ Seek \/ SeekRead

TailNext == WriteTail \/ Show \/ Publish \/ Iterate

-----------------------------------------------------------------------------
\* The iterator returns the records of the log whole and in order, none twice
\* and none left out, whatever part of the record being written it sees.
TailInOrder == in_order

\* The iterator catches up with what is published, again and again.
TailCatchesUp == []<>(delivered = LastSequence \/ overlap)
==================================================
