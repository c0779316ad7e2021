------------------------------ MODULE LogReader ------------------------------
(***************************************************************************)
(* log::Reader (db/log_reader.cc) over the cells of LogWriter.  A checksum *)
(* never matches by chance.  Bytes that do not start a header decode to    *)
(* anything else, so what the reader makes of them is a choice.            *)
(***************************************************************************)
EXTENDS LogWriter

VARIABLES
  content,     \* what the file shows
  end_offset,  \* end_of_buffer_offset_
  buffer_,     \* cells read and not consumed
  eof_,        \* the last read was short
  eof_offset_, \* and how much of its block it read
  in_fragmented_record, scratch,
  result,      \* what ReadRecord returned: "none", "record" or "false"
  record,      \* the record returned, as <<record, from, length>> pieces
  corruption   \* a corruption has been reported in this call

reader == <<content, end_offset, buffer_, eof_, eof_offset_,
            in_fragmented_record, scratch, result, record, corruption>>
fill == <<end_offset, eof_, eof_offset_>>
call == <<in_fragmented_record, scratch, result, record>>

ReaderInit ==
  /\ content = <<>>
  /\ end_offset = 0
  /\ buffer_ = <<>>
  /\ eof_ = FALSE
  /\ eof_offset_ = 0
  /\ in_fragmented_record = FALSE
  /\ scratch = <<>>
  /\ result = "false"
  /\ record = <<>>
  /\ corruption = FALSE

Reading == result = "none"

\* ReadRecord is called.
StartRead ==
  /\ ~Reading
  /\ result' = "none"
  /\ in_fragmented_record' = FALSE
  /\ scratch' = <<>>
  /\ record' = <<>>
  /\ corruption' = FALSE
  /\ UNCHANGED <<content, buffer_, fill>>

Min2(x, y) == IF x < y THEN x ELSE y
Rest(from, n) == SubSeq(content, from + 1, from + n)

-----------------------------------------------------------------------------
\* What is at the front of the buffer.
Front == emitted[buffer_[1][1]]
IsRecord == buffer_ # <<>> /\ buffer_[1] # Zero /\ buffer_[1][2] = 0
FrontSize == IF Front.recyclable THEN kRecyclableHeaderSize ELSE kHeaderSize
Whole(n) == \A i \in 1..Min2(n, Len(buffer_)) : buffer_[i] = <<buffer_[1][1], i - 1>>
HeaderWhole == IsRecord /\ Len(buffer_) >= FrontSize /\ Whole(FrontSize)
ZeroHeader == \A i \in 1..Min2(kHeaderSize, Len(buffer_)) : buffer_[i] = Zero

\* More must be read for a header: always below kHeaderSize, and below the
\* larger size if the type says so.  A header cut short may hold any type.
MayNeedMore ==
  \/ Len(buffer_) < kHeaderSize
  \/ /\ Len(buffer_) < kRecyclableHeaderSize /\ ~ZeroHeader
     /\ IsRecord /\ Whole(kHeaderSize) => Front.recyclable
MustNeedMore ==
  \/ Len(buffer_) < kHeaderSize
  \/ /\ Len(buffer_) < kRecyclableHeaderSize /\ IsRecord
     /\ Whole(kHeaderSize) /\ Front.recyclable

\* ReadMore, when the last read was a full one.
FillBuffer ==
  LET n == Min2(kBlockSize, Len(content) - end_offset) IN
  /\ Reading /\ MayNeedMore /\ ~eof_
  /\ buffer_' = Rest(end_offset, n)
  /\ end_offset' = end_offset + n
  /\ eof_' = (n < kBlockSize)
  /\ eof_offset_' = IF n < kBlockSize THEN n ELSE eof_offset_
  /\ UNCHANGED <<content, call, corruption>>

\* The kinds of physical record that ReadPhysicalRecord may return next.
Physical ==
  CASE ZeroHeader -> {"zero"}
    [] ~ZeroHeader /\ HeaderWhole ->
         IF Front.recyclable /\ Front.log # log_number THEN {"old"}
         ELSE IF FrontSize + Front.length > Len(buffer_) THEN {"length"}
         ELSE IF Whole(FrontSize + Front.length) THEN {Front.type}
         ELSE {"checksum"}
    [] ~ZeroHeader /\ ~HeaderWhole -> {"zero", "old", "length", "checksum"}

-----------------------------------------------------------------------------
\* How ReadRecord goes on: it returns, or looks at the next physical record.
Piece == <<Front.record, Front.from, Front.length>>
AfterFront == SubSeq(buffer_, FrontSize + Front.length + 1, Len(buffer_))
ScratchEmpty == \A i \in 1..Len(scratch) : scratch[i][3] = 0

ReturnRecord(pieces) ==
  /\ result' = "record"
  /\ record' = pieces
  /\ UNCHANGED <<in_fragmented_record, scratch>>

ReturnFalse(mode, bad_header) ==
  /\ result' = "false"
  /\ corruption' = \/ corruption
                    \/ /\ mode = "kAbsoluteConsistency"
                       /\ bad_header \/ in_fragmented_record
  /\ scratch' = <<>>
  /\ UNCHANGED <<in_fragmented_record, record>>

BadRecord(reported) ==
  /\ corruption' = (corruption \/ reported \/ in_fragmented_record)
  /\ in_fragmented_record' = FALSE
  /\ scratch' = <<>>
  /\ UNCHANGED <<result, record>>

\* ReadMore at the end of the file: kBadHeader or kEof.
EndOfFile(mode) ==
  /\ Reading /\ MayNeedMore /\ eof_
  /\ buffer_' = <<>>
  /\ ReturnFalse(mode, buffer_ # <<>>)
  /\ UNCHANGED <<content, fill>>

\* A physical record with a matching checksum.
ReadFull ==
  /\ Physical = {"full"}
  /\ corruption' = (corruption \/ (in_fragmented_record /\ ~ScratchEmpty))
  /\ ReturnRecord(<<Piece>>)
  /\ buffer_' = AfterFront

ReadFirst ==
  /\ Physical = {"first"}
  /\ corruption' = (corruption \/ (in_fragmented_record /\ ~ScratchEmpty))
  /\ scratch' = <<Piece>>
  /\ in_fragmented_record' = TRUE
  /\ buffer_' = AfterFront
  /\ UNCHANGED <<result, record>>

ReadMiddle ==
  /\ Physical = {"middle"}
  /\ corruption' = (corruption \/ ~in_fragmented_record)
  /\ scratch' = IF in_fragmented_record THEN Append(scratch, Piece) ELSE scratch
  /\ buffer_' = AfterFront
  /\ UNCHANGED <<in_fragmented_record, result, record>>

ReadLast ==
  /\ Physical = {"last"}
  /\ IF in_fragmented_record
     THEN ReturnRecord(Append(scratch, Piece)) /\ UNCHANGED corruption
     ELSE corruption' = TRUE /\ UNCHANGED call
  /\ buffer_' = AfterFront

\* (Faulty variant: the log number in a header is not looked at.)
ReadOldAccepted(mode) ==
  /\ "old" \in Physical
  /\ IF HeaderWhole /\ FrontSize + Front.length <= Len(buffer_)
        /\ Whole(FrontSize + Front.length)
     THEN ReturnRecord(<<Piece>>) /\ buffer_' = AfterFront /\ UNCHANGED corruption
     ELSE ReturnFalse(mode, FALSE) /\ UNCHANGED buffer_

\* A record of an older log in the same file: left where it is.
ReadOld(mode) ==
  /\ "old" \in Physical
  /\ IF mode = "kSkipAnyCorruptedRecords" THEN BadRecord(FALSE) ELSE ReturnFalse(mode, FALSE)
  /\ UNCHANGED buffer_

\* (Faulty variant: reported also when the file ends there.)
ReadBadLengthReported(mode) ==
  /\ "length" \in Physical
  /\ BadRecord(TRUE)
  /\ buffer_' = <<>>

\* A length beyond the buffer: the writer died, if this is the last block.
ReadBadLength(mode) ==
  /\ "length" \in Physical
  /\ IF eof_ THEN ReturnFalse(mode, TRUE) ELSE BadRecord(TRUE)
  /\ buffer_' = <<>>

\* (Faulty variant: a record that does not check ends the log.)
ReadBadEnds(kind, reported) ==
  /\ kind \in Physical
  /\ ReturnFalse("kTolerateCorruptedTailRecords", FALSE)
  /\ buffer_' = <<>>

\* The rest of the block is dropped with a record that does not check.
ReadBad(kind, reported) ==
  /\ kind \in Physical
  /\ BadRecord(reported)
  /\ buffer_' = <<>>

ReadPhysicalRecord(mode) ==
  /\ Reading /\ ~MustNeedMore
  /\ \/ ReadFull \/ ReadFirst \/ ReadMiddle \/ ReadLast
     \/ ReadOld(mode) \/ ReadBadLength(mode)
     \/ ReadBad("zero", FALSE) \/ ReadBad("checksum", TRUE)
  /\ UNCHANGED <<content, fill>>

ReadRecord(mode) == FillBuffer \/ EndOfFile(mode) \/ ReadPhysicalRecord(mode)

\* (Faulty variant: nothing is read before the next block.)
UnmarkEOFOnly ==
  /\ ~Reading /\ eof_
  /\ eof_' = FALSE
  /\ eof_offset_' = 0
  /\ UNCHANGED <<content, end_offset, buffer_, call, corruption>>

\* UnmarkEOF: the rest of the last block, as far as it has been written since.
UnmarkEOF ==
  LET remaining == kBlockSize - eof_offset_
      added == Min2(remaining, Len(content) - end_offset)
  IN
  /\ ~Reading /\ eof_
  /\ IF eof_offset_ = 0
     THEN eof_' = FALSE /\ UNCHANGED <<buffer_, end_offset, eof_offset_>>
     ELSE /\ buffer_' = buffer_ \o Rest(end_offset, added)
          /\ end_offset' = end_offset + added
          /\ eof_' = (added < remaining)
          /\ eof_offset_' = IF added < remaining THEN eof_offset_ + added ELSE 0
  /\ UNCHANGED <<content, call, corruption>>

-----------------------------------------------------------------------------
\* The pieces make up record r: from its first byte to its last, in order.
IsWhole(pieces, r) ==
  /\ pieces # <<>>
  /\ \A i \in 1..Len(pieces) :
       /\ pieces[i][1] = r
       /\ pieces[i][2] = IF i = 1 THEN 0 ELSE pieces[i-1][2] + pieces[i-1][3]
  /\ pieces[Len(pieces)][2] + pieces[Len(pieces)][3] = sizes[r]
=============================================================================
