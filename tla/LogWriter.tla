------------------------------ MODULE LogWriter ------------------------------
(***************************************************************************)
(* log::Writer (db/log_writer.cc): records are cut into fragments that     *)
(* never cross a block, each with a header in front.                       *)
(*                                                                         *)
(* A file is a sequence of cells, one for each byte: <<p, i>> is byte i of *)
(* the p'th physical record emitted, header included, and Zero is a byte   *)
(* of a trailer.  A physical record tells the record it is a part of and   *)
(* the bytes of it that it holds.                                          *)
(***************************************************************************)
EXTENDS Naturals, Sequences

CONSTANTS kBlockSize, kHeaderSize, kRecyclableHeaderSize,
          RecordSizes    \* sizes of the records that are added

ASSUME LogAssumption ==
  /\ {kBlockSize, kHeaderSize, kRecyclableHeaderSize} \subseteq Nat
  /\ 0 < kHeaderSize /\ kHeaderSize < kRecyclableHeaderSize
  /\ kRecyclableHeaderSize < kBlockSize
  /\ RecordSizes \subseteq Nat

VARIABLES
  recycle_log_files, \* files of older logs are written over
  file,          \* cells appended to the log
  emitted,       \* physical records
  block_offset_, \* offset in the current block
  log_number,    \* number of the log
  sizes,         \* sizes of the records added, the one being added included
  left,          \* bytes of it not emitted yet
  adding,        \* AddRecord runs
  begin          \* and has emitted nothing

writer == <<recycle_log_files, file, emitted, block_offset_, log_number, sizes, left, adding, begin>>

Zero == <<0, 0>>
HeaderSize == IF recycle_log_files THEN kRecyclableHeaderSize ELSE kHeaderSize
Complete == IF adding THEN Len(sizes) - 1 ELSE Len(sizes)

WriterInit ==
  /\ recycle_log_files \in BOOLEAN
  /\ file = <<>>
  /\ emitted = <<>>
  /\ block_offset_ = 0
  /\ log_number = 1
  /\ sizes = <<>>
  /\ left = 0
  /\ adding = FALSE
  /\ begin = TRUE

AddRecord(size) ==
  /\ ~adding
  /\ adding' = TRUE
  /\ sizes' = Append(sizes, size)
  /\ left' = size
  /\ begin' = TRUE
  /\ UNCHANGED <<recycle_log_files, file, emitted, block_offset_, log_number>>

\* Bytes of trailer in front of the next fragment.
Trailer ==
  LET leftover == kBlockSize - block_offset_ IN
  IF leftover < HeaderSize THEN leftover ELSE 0

\* (Faulty variant: a record in one fragment is marked as a first fragment.)
TypeNeverFull(first, last) ==
  CASE first -> "first"
    [] ~first /\ last -> "last"
    [] ~first /\ ~last -> "middle"

FragmentType(first, last) ==
  CASE first /\ last -> "full"
    [] first /\ ~last -> "first"
    [] ~first /\ last -> "last"
    [] ~first /\ ~last -> "middle"

\* (Faulty variant: room for the longer header is not left.)
AvailShortHeader(offset) == kBlockSize - offset - kHeaderSize

\* Room for a fragment behind its header.
Avail(offset) == kBlockSize - offset - HeaderSize

Cells(p, n) == [i \in 1..n |-> <<p, i - 1>>]

\* One turn of the loop in AddRecord, with EmitPhysicalRecord.
EmitFragment ==
  LET offset == IF Trailer > 0 \/ block_offset_ = kBlockSize THEN 0 ELSE block_offset_
      length == IF left < Avail(offset) THEN left ELSE Avail(offset)
      p == [type |-> FragmentType(begin, left = length), log |-> log_number,
            recyclable |-> recycle_log_files, length |-> length,
            record |-> Len(sizes), from |-> sizes[Len(sizes)] - left]
  IN
  /\ adding
  /\ file' = file \o [i \in 1..Trailer |-> Zero] \o Cells(Len(emitted) + 1, HeaderSize + length)
  /\ emitted' = Append(emitted, p)
  /\ block_offset_' = offset + HeaderSize + length
  /\ left' = left - length
  /\ begin' = FALSE
  /\ adding' = (left > length)
  /\ UNCHANGED <<recycle_log_files, log_number, sizes>>

\* A new Writer for the next log, which is written over this one's file.
NewWriter ==
  /\ ~adding
  /\ recycle_log_files
  /\ file' = <<>>
  /\ block_offset_' = 0
  /\ log_number' = log_number + 1
  /\ sizes' = <<>>
  /\ UNCHANGED <<recycle_log_files, emitted, left, adding, begin>>

-----------------------------------------------------------------------------
\* The n bytes of physical record p are in one block of the cells.
InBlock(cells, p, n) ==
  \E b \in 0..Len(cells), o \in 0..kBlockSize - n :
    /\ b * kBlockSize + o + n <= Len(cells)
    /\ \A i \in 1..n : cells[b * kBlockSize + o + i] = <<p, i - 1>>

\* AddRecord's "Invariant: we never leave < header_size bytes in a block", and
\* what it is for: every physical record of this log is in one block of the
\* file, all of its header and its bytes, and no later one overwrites it.
InOneBlock ==
  \A p \in 1..Len(emitted) : emitted[p].log = log_number =>
    InBlock(file, p, HeaderSize + emitted[p].length)

Starts(p) == p.type \in {"full", "first"}
Ends(p) == p.type \in {"full", "last"}

\* The i'th physical record goes on where the one before ends.
Follows(i) ==
  LET p == emitted[i] q == emitted[i - 1] IN
  /\ p.record \in 1..Len(sizes)
  /\ Ends(p) <=> p.from + p.length = sizes[p.record]
  /\ Starts(p) => p.from = 0
  /\ IF i = 1 \/ q.log # log_number THEN Starts(p) /\ p.record = 1
     ELSE IF Starts(p) THEN Ends(q) /\ p.record = q.record + 1
     ELSE ~Ends(q) /\ p.record = q.record /\ p.from = q.from + q.length

\* The physical records of a log, one after the other, are the records that
\* were added to it: each starts with a full or first fragment at its byte 0,
\* goes on where the fragment before ended and ends with a full or last one at
\* its last byte, also when fragments are empty; and when AddRecord has
\* returned, nothing of it is missing.
FragmentsFollow ==
  \A i \in 1..Len(emitted) : emitted[i].log = log_number =>
    /\ Follows(i)
    /\ i = Len(emitted) /\ ~adding =>
         Ends(emitted[i]) /\ emitted[i].record = Len(sizes)
=============================================================================
