----------------------------- MODULE LogReaders -----------------------------
(***************************************************************************)
(* The two readers of a write-ahead log: recovery after a crash            *)
(* (LogRecovery), and an iterator that follows the log while it is written *)
(* (LogTail).  They share the writer and log::Reader, and are not at work  *)
(* on a log at the same time.                                              *)
(***************************************************************************)
EXTENDS LogRecovery, LogTail

VARIABLE role   \* who reads the log

vars == <<writer, reader, recovery, tail, iterator, role>>

Init ==
  /\ role \in {"recovery", "iterator"}
  /\ WriterInit /\ ReaderInit /\ RecoveryInit /\ TailInit
  /\ role = "iterator" => ~recycle_log_files
  /\ role = "recovery" => ~overlap

ByRecovery(A) == role = "recovery" /\ A /\ UNCHANGED <<tail, iterator, role>>
ByIterator(A) == role = "iterator" /\ A /\ UNCHANGED <<recovery, role>>

Next == ByRecovery(RecoveryNext) \/ ByIterator(TailNext)

\* Recovery is one thread that runs until it is done.  A write is flushed and
\* published, and the iterator's caller calls Next over and over.
Spec ==
  /\ Init /\ [][Next]_vars
  /\ WF_vars(ByRecovery(Recover))
  /\ WF_vars(ByIterator(adding /\ WriteTail))
  /\ WF_vars(ByIterator(Show))
  /\ WF_vars(ByIterator(Publish))
  /\ WF_vars(ByIterator(Iterate))
=============================================================================
