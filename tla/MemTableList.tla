---------------------------- MODULE MemTableList ----------------------------
(***************************************************************************)
(* The immutable memtables of a column family (db/memtable_list.cc): the   *)
(* list, oldest first, and the counters that decide when it is flushed.  A *)
(* memtable's flush_in_progress_ names the job that has picked it, so the  *)
(* `mems' a job holds are the ones that name it.                           *)
(***************************************************************************)
EXTENDS Naturals, Sequences, SequencesExt

CONSTANTS
    NoJob,
    min_write_buffer_number_to_merge_   \* per column family

NoEdit == [log |-> 0, files |-> {}]

MemTable(writes, next_log) ==
    [writes |-> writes, next_log |-> next_log, flush_in_progress_ |-> NoJob,
     flush_completed_ |-> FALSE, file_number_ |-> 0, edit_ |-> NoEdit]

EmptyList ==
    [memlist_ |-> <<>>, num_flush_not_started_ |-> 0,
     flush_requested_ |-> FALSE, commit_in_progress_ |-> FALSE]

NumNotFlushed(l) == Len(l.memlist_)

IsFlushPending(cf, l) ==
    \/ l.flush_requested_ /\ l.num_flush_not_started_ >= 1
    \/ l.num_flush_not_started_ >= min_write_buffer_number_to_merge_[cf]

\* (Faulty variant: it becomes the oldest.)
AddAtBack(l, m) ==
    [l EXCEPT !.memlist_ = <<m>> \o @, !.num_flush_not_started_ = @ + 1]

Add(l, m) ==
    [l EXCEPT !.memlist_ = Append(@, m), !.num_flush_not_started_ = @ + 1]

\* Whether m is one of the `mems' of job, which it is to flush or is flushing.
IsOf(m, job) == m.flush_in_progress_ = job /\ ~m.flush_completed_

Mems(l, job) == SelectSeq(l.memlist_, LAMBDA m : IsOf(m, job))

\* The memtables of l, those of job changed.
Update(l, job, Change(_)) ==
    LET n == Len(l.memlist_)
        changed == [i \in 1..n |->
                       IF IsOf(l.memlist_[i], job)
                       THEN Change(l.memlist_[i]) ELSE l.memlist_[i]]
    IN  [l EXCEPT !.memlist_ = SubSeq(changed, 1, n)]

\* The index of the oldest memtable of job.
Oldest(l, job) ==
    SelectInSeq(l.memlist_, LAMBDA m : IsOf(m, job))

\* FlushJob::Run's log number: the logs before it are not picked up for
\* recovery once the memtables are in a table.
NextLog(mems) == Last(mems).next_log

\* Every memtable no other job has picked is picked; the edit of the oldest
\* one is the edit of them all.
PickMemtablesToFlush(l, job) ==
    LET mems == Mems(l, NoJob)
        held == Update(l, NoJob,
                       LAMBDA m : [m EXCEPT !.flush_in_progress_ = job])
    IN  [held EXCEPT
            !.memlist_[Oldest(l, NoJob)].edit_.log = NextLog(mems),
            !.num_flush_not_started_ = @ - Len(mems),
            !.flush_requested_ = FALSE]

Reset(m) == [m EXCEPT !.flush_in_progress_ = NoJob,
                      !.flush_completed_ = FALSE, !.file_number_ = 0,
                      !.edit_ = NoEdit]

RollbackMemtableFlush(l, job) ==
    [Update(l, job, Reset) EXCEPT
        !.num_flush_not_started_ = @ + Len(Mems(l, job))]

\* The first half of InstallMemtableFlushResults: the job's memtables are in
\* the table file, which the edit of the oldest one adds if it has entries.
Complete(l, job, file) ==
    LET mems == Mems(l, job)
        done == Update(l, job, LAMBDA m : [m EXCEPT !.flush_completed_ = TRUE,
                                                    !.file_number_ = file])
    IN  [done EXCEPT !.memlist_[Oldest(l, job)].edit_.files =
            IF \E i \in DOMAIN mems : mems[i].writes # {} THEN {file} ELSE {}]

\* Whether the loop of InstallMemtableFlushResults has a memtable to commit.
CanCommit(l) == l.memlist_ # <<>> /\ Head(l.memlist_).flush_completed_

\* How many memtables one turn of the loop commits: the oldest one, and the
\* ones after it that are in the file of the job that commits.
Batch(l, file) ==
    CHOOSE n \in DOMAIN l.memlist_ :
        /\ \A i \in 2..n : l.memlist_[i].file_number_ = file
        /\ n < Len(l.memlist_) => l.memlist_[n + 1].file_number_ # file

\* The rest of a turn of the loop, when LogAndApply has returned.  On failure
\* the list does not get shorter, so the inner loop sees the oldest memtable,
\* whose file number it has just reset, and stops.
Committed(l, file) ==
    [l EXCEPT !.memlist_ = SubSeq(@, Batch(l, file) + 1, Len(@))]

CommitFailed(l) ==
    [l EXCEPT !.memlist_[1] = Reset(@), !.num_flush_not_started_ = @ + 1]
=============================================================================
