------------------------------ MODULE FlushJobs ------------------------------
(***************************************************************************)
(* How DBImpl moves writes from the log and the memtables to table files:  *)
(* writes and memtable switches (one at a time, in the write thread),      *)
(* background flush jobs, the commit of their edits to the manifest and    *)
(* the removal of the files nobody needs.  A step is what a thread does    *)
(* between taking mutex_ and releasing it, or one file operation outside.  *)
(* A write is its sequence number, a file its number; paranoid_checks is   *)
(* set, as it is by default, so a failed flush stops the next ones.        *)
(***************************************************************************)
EXTENDS MemTableList, Integers, FiniteSets

CONSTANTS
    column_families,            \* in the order of the column family set
    Jobs,                       \* threads of the flush pool
    Batches,                    \* the families a write may have updates for
    MaxWrites,
    MaxFiles,                   \* no memtable is switched with more
    MaxMemTables,               \* nor with more immutable ones
    MaxFaults, MaxFaultFiles    \* nor does anything fail then

VARIABLES
    opened,                     \* whether DB::Open has returned
    cfd,                        \* memtables, version and log number of each
    next_file_number_, LastSequence,
    descriptor_log_,            \* whether a manifest is open for appending
    manifest_writers_,
    logs,                       \* the log files DBImpl knows of
    bg_error_,
    sched,                      \* flush_queue_ and its counters
    jobs,                       \* background flushes under way
    writer,                     \* the memtable switch under way
    flush_scheduler_,           \* families with a memtable that was full
    flushing,                   \* the family a DB::Flush call is to switch
    wal, tables, manifest,      \* on disk
    written,                    \* column families of each write so far
    faults, doubtful            \* a failed manifest write that reached disk

callers == <<flush_scheduler_, flushing>>
memory == <<cfd, next_file_number_, LastSequence, descriptor_log_,
            manifest_writers_, logs, bg_error_, sched, jobs, writer, callers>>
disk == <<wal, tables, manifest>>
history == <<written, faults, doubtful>>

CF == Range(column_families)

NoSwitch == [kind |-> "none"]
IdleJob == [pc |-> "idle"]

Fault ==
    /\ faults < MaxFaults /\ next_file_number_ <= MaxFaultFiles
    /\ faults' = faults + 1

InitJobs ==
    /\ cfd = [cf \in CF |-> [mem |-> {}, imm |-> EmptyList,
                             log_number_ |-> 0, files |-> {}]]
    /\ next_file_number_ = 2 /\ LastSequence = 0
    /\ descriptor_log_ = FALSE /\ manifest_writers_ = <<>>
    /\ logs = [logfile_number_ |-> 1, log_empty_ |-> TRUE,
               alive_log_files_ |-> <<1>>, getting_flushed |-> 0]
    /\ bg_error_ = FALSE
    /\ sched = [flush_queue_ |-> <<>>, unscheduled_flushes_ |-> 0,
                bg_flush_scheduled_ |-> 0]
    /\ jobs = [j \in Jobs |-> IdleJob]
    /\ writer = NoSwitch /\ flush_scheduler_ = {} /\ flushing = {}
    /\ wal = [n \in {1} |-> {}] /\ tables = [n \in {} |-> {}]
    /\ manifest = [cfs |-> [cf \in CF |-> [log |-> 0, files |-> {}]],
                   next |-> 0, last |-> 0]
    /\ opened = TRUE
    /\ written = <<>> /\ faults = 0 /\ doubtful = FALSE
-----------------------------------------------------------------------------
(* Scheduling. *)

SchedulePendingFlush(s, cf, l) ==
    IF cf \notin Range(s.flush_queue_) /\ IsFlushPending(cf, l)
    THEN [s EXCEPT !.flush_queue_ = Append(@, cf),
                   !.unscheduled_flushes_ = @ + 1]
    ELSE s

MaybeScheduleFlushOrCompaction(s) ==
    LET n == Min({s.unscheduled_flushes_,
                  Cardinality(Jobs) - s.bg_flush_scheduled_})
    IN  [s EXCEPT !.unscheduled_flushes_ = @ - n,
                  !.bg_flush_scheduled_ = @ + n]

EndJob(s) ==
    MaybeScheduleFlushOrCompaction([s EXCEPT !.bg_flush_scheduled_ = @ - 1])


InstallSuperVersionAndScheduleWork(s, cf, c) ==
    MaybeScheduleFlushOrCompaction(SchedulePendingFlush(s, cf, c[cf].imm))
-----------------------------------------------------------------------------
(* The write thread. *)

\* A DB::Flush that waits is the next to enter.
MayEnter == opened /\ writer = NoSwitch /\ flushing = {}

\* A batch with an update for each family of it is logged and inserted, which
\* fills the memtables of some of them.
Write(batch, full) ==
    LET seq == LastSequence + 1 IN
    /\ MayEnter /\ ~bg_error_ /\ flush_scheduler_ = {}
    /\ Len(written) < MaxWrites
    /\ written' = Append(written, batch)
    /\ LastSequence' = seq
    /\ wal' = [wal EXCEPT ![logs.logfile_number_] = @ \cup {seq}]
    /\ logs' = [logs EXCEPT !.log_empty_ = FALSE]
    /\ cfd' = [cf \in CF |-> [cfd[cf] EXCEPT
                  !.mem = IF cf \in batch THEN @ \cup {seq} ELSE @]]
    /\ flush_scheduler_' = flush_scheduler_ \cup full
    /\ UNCHANGED <<opened, next_file_number_, descriptor_log_,
                   manifest_writers_, bg_error_, sched, jobs, writer, flushing,
                   tables, manifest, faults, doubtful>>

\* SwitchMemtable up to the release of mutex_: a log with records in it is
\* to be replaced.
BeginSwitch(kind, cf, l) ==
    /\ writer' = [kind |-> kind, cf |-> cf, creating_new_log |-> ~l.log_empty_,
                  log |-> IF l.log_empty_ THEN l.logfile_number_
                          ELSE next_file_number_]
    /\ next_file_number_' = IF l.log_empty_ THEN next_file_number_
                            ELSE next_file_number_ + 1
    /\ logs' = l

MaySwitch ==
    /\ FoldSet(LAMBDA x, n : n + NumNotFlushed(cfd[x].imm), 0, CF)
         < MaxMemTables
    /\ opened /\ writer = NoSwitch
    /\ next_file_number_ <= MaxFiles
    /\ UNCHANGED <<opened, cfd, LastSequence, descriptor_log_,
                   manifest_writers_, bg_error_, sched, jobs, disk, history>>

\* DB::Flush finds something to flush and enters the write thread, or waits
\* for its turn without mutex_ (one call at a time, while another switches).
FlushMemTable(cf) ==
    /\ opened /\ flushing = {}
    /\ NumNotFlushed(cfd[cf].imm) # 0 \/ cfd[cf].mem # {}
    /\ \/ MaySwitch /\ BeginSwitch("request", cf, logs)
          /\ UNCHANGED callers
       \/ /\ writer # NoSwitch /\ next_file_number_ <= MaxFiles
          /\ flushing' = {cf}
          /\ UNCHANGED <<opened, cfd, next_file_number_, LastSequence,
                         descriptor_log_, manifest_writers_, logs, bg_error_,
                         sched, jobs, writer, flush_scheduler_, disk, history>>

\* The DB::Flush that waited; there may be nothing left to flush.
EnterUnbatched(cf) ==
    /\ cf \in flushing
    /\ MaySwitch
    /\ BeginSwitch("request", cf, logs)
    /\ flushing' = {}
    /\ UNCHANGED flush_scheduler_

\* A write takes the next family from flush_scheduler_; it may have been
\* switched since.
ScheduleFlushes(cf) ==
    /\ cf \in flush_scheduler_ /\ ~bg_error_
    /\ MayEnter /\ MaySwitch
    /\ BeginSwitch("full", cf, logs)
    /\ flush_scheduler_' = flush_scheduler_ \ {cf}
    /\ UNCHANGED flushing

\* The memtables use too much memory: the largest is switched.
LimitWriteBuffer(cf) ==
    /\ MayEnter /\ MaySwitch
    /\ cfd[cf].mem # {}
    /\ BeginSwitch("largest", cf, logs)
    /\ UNCHANGED callers

\* The next column family, from the i-th on, with updates in the oldest log.
InOldestLog(i, c, log) ==
    LET Next == {k \in i..Len(column_families) :
                     c[column_families[k]].log_number_ <= log}
    IN  IF Next = {} THEN 0 ELSE Min(Next)

\* The logs are too large: all families with updates in the oldest are
\* switched, one after the other.
LimitTotalLogSize ==
    LET oldest == Head(logs.alive_log_files_)
        i == InOldestLog(1, cfd, oldest)
    IN  /\ MayEnter /\ MaySwitch
        /\ logs.getting_flushed # oldest
        /\ \E n \in Range(logs.alive_log_files_) : wal[n] # {}
        /\ i # 0
        /\ BeginSwitch("limit", column_families[i],
                       [logs EXCEPT !.getting_flushed = oldest])
        /\ UNCHANGED callers

\* (Faulty variant: also families with memtables that are not flushed yet.)
AdvanceAll(c, log) ==
    [cf \in CF |-> [c[cf] EXCEPT
        !.log_number_ = IF c[cf].mem = {} THEN log ELSE @]]

\* A family with nothing to flush needs none of the older logs.
AdvanceEmpty(c, log) ==
    [cf \in CF |-> [c[cf] EXCEPT
        !.log_number_ = IF c[cf].mem = {} /\ NumNotFlushed(c[cf].imm) = 0
                        THEN log ELSE @]]

\* What the new log and the new memtable of cf change.
Switched(c, cf, log) ==
    [c EXCEPT ![cf].imm = Add(@, MemTable(c[cf].mem, log)), ![cf].mem = {}]

Requested(c, cf) == [c EXCEPT ![cf].imm.flush_requested_ = TRUE]

\* The caller's part when SwitchMemtable returns: a requested flush is
\* scheduled, and the next family over the limit is switched at once.
EndSwitch(c, l, s) ==
    LET cf == writer.cf
        requested == Requested(c, cf)
        i == IF writer.kind # "limit" THEN 0
             ELSE InOldestLog(SelectInSeq(column_families,
                                          LAMBDA x : x = cf) + 1,
                              requested, l.getting_flushed)
        pending == SchedulePendingFlush(s, cf, requested[cf].imm)
    IN  /\ cfd' = IF writer.kind = "full" THEN c ELSE requested
        /\ IF i # 0
           THEN /\ sched' = pending
                /\ BeginSwitch("limit", column_families[i], l)
           ELSE /\ sched' = IF writer.kind = "full" THEN s
                            ELSE MaybeScheduleFlushOrCompaction(pending)
                /\ writer' = NoSwitch /\ logs' = l
                /\ UNCHANGED next_file_number_

\* SwitchMemtable from the creation of the log on.
SwitchMemtable ==
    LET l == [logs EXCEPT !.logfile_number_ = writer.log, !.log_empty_ = TRUE,
                          !.alive_log_files_ = Append(@, writer.log)]
        c == IF writer.creating_new_log THEN AdvanceEmpty(cfd, writer.log)
             ELSE cfd
        c2 == Switched(c, writer.cf, writer.log)
    IN  /\ opened /\ writer # NoSwitch
        /\ IF writer.creating_new_log
           THEN wal' = [n \in DOMAIN wal \cup {writer.log} |->
                           IF n = writer.log THEN {} ELSE wal[n]]
           ELSE UNCHANGED wal
        /\ EndSwitch(c2, IF writer.creating_new_log THEN l ELSE logs,
                     InstallSuperVersionAndScheduleWork(sched, writer.cf, c2))
        /\ UNCHANGED <<opened, LastSequence, descriptor_log_, callers,
                       manifest_writers_, bg_error_, jobs, tables, manifest,
                       history>>

\* The log cannot be created: the caller gets the error; DB::Flush has the
\* flush scheduled even so, and the limit those of the families before.
SwitchMemtableFails ==
    /\ opened /\ writer # NoSwitch /\ writer.creating_new_log
    /\ Fault
    /\ writer' = NoSwitch
    /\ CASE writer.kind = "request" ->
              /\ cfd' = Requested(cfd, writer.cf)
              /\ sched' = InstallSuperVersionAndScheduleWork(
                              sched, writer.cf, cfd')
         [] writer.kind = "limit" ->
              /\ sched' = MaybeScheduleFlushOrCompaction(sched)
              /\ UNCHANGED cfd
         [] OTHER -> UNCHANGED <<cfd, sched>>
    /\ UNCHANGED <<opened, next_file_number_, LastSequence, descriptor_log_,
                   manifest_writers_, logs, bg_error_, jobs, callers, disk,
                   written, doubtful>>
-----------------------------------------------------------------------------
(* Obsolete files. *)

MinLogNumber(c) == Min({c[cf].log_number_ : cf \in CF})

LiveFiles(c) == UNION {c[cf].files : cf \in CF}

\* (Faulty variant: the tables being written are not held.)
NoPendingOutput(j) == next_file_number_

\* min_pending_output when job j has released its own number.
MinPendingOutput(j) ==
    Min({next_file_number_} \cup
        {jobs[k].pending : k \in {k \in Jobs \ {j} :
                                    "pending" \in DOMAIN jobs[k]}})

\* (Faulty variant: only logs that every family needs.)
KeepLogOfAll(n, c) == \A cf \in CF : n >= c[cf].log_number_

\* PurgeObsoleteFiles keeps a log that some family needs, and a table that is
\* live or may be the output of a job under way.
KeepLog(n, c) == n >= MinLogNumber(c)

KeepTable(n, c, min_pending_output) ==
    n \in LiveFiles(c) \/ n >= min_pending_output

\* FindObsoleteFiles for families c: the logs that are not needed are no
\* longer alive.  All files are listed, as for an error or a
\* delete_obsolete_files_period_micros of zero, and PurgeObsoleteFiles deletes
\* those that it does not keep by what is so now.
FindObsoleteFiles(l, c, min_pending_output) ==
    [logs |-> [l EXCEPT !.alive_log_files_ =
                  SelectSeq(@, LAMBDA n : n >= MinLogNumber(c))],
     delete_logs |-> {n \in DOMAIN wal : ~KeepLog(n, c)},
     delete_tables |-> {n \in DOMAIN tables :
                            ~KeepTable(n, c, min_pending_output)}]

PurgeObsoleteFiles(found) ==
    /\ wal' = Restrict(wal, DOMAIN wal \ found.delete_logs)
    /\ tables' = Restrict(tables, DOMAIN tables \ found.delete_tables)
-----------------------------------------------------------------------------
(* Flush jobs. *)

\* BackgroundCallFlush after BackgroundFlush, until it releases mutex_ to
\* delete files, or its end when there are none, from scheduler state s.
Find(j, c, s) ==
    LET found == FindObsoleteFiles(logs, c, MinPendingOutput(j))
        some == found.delete_logs # {} \/ found.delete_tables # {}
    IN  /\ logs' = found.logs
        /\ jobs' = [jobs EXCEPT ![j] =
                       IF some THEN [pc |-> "purge",
                                     delete_logs |-> found.delete_logs,
                                     delete_tables |-> found.delete_tables]
                       ELSE IdleJob]
        /\ sched' = IF some THEN s ELSE EndJob(s)

\* FlushMemTableToOutputFile and what follows, with c the families: the flush
\* is done, or it has failed and the job sleeps before it cleans up.
Succeed(j, c) ==
    /\ cfd' = c
    /\ Find(j, c, InstallSuperVersionAndScheduleWork(sched, jobs[j].cf, c))
    /\ UNCHANGED bg_error_

Fail(j, c) ==
    /\ cfd' = c
    /\ bg_error_' = TRUE
    /\ jobs' = [jobs EXCEPT ![j] = [pc |-> "sleep",
                                    pending |-> jobs[j].pending]]
    /\ UNCHANGED <<sched, logs>>

\* A flush thread runs: the file numbers from the current one on are protected.
\* After a background error the job sleeps and cleans up.  If not, the first
\* family of the queue is flushed (FlushGoesOn: it has a flush pending): its
\* memtables are picked, and outside mutex_ BuildTable creates the file.
BackgroundCallFlush(j) ==
    LET cf == Head(sched.flush_queue_)
        file == next_file_number_
        mems == Mems(cfd[cf].imm, NoJob)
    IN  /\ opened /\ jobs[j] = IdleJob
        /\ Cardinality({x \in Jobs : jobs[x] # IdleJob})
             < sched.bg_flush_scheduled_
        /\ \/ /\ bg_error_
              /\ jobs' = [jobs EXCEPT ![j] = [pc |-> "sleep",
                                              pending |-> file]]
              /\ UNCHANGED <<cfd, sched, next_file_number_, tables>>
           \/ /\ ~bg_error_ /\ IsFlushPending(cf, cfd[cf].imm)
              /\ sched' = [sched EXCEPT !.flush_queue_ = Tail(@)]
              /\ cfd' = [cfd EXCEPT ![cf].imm = PickMemtablesToFlush(@, j)]
              /\ jobs' = [jobs EXCEPT ![j] = [pc |-> "build", cf |-> cf,
                              file |-> file, pending |-> file]]
              /\ next_file_number_' = file + 1
              /\ tables' = [n \in DOMAIN tables \cup {file} |->
                    IF n = file THEN UNION {mems[i].writes : i \in DOMAIN mems}
                    ELSE tables[n]]
        /\ UNCHANGED <<opened, LastSequence, descriptor_log_,
                       manifest_writers_, logs, bg_error_, writer, callers,
                       wal, manifest, history>>

\* BuildTable has deleted a file it could not finish (and one without entries).
Without(file) == Restrict(tables, DOMAIN tables \ {file})

\* FlushJob::Run when the table could not be built.
Rollback(j) ==
    /\ jobs[j].pc = "build" /\ Fault
    /\ tables' = Without(jobs[j].file)
    /\ Fail(j, [cfd EXCEPT ![jobs[j].cf].imm = RollbackMemtableFlush(@, j)])
    /\ UNCHANGED <<opened, next_file_number_, LastSequence, descriptor_log_,
                   writer, callers, wal, manifest_writers_, manifest, written,
                   doubtful>>

\* LogAndApply at the head of the queue, until it releases mutex_: without an
\* open manifest a new one is numbered; the edit gets the numbers of now.
Logging(job, next) ==
    [pc |-> "writing", cf |-> job.cf, file |-> job.file,
     pending |-> job.pending, next |-> next, last |-> LastSequence]

NextAfterManifest(open) == next_file_number_ + (IF open THEN 0 ELSE 1)

\* The loop of InstallMemtableFlushResults: the oldest memtable's edit is
\* queued for the manifest, or there is nothing left to commit.
CommitNext(j, c, queue) ==
    IF CanCommit(c[jobs[j].cf].imm)
    THEN /\ cfd' = [c EXCEPT ![jobs[j].cf].imm.commit_in_progress_ = TRUE]
         /\ manifest_writers_' = Append(queue, j)
         /\ next_file_number_' = IF queue = <<>>
                                 THEN NextAfterManifest(descriptor_log_')
                                 ELSE next_file_number_
         /\ jobs' = [jobs EXCEPT ![j] =
                        IF queue = <<>> THEN Logging(@, next_file_number_')
                        ELSE [pc |-> "queued", cf |-> @.cf, file |-> @.file,
                              pending |-> @.pending]]
         /\ UNCHANGED <<sched, logs, bg_error_>>
    ELSE /\ Succeed(j, [c EXCEPT
                 ![jobs[j].cf].imm.commit_in_progress_ = FALSE])
         /\ manifest_writers_' = queue
         /\ UNCHANGED next_file_number_

InstallMemtableFlushResults(j) ==
    LET c == [cfd EXCEPT ![jobs[j].cf].imm = Complete(@, j, jobs[j].file)] IN
    /\ jobs[j].pc = "build"
    /\ UNCHANGED descriptor_log_
    /\ tables' = Restrict(tables, {n \in DOMAIN tables :
                                     n = jobs[j].file => tables[n] # {}})
    /\ IF c[jobs[j].cf].imm.commit_in_progress_
       THEN Succeed(j, c) /\ UNCHANGED <<manifest_writers_, next_file_number_>>
       ELSE CommitNext(j, c, manifest_writers_)
    /\ UNCHANGED <<opened, LastSequence, writer, callers, wal, manifest,
                   history>>

\* A job that had to wait in the queue is at its head.
BeginLogAndApply(j) ==
    /\ jobs[j].pc = "queued" /\ Head(manifest_writers_) = j
    /\ next_file_number_' = NextAfterManifest(descriptor_log_)
    /\ jobs' = [jobs EXCEPT ![j] = Logging(@, next_file_number_')]
    /\ UNCHANGED <<opened, cfd, LastSequence, descriptor_log_, logs,
                   manifest_writers_, bg_error_, sched, writer, callers, disk,
                   history>>

\* An edit in a manifest that the families fams of it describe.
Apply(fams, cf, edit) ==
    [fams EXCEPT ![cf] = [log |-> IF edit.log = 0 THEN @.log ELSE edit.log,
                          files |-> @.files \cup edit.files]]

\* WriteSnapshot: what a new manifest starts with.
WriteSnapshot(c) == [cf \in CF |-> [log |-> c[cf].log_number_,
                                    files |-> c[cf].files]]

\* The rest of LogAndApply: the record is written, to a new manifest behind a
\* snapshot, then the version and log number are installed and the memtables
\* removed.  When the write fails a new manifest is deleted; in an old one the
\* record may be even so.
LogAndApply(j) ==
    LET cf == jobs[j].cf
        edit == Head(cfd[cf].imm.memlist_).edit_
        fams == IF descriptor_log_ THEN manifest.cfs ELSE WriteSnapshot(cfd)
        logged == [cfs |-> Apply(fams, cf, edit),
                   next |-> jobs[j].next, last |-> jobs[j].last]
    IN  /\ jobs[j].pc = "writing"
        /\ \/ /\ manifest' = logged
              /\ descriptor_log_' = TRUE
              /\ CommitNext(j,
                     [cfd EXCEPT
                         ![cf].log_number_ = IF edit.log = 0 THEN @
                                             ELSE edit.log,
                         ![cf].files = @ \cup edit.files,
                         ![cf].imm = Committed(@, jobs[j].file)],
                     Tail(manifest_writers_))
              /\ UNCHANGED <<faults, doubtful>>
           \/ /\ Fault
              /\ \/ UNCHANGED <<manifest, doubtful>>
                 \/ /\ descriptor_log_
                    /\ manifest' = logged /\ doubtful' = TRUE
              /\ Fail(j, [cfd EXCEPT ![cf].imm =
                            [CommitFailed(@) EXCEPT
                                !.commit_in_progress_ = FALSE]])
              /\ manifest_writers_' = Tail(manifest_writers_)
              /\ UNCHANGED <<descriptor_log_, next_file_number_>>
        /\ UNCHANGED <<opened, LastSequence, writer, callers, wal, tables,
                       written>>

\* BackgroundCallFlush after an error: the failed flush's files are looked
\* for.
Clean(j) ==
    /\ jobs[j].pc = "sleep"
    /\ Find(j, cfd, sched)
    /\ UNCHANGED <<opened, cfd, next_file_number_, LastSequence,
                   descriptor_log_, manifest_writers_, bg_error_, writer,
                   callers, disk, history>>

\* The files are deleted and the job ends.
Purge(j) ==
    /\ jobs[j].pc = "purge"
    /\ PurgeObsoleteFiles(jobs[j])
    /\ jobs' = [jobs EXCEPT ![j] = IdleJob]
    /\ sched' = EndJob(sched)
    /\ UNCHANGED <<opened, cfd, next_file_number_, LastSequence,
                   descriptor_log_, logs, manifest_writers_, bg_error_, writer,
                   callers, manifest, history>>

JobStep(j) ==
    \/ BackgroundCallFlush(j) \/ Rollback(j)
    \/ InstallMemtableFlushResults(j) \/ BeginLogAndApply(j)
    \/ LogAndApply(j) \/ Clean(j) \/ Purge(j)
=============================================================================
