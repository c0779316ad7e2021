---------------------------- MODULE FlushRecovery ----------------------------
(***************************************************************************)
(* The flush jobs of FlushJobs with the process dying at any point, and    *)
(* DB::Open: the manifest is read, the logs from the smallest log number   *)
(* on are replayed into memtables, which are written to tables as they     *)
(* fill up and at the end, the new tables and log number of each family    *)
(* are logged, one family after the other, and obsolete files are deleted. *)
(* What the process wrote to its files is there after a crash.             *)
(***************************************************************************)
EXTENDS FlushJobs

CONSTANT MaxCrashes    \* and one more during DB::Open

VARIABLES
    recovery,   \* DB::Open under way
    crashes

vars == <<opened, memory, disk, history, recovery, crashes>>

Closed == [phase |-> "closed"]
Done == [phase |-> "done"]

Init == InitJobs /\ recovery = Done /\ crashes = 0

\* Memory is gone; a DB::Open that fails leaves the same behind.
Crash ==
    /\ recovery # Closed
    /\ crashes < (IF opened THEN MaxCrashes ELSE MaxCrashes + 1)
    /\ crashes' = crashes + 1
    /\ opened' = FALSE /\ recovery' = Closed
    /\ cfd' = [cf \in CF |-> [mem |-> {}, imm |-> EmptyList,
                              log_number_ |-> 0, files |-> {}]]
    /\ next_file_number_' = 0 /\ LastSequence' = 0
    /\ descriptor_log_' = FALSE /\ manifest_writers_' = <<>>
    /\ logs' = [logfile_number_ |-> 0, log_empty_ |-> TRUE,
                alive_log_files_ |-> <<>>, getting_flushed |-> 0]
    /\ bg_error_' = FALSE
    /\ sched' = [flush_queue_ |-> <<>>, unscheduled_flushes_ |-> 0,
                 bg_flush_scheduled_ |-> 0]
    /\ jobs' = [j \in Jobs |-> IdleJob]
    /\ writer' = NoSwitch /\ flush_scheduler_' = {} /\ flushing' = {}
    /\ UNCHANGED <<disk, history>>

recovered == <<opened, manifest_writers_, bg_error_, sched, jobs, writer,
               callers, wal, history, crashes>>

\* The log numbers from min_log on, in the order they are replayed.
LogsFrom(min_log) ==
    SetToSortSeq({n \in DOMAIN wal : n >= min_log}, <)

\* VersionSet::Recover, CheckConsistency and the list of logs.
Recover ==
    LET c == [cf \in CF |-> [mem |-> {}, imm |-> EmptyList,
                             log_number_ |-> manifest.cfs[cf].log,
                             files |-> manifest.cfs[cf].files]]
    IN  /\ recovery = Closed
        /\ LiveFiles(c) \subseteq DOMAIN tables
        /\ cfd' = c
        /\ next_file_number_' = manifest.next + 1
        /\ LastSequence' = manifest.last
        /\ recovery' = [phase |-> "replay", logs |-> LogsFrom(MinLogNumber(c)),
                        edits |-> [cf \in CF |-> {}], max_log |-> 0, family |-> 1]
        /\ UNCHANGED <<recovered, descriptor_log_, logs, tables, manifest>>

\* (Faulty variant: no filter.)
ReplaysAll(cf, n) == TRUE

\* InsertInto's filter: the family has the updates of older logs in tables.
Replays(cf, n) == n >= cfd[cf].log_number_

SequenceAfter(n) == Max({LastSequence} \cup wal[n])

ReplayLog ==
    LET n == Head(recovery.logs)
        For(cf) == {w \in wal[n] : cf \in written[w] /\ Replays(cf, n)}
    IN  /\ recovery.phase = "replay" /\ recovery.logs # <<>>
        /\ cfd' = [cf \in CF |-> [cfd[cf] EXCEPT !.mem = @ \cup For(cf)]]
        /\ LastSequence' = SequenceAfter(n)
        /\ next_file_number_' = Max({next_file_number_, n + 1})
        /\ recovery' = [recovery EXCEPT
               !.logs = Tail(@), !.max_log = n,
               !.phase = IF Len(recovery.logs) = 1 THEN "families" ELSE @]
        /\ UNCHANGED <<recovered, descriptor_log_, logs, tables, manifest>>

\* A memtable is full during the replay, or it is the turn of its family
\* after it; the family has not flushed the data from all logs.
WriteLevel0TableForRecovery(cf) ==
    /\ \/ recovery.phase = "replay" /\ recovery.max_log # 0
       \/ recovery.phase = "families" /\ column_families[recovery.family] = cf
    /\ cfd[cf].mem # {}
    /\ tables' = [n \in DOMAIN tables \cup {next_file_number_} |->
                     IF n = next_file_number_ THEN cfd[cf].mem ELSE tables[n]]
    /\ next_file_number_' = next_file_number_ + 1
    /\ cfd' = [cfd EXCEPT ![cf].mem = {}]
    /\ recovery' = [recovery EXCEPT !.edits[cf] = @ \cup {next_file_number_}]
    /\ UNCHANGED <<recovered, descriptor_log_, LastSequence, logs, manifest>>

NextFamily ==
    [recovery EXCEPT
        !.family = @ + 1,
        !.phase = IF recovery.family = Len(column_families) THEN "new log"
                  ELSE @]

\* The end of RecoverLogFiles for a family: its tables are logged, with the
\* number of the first log that is not replayed.  The first LogAndApply of
\* DB::Open starts a new manifest, numbered like the files.
LogFamily ==
    LET cf == column_families[recovery.family]
        edit == [log |-> recovery.max_log + 1,
                 files |-> recovery.edits[cf]]
        next == Max({NextAfterManifest(descriptor_log_),
                     edit.log + 1 + (IF descriptor_log_ THEN 0 ELSE 1)})
    IN  /\ recovery.phase = "families"
        /\ IF cfd[cf].log_number_ > recovery.max_log
           THEN UNCHANGED <<cfd, next_file_number_, descriptor_log_, manifest>>
           ELSE /\ cfd[cf].mem = {}
                /\ next_file_number_' = next
                /\ cfd' = [cfd EXCEPT ![cf].log_number_ = edit.log,
                                      ![cf].files = @ \cup edit.files]
                /\ manifest' = [cfs |-> Apply(WriteSnapshot(cfd), cf, edit),
                                next |-> next, last |-> LastSequence]
                /\ descriptor_log_' = TRUE
        /\ recovery' = NextFamily
        /\ UNCHANGED <<recovered, LastSequence, logs, tables>>

\* The rest of DB::Open: a new log, and DeleteObsoleteFiles.
Open ==
    LET n == next_file_number_
        l == [logfile_number_ |-> n, log_empty_ |-> TRUE,
              alive_log_files_ |-> <<n>>, getting_flushed |-> 0]
        found == FindObsoleteFiles(l, cfd, n)
    IN  /\ \/ recovery.phase = "new log"
           \/ recovery.phase = "replay" /\ recovery.max_log = 0
                                        /\ recovery.logs = <<>>
        /\ opened' = TRUE /\ recovery' = Done
        /\ next_file_number_' = n + 1
        /\ logs' = found.logs
        /\ wal' = [x \in (DOMAIN wal \ found.delete_logs) \cup {n} |->
                      IF x = n THEN {} ELSE wal[x]]
        /\ tables' = Restrict(tables, DOMAIN tables \ found.delete_tables)
        /\ UNCHANGED <<cfd, LastSequence, descriptor_log_, manifest_writers_,
                       bg_error_, sched, jobs, writer, callers, manifest,
                       history, crashes>>

WriteThreadStep ==
    \/ \E batch \in Batches : \E full \in SUBSET batch : Write(batch, full)
    \/ \E cf \in CF : \/ FlushMemTable(cf) \/ EnterUnbatched(cf)
                      \/ ScheduleFlushes(cf) \/ LimitWriteBuffer(cf)
    \/ LimitTotalLogSize

FlushStep ==
    /\ \/ \E j \in Jobs : JobStep(j)
       \/ WriteThreadStep \/ SwitchMemtable \/ SwitchMemtableFails
    /\ UNCHANGED <<recovery, crashes>>

OpenStep ==
    \/ Recover \/ ReplayLog \/ LogFamily \/ Open
    \/ \E cf \in CF : WriteLevel0TableForRecovery(cf)

Next == FlushStep \/ Crash \/ OpenStep

Spec == Init /\ [][Next]_vars
-----------------------------------------------------------------------------
\* The places that hold write w of cf: the memtable, immutable memtables, and
\* table files of the current version.
Places(cf, w) ==
    {<<"mem", 0>> : x \in {x \in {cf} : w \in cfd[cf].mem}}
    \cup {<<"imm", i>> : i \in {i \in DOMAIN cfd[cf].imm.memlist_ :
                                  w \in cfd[cf].imm.memlist_[i].writes}}
    \cup {<<"table", n>> : n \in {n \in cfd[cf].files \cap DOMAIN tables :
                                    w \in tables[n]}}

WritesTo(cf) == {w \in DOMAIN written : cf \in written[w]}

\* While the database is open, whatever crashes and recoveries there have
\* been, every write is found, and only once unless tables of its family are
\* being committed or a commit has failed: "We can't apply updates twice"
\* (the filter of InsertInto).
InOnePlace ==
    opened => \A cf \in CF : \A w \in WritesTo(cf) :
        /\ Places(cf, w) # {}
        /\ \/ cfd[cf].imm.commit_in_progress_ \/ bg_error_
           \/ Cardinality(Places(cf, w)) = 1

\* Where the replay that would follow a crash now finds write w of cf.
Replayed(cf, w) ==
    {n \in manifest.cfs[cf].files \cap DOMAIN tables : w \in tables[n]}
    \cup (IF \E n \in DOMAIN wal : n >= manifest.cfs[cf].log /\ w \in wal[n]
          THEN {0} ELSE {})

\* At any moment, with jobs half done, the manifest, the tables and the logs
\* on disk hold every write, and DB::Open would apply each exactly once.  A
\* manifest record that is there though its write failed voids this.
Recoverable ==
    doubtful \/ \A cf \in CF : \A w \in WritesTo(cf) :
                    Cardinality(Replayed(cf, w)) = 1

\* A table of the current version or of the manifest is on disk: a full scan
\* never deletes a job's file before or after its edit is committed, not even
\* when another job commits it.
TablesKept ==
    /\ LiveFiles(cfd) \subseteq DOMAIN tables
    /\ doubtful \/ \A cf \in CF : manifest.cfs[cf].files \subseteq DOMAIN tables

\* "Memtables are always committed in the order that they were created": a
\* table holds no newer writes than the memtables, an immutable memtable older
\* ones than those after it.  Reads rely on it.
CommittedInOrder ==
    \A cf \in CF :
        LET l == cfd[cf].imm.memlist_
            stored == UNION {tables[n] : n \in cfd[cf].files \cap DOMAIN tables}
        IN  /\ \A w \in stored, x \in cfd[cf].mem : w < x
            /\ \A i \in DOMAIN l : \A x \in l[i].writes :
                  /\ \A w \in stored : w <= x
                  /\ \A w \in cfd[cf].mem : x < w
                  /\ \A k \in 1..i - 1 : \A w \in l[k].writes : w < x

\* LogAndApply's assertions: the log number of an edit is not below the one
\* of its family, and it is below next_file_number_.
EditLogNumberGrows ==
    \A cf \in CF : \A i \in DOMAIN cfd[cf].imm.memlist_ :
        LET log == cfd[cf].imm.memlist_[i].edit_.log IN
        log # 0 => cfd[cf].log_number_ <= log /\ log < next_file_number_

=============================================================================
