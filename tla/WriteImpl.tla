----------------------------- MODULE WriteImpl -----------------------------
(***************************************************************************)
(* DBImpl::WriteImpl (db/db_impl.cc) run by concurrent threads over the    *)
(* queue of module WriteThread: a leader logs its group's batches and      *)
(* applies them, alone or with the followers in parallel, advances the     *)
(* sequence number that readers see, and hands the lead on.  Writers with  *)
(* no batch are callers of EnterUnbatched and ExitUnbatched.               *)
(*                                                                         *)
(* Steps are the accesses other threads can see: what happens between two  *)
(* of them is merged with one.  Preparation under the DB mutex (switching  *)
(* memtables, delaying the write) is reduced to its status.  The option     *)
(* paranoid_checks has its default, true.                                  *)
(***************************************************************************)
EXTENDS WriteThread

CONSTANTS Requests,      \* what the writers may ask for, as functions
          Faults,        \* what can fail: subset of {"prepare", "log", "insert"}
          AllowConcurrentMemtableWrite

ASSUME RequestAssumption ==
  \A r \in Requests : \A w \in Writer : r[w].count \in Nat

VARIABLES
  pc,              \* where each thread is
  status,          \* Writer::status
  callbackFailed,  \* writers whose callback_status is not ok
  result,          \* WriteImpl's local status, then what it returned
  group,           \* a leader's write_group; its last element is last_writer
  exited,          \* leaders with exit_completed_early
  parallel_group,  \* leader of the parallel group a writer is in
  running,         \* ParallelGroup::running, by leader
  pgStatus,        \* ParallelGroup::status, by leader
  cursor,          \* last_writer as ExitAsBatchGroupLeader counts it down
  sequence,        \* Writer::sequence
  log,             \* records of the write-ahead log
  memtable,        \* writers whose batch is inserted
  lastSequence,    \* VersionSet::last_sequence_: what readers see
  bg_error,
  failed           \* kinds of failure there have been

locals == <<pc, result, group, exited, cursor>>
shared == <<status, callbackFailed, parallel_group, running, pgStatus, sequence>>
db == <<log, memtable, lastSequence, bg_error, failed>>
vars == <<queue, state, request, locals, shared, db>>

Status == {"ok", "fail"}

Init ==
  /\ InitQueue
  /\ request \in Requests
  /\ pc = [w \in Writer |-> "start"]
  /\ status = [w \in Writer |-> "ok"]
  /\ callbackFailed = {}
  /\ result = [w \in Writer |-> "ok"]
  /\ group = [w \in Writer |-> <<>>]
  /\ exited = {}
  /\ parallel_group = [w \in Writer |-> Null]
  /\ running = [w \in Writer |-> 0]
  /\ pgStatus = [w \in Writer |-> "ok"]
  /\ cursor = [w \in Writer |-> Null]
  /\ sequence = [w \in Writer |-> 0]
  /\ log = <<>>
  /\ memtable = {}
  /\ lastSequence = 0
  /\ bg_error = FALSE
  /\ failed = {}

\* last_writer of the group that w leads.
LastWriter(w) == group[w][Len(group[w])]

Goto(w, label) == pc' = [pc EXCEPT ![w] = label]

\* Operations of a kind may fail; bounded to one failure in a behaviour.
MayFail(kind) == kind \in Faults /\ failed = {}

FinalStatus(w) ==
  IF status[w] = "ok" /\ w \notin callbackFailed THEN "ok" ELSE "fail"

NeedLogSync(w) == ~request[w].disableWAL /\ request[w].sync

\* Number of keys in the batches of a sequence of writers.
Keys(writers) ==
  LET sum[i \in 0..Len(writers)] ==
        IF i = 0 THEN 0 ELSE sum[i - 1] + request[writers[i]].count
  IN  sum[Len(writers)]

\* The writers of a group whose callback allows the write.
Allowed(writers) ==
  LET allowed[i \in 0..Len(writers)] ==
        IF i = 0 THEN <<>>
        ELSE IF request[writers[i]].callback = "refuses" THEN allowed[i - 1]
        ELSE Append(allowed[i - 1], writers[i])
  IN  allowed[Len(writers)]

Parallel(w) ==
  /\ AllowConcurrentMemtableWrite
  /\ Len(group[w]) > 1
  /\ \A x \in Members(group[w]) :
       request[x].callback # "refuses" => ~request[x].merge

\* What last_sequence becomes when the group of leader w is applied.
GroupSequence(w) == lastSequence + Keys(Allowed(group[w]))

-----------------------------------------------------------------------------
(***************************************************************************)
(* Joining, and a leader's way to the memtable.                            *)
(***************************************************************************)
JoinBatchGroup(w) ==
  /\ pc[w] = "start"
  /\ LinkOne(w)
  /\ Goto(w, "joined")
  /\ UNCHANGED <<request, result, group, exited, cursor, shared, db>>

\* AwaitState(STATE_GROUP_LEADER) of EnterUnbatched, and ExitUnbatched.
Unbatched(w) ==
  /\ pc[w] = "joined"
  /\ state[w] = "GROUP_LEADER"
  /\ ~request[w].batch
  /\ group' = [group EXCEPT ![w] = <<w>>]
  /\ Goto(w, "unlink")
  /\ UNCHANGED <<queue, state, request, result, exited, cursor, shared, db>>

Prepare(w) ==
  /\ pc[w] = "joined"
  /\ state[w] = "GROUP_LEADER"
  /\ request[w].batch
  /\ \E s \in IF bg_error THEN {"fail"} ELSE
          IF MayFail("prepare") THEN {"ok", "fail"} ELSE {"ok"} :
       /\ result' = [result EXCEPT ![w] = s]
       /\ failed' = IF s = "fail" /\ ~bg_error THEN failed \cup {"prepare"} ELSE failed
  /\ Goto(w, "enter")
  /\ UNCHANGED <<queue, state, request, group, exited, cursor, shared, log,
                 memtable, lastSequence, bg_error>>

EnterGroup(w) ==
  /\ pc[w] = "enter"
  /\ link_newer' = CreateMissingNewerLinks(newest_writer, link_newer)
  /\ \E g \in UNION {[1..n -> Writer] : n \in 1..Cardinality(Writer)} :
       /\ EnterAsBatchGroupLeader(w, link_newer', g)
       /\ group' = [group EXCEPT ![w] = g]
  /\ Goto(w, IF result[w] = "ok" THEN "log" ELSE "report")
  /\ UNCHANGED <<newest_writer, link_older, state, request, result, exited,
                 cursor, shared, db>>

\* Callbacks are asked, then the allowed batches go to the log as one record.
\* A failure leaves no record, or one that was not synced.
LogGroup(w) ==
  LET record == [seq |-> lastSequence + 1, batches |-> Allowed(group[w]),
                 synced |-> NeedLogSync(w)]
  IN
  /\ pc[w] = "log"
  /\ callbackFailed' = callbackFailed
       \cup {x \in Members(group[w]) : request[x].callback = "refuses"}
  /\ \/ /\ request[w].disableWAL
        /\ UNCHANGED <<log, result, failed>>
     \/ /\ ~request[w].disableWAL
        /\ log' = Append(log, record)
        /\ UNCHANGED <<result, failed>>
     \/ /\ ~request[w].disableWAL
        /\ MayFail("log")
        /\ log' \in {log, Append(log, [record EXCEPT !.synced = FALSE])}
        /\ result' = [result EXCEPT ![w] = "fail"]
        /\ failed' = failed \cup {"log"}
  /\ Goto(w, IF result'[w] = "fail" THEN "report"
             ELSE IF Parallel(w) THEN "launch" ELSE "apply")
  /\ UNCHANGED <<queue, state, request, group, exited, cursor, status,
                 parallel_group, running, pgStatus, sequence, memtable,
                 lastSequence, bg_error>>

-----------------------------------------------------------------------------
(***************************************************************************)
(* Applying the batches.                                                   *)
(***************************************************************************)
\* WriteImpl after the inserts: publish the sequence, and leave the group at
\* once unless the log has to be marked as synced first.
AfterApply(w) ==
  \/ /\ status'[w] = "ok"
     /\ lastSequence' = GroupSequence(w)
     /\ exited' = IF NeedLogSync(w) THEN exited ELSE exited \cup {w}
     /\ Goto(w, IF NeedLogSync(w) THEN "report" ELSE "unlink")
  \/ /\ status'[w] = "fail"
     /\ Goto(w, "report")
     /\ UNCHANGED <<lastSequence, exited>>

\* First sequence number of each member of the group of leader w.
Allotment(w) ==
  [x \in Members(group[w]) |->
     LET i == CHOOSE i \in DOMAIN group[w] : group[w][i] = x
     IN  lastSequence + 1 + Keys(Allowed(SubSeq(group[w], 1, i - 1)))]

\* The leader inserts the whole group, up to the first batch that fails.
InsertGroup(w) ==
  LET writers == group[w] IN
  /\ pc[w] = "apply"
  /\ \E n \in IF MayFail("insert") THEN 0..Len(writers) ELSE {Len(writers)} :
       LET done  == {writers[i] : i \in 1..n} \ callbackFailed
           short == n < Len(writers)
       IN  /\ short => writers[n + 1] \notin callbackFailed
           /\ memtable' = memtable \cup done
           /\ sequence' = [x \in Writer |-> IF x \in done THEN Allotment(w)[x]
                                            ELSE sequence[x]]
           /\ status' = IF short THEN [status EXCEPT ![writers[n + 1]] = "fail"]
                        ELSE status
           /\ result' = [result EXCEPT ![w] =
                           IF short THEN "fail" ELSE FinalStatus(w)]
           /\ failed' = IF short THEN failed \cup {"insert"} ELSE failed
  /\ AfterApply(w)
  /\ UNCHANGED <<queue, state, request, group, cursor, callbackFailed,
                 parallel_group, running, pgStatus, log, bg_error>>

\* LaunchParallelFollowers: the group's data is set, then the followers are
\* woken one at a time; cursor is the writer woken last.
LaunchFollowers(w) ==
  /\ pc[w] = "launch"
  /\ cursor[w] = Null
  /\ running' = [running EXCEPT ![w] = Len(group[w])]
  /\ parallel_group' = [parallel_group EXCEPT ![w] = w]
  /\ sequence' = [sequence EXCEPT ![w] = Allotment(w)[w]]
  /\ cursor' = [cursor EXCEPT ![w] = w]
  /\ UNCHANGED <<queue, state, request, pc, result, group, exited, status,
                 callbackFailed, pgStatus, db>>

\* (Faulty variant: a writer that will not write still gets an allotment.)
LaunchNextAllAllotted(w) ==
  LET next == link_newer[cursor[w]] IN
  /\ pc[w] = "launch"
  /\ cursor[w] # Null
  /\ sequence' = [sequence EXCEPT ![next] =
                     sequence[cursor[w]] + request[cursor[w]].count]
  /\ parallel_group' = [parallel_group EXCEPT ![next] = w]
  /\ state' = [state EXCEPT ![next] = "PARALLEL_FOLLOWER"]
  /\ cursor' = [cursor EXCEPT ![w] = IF next = LastWriter(w) THEN Null ELSE next]
  /\ Goto(w, IF next = LastWriter(w) THEN "insert" ELSE "launch")
  /\ UNCHANGED <<queue, request, result, group, exited, status, callbackFailed,
                 running, pgStatus, db>>

LaunchNext(w) ==
  LET at   == cursor[w]
      next == link_newer[at]
      last == next = LastWriter(w)
  IN
  /\ pc[w] = "launch"
  /\ at # Null
  /\ sequence' = [sequence EXCEPT ![next] = sequence[at] +
                     (IF at \in callbackFailed THEN 0 ELSE request[at].count)]
  /\ parallel_group' = [parallel_group EXCEPT ![next] = w]
  /\ state' = [state EXCEPT ![next] = "PARALLEL_FOLLOWER"]
  /\ cursor' = [cursor EXCEPT ![w] = IF last THEN Null ELSE next]
  /\ Goto(w, IF last THEN "insert" ELSE "launch")
  /\ UNCHANGED <<queue, request, result, group, exited, status, callbackFailed,
                 running, pgStatus, db>>

\* A thread that is to insert its own batch, in parallel with others.
Inserting(w) ==
  \/ pc[w] = "insert"
  \/ pc[w] = "joined" /\ state[w] = "PARALLEL_FOLLOWER"

\* A member of a parallel group inserts its batch; the first lines of
\* CompleteParallelWorker report a failure to the group.
InsertBatch(w) ==
  /\ Inserting(w)
  /\ \/ /\ w \in callbackFailed
        /\ UNCHANGED <<memtable, status, pgStatus, failed>>
     \/ /\ w \notin callbackFailed
        /\ memtable' = memtable \cup {w}
        /\ UNCHANGED <<status, pgStatus, failed>>
     \/ /\ w \notin callbackFailed
        /\ MayFail("insert")
        /\ status' = [status EXCEPT ![w] = "fail"]
        /\ pgStatus' = [pgStatus EXCEPT ![parallel_group[w]] = "fail"]
        /\ failed' = failed \cup {"insert"}
        /\ UNCHANGED memtable
  /\ Goto(w, "count")
  /\ UNCHANGED <<queue, state, request, result, group, exited, cursor,
                 callbackFailed, parallel_group, running, sequence, log,
                 lastSequence, bg_error>>

-----------------------------------------------------------------------------
(***************************************************************************)
(* CompleteParallelWorker.                                                 *)
(***************************************************************************)
Leader(w) == parallel_group[w]
EarlyExitAllowed(w) == ~NeedLogSync(Leader(w))

\* Not the last of the group: wait for STATE_COMPLETED.
CountDown(w) ==
  /\ pc[w] = "count"
  /\ running[Leader(w)] > 1
  /\ running' = [running EXCEPT ![Leader(w)] = @ - 1]
  /\ Goto(w, "wait")
  /\ UNCHANGED <<queue, state, request, result, group, exited, cursor, status,
                 callbackFailed, parallel_group, pgStatus, sequence, db>>

\* The leader is last: it takes the group's status and goes on to exit.
LastLeader(w) ==
  /\ pc[w] = "count"
  /\ running[Leader(w)] = 1
  /\ w = Leader(w)
  /\ status' = [status EXCEPT ![w] = pgStatus[w]]
  /\ result' = [result EXCEPT ![w] =
                  IF pgStatus[w] = "ok" THEN FinalStatus(w) ELSE "fail"]
  /\ AfterApply(w)
  /\ UNCHANGED <<queue, state, request, group, cursor, callbackFailed,
                 parallel_group, running, pgStatus, sequence, log, memtable,
                 bg_error, failed>>

\* A follower is last and exits for the leader: it publishes the sequence.
LastFollowerExits(w) ==
  /\ pc[w] = "count"
  /\ running[Leader(w)] = 1
  /\ w # Leader(w)
  /\ EarlyExitAllowed(w) /\ pgStatus[Leader(w)] = "ok"
  /\ lastSequence' = GroupSequence(Leader(w))
  /\ Goto(w, "unlink")
  /\ UNCHANGED <<queue, state, request, result, group, exited, cursor, shared,
                 log, memtable, bg_error, failed>>

\* A follower is last and wakes the leader to exit.
LastFollowerWakes(w) ==
  /\ pc[w] = "count"
  /\ running[Leader(w)] = 1
  /\ w # Leader(w)
  /\ ~(EarlyExitAllowed(w) /\ pgStatus[Leader(w)] = "ok")
  /\ state' = [state EXCEPT ![Leader(w)] = "COMPLETED"]
  /\ Goto(w, "wait")
  /\ UNCHANGED <<queue, request, result, group, exited, cursor, shared, db>>

\* The leader of a parallel group is woken: it exits, or learns that a
\* follower did.
LeaderWakes(w) ==
  /\ pc[w] = "wait"
  /\ w = Leader(w)
  /\ state[w] = "COMPLETED"
  /\ result' = [result EXCEPT ![w] = FinalStatus(w)]
  /\ \/ /\ ~(EarlyExitAllowed(w) /\ status[w] = "ok")
        /\ status' = status
        /\ AfterApply(w)
     \/ /\ EarlyExitAllowed(w) /\ status[w] = "ok"
        /\ exited' = exited \cup {w}
        /\ Goto(w, "report")
        /\ UNCHANGED <<status, lastSequence>>
  /\ UNCHANGED <<queue, state, request, group, cursor, callbackFailed,
                 parallel_group, running, pgStatus, sequence, log, memtable,
                 bg_error, failed>>

-----------------------------------------------------------------------------
(***************************************************************************)
(* Leaving the group: ExitAsBatchGroupLeader, by its leader or by the      *)
(* follower that finished last (EarlyExitParallelGroup).                   *)
(***************************************************************************)
Led(t) == IF group[t] # <<>> THEN t ELSE Leader(t)
ExitStatus(t) == IF t = Led(t) THEN status[t] ELSE pgStatus[Led(t)]

Unlink(t) ==
  /\ pc[t] = "unlink"
  /\ UnlinkGroup(LastWriter(Led(t)))
  /\ cursor' = [cursor EXCEPT ![t] = LastWriter(Led(t))]
  /\ Goto(t, "complete")
  /\ UNCHANGED <<request, result, group, exited, shared, db>>

\* (Faulty variant: the link is read after the writer may be gone.)
CompleteNextReadsLate(t) ==
  LET w == cursor[t] IN
  /\ pc[t] = "complete"
  /\ w # Led(t)
  /\ status' = [status EXCEPT ![w] = ExitStatus(t)]
  /\ IF state[w] = "COMPLETED"
     THEN cursor' = [cursor EXCEPT ![t] = link_older[w]] /\ UNCHANGED state
     ELSE state' = [state EXCEPT ![w] = "COMPLETED"] /\ UNCHANGED cursor
  /\ UNCHANGED <<queue, request, pc, result, group, exited, callbackFailed,
                 parallel_group, running, pgStatus, sequence, db>>

CompleteNext(t) ==
  LET w == cursor[t] IN
  /\ pc[t] = "complete"
  /\ w # Led(t)
  /\ status' = [status EXCEPT ![w] = ExitStatus(t)]
  /\ state' = [state EXCEPT ![w] = "COMPLETED"]
  /\ cursor' = [cursor EXCEPT ![t] = link_older[w]]
  /\ UNCHANGED <<queue, request, pc, result, group, exited, callbackFailed,
                 parallel_group, running, pgStatus, sequence, db>>

ExitDone(t) ==
  /\ pc[t] = "complete"
  /\ cursor[t] = Led(t)
  /\ cursor' = [cursor EXCEPT ![t] = Null]
  /\ \/ /\ t = Led(t)
        /\ Goto(t, IF t \in exited THEN "report" ELSE "done")
        /\ UNCHANGED <<state, result>>
     \/ /\ t # Led(t)
        /\ state' = [state EXCEPT ![Led(t)] = "COMPLETED"]
        /\ result' = [result EXCEPT ![t] = FinalStatus(t)]
        /\ Goto(t, "done")
  /\ UNCHANGED <<queue, request, group, exited, shared, db>>

\* End of WriteImpl for a leader: a failure stops further writes.
Report(w) ==
  /\ pc[w] = "report"
  /\ bg_error' = (bg_error \/ (result[w] = "fail" /\ w \notin callbackFailed))
  /\ Goto(w, IF w \in exited THEN "done" ELSE "unlink")
  /\ UNCHANGED <<queue, state, request, result, group, exited, cursor, shared,
                 log, memtable, lastSequence, failed>>

\* A follower returns once its write is completed.
FollowerReturns(w) ==
  /\ pc[w] = "joined" \/ (pc[w] = "wait" /\ w # Leader(w))
  /\ state[w] = "COMPLETED"
  /\ result' = [result EXCEPT ![w] = FinalStatus(w)]
  /\ Goto(w, "done")
  /\ UNCHANGED <<queue, state, request, group, exited, cursor, shared, db>>

Step(w) ==
  \/ JoinBatchGroup(w) \/ Unbatched(w) \/ Prepare(w) \/ EnterGroup(w)
  \/ LogGroup(w) \/ InsertGroup(w) \/ LaunchFollowers(w) \/ LaunchNext(w)
  \/ InsertBatch(w) \/ CountDown(w) \/ LastLeader(w) \/ LastFollowerExits(w)
  \/ LastFollowerWakes(w) \/ LeaderWakes(w) \/ Unlink(w) \/ CompleteNext(w)
  \/ ExitDone(w) \/ Report(w) \/ FollowerReturns(w)

\* All writers have returned.
Terminated == (\A w \in Writer : pc[w] = "done") /\ UNCHANGED vars

Next == (\E w \in Writer : Step(w)) \/ Terminated

\* Threads are scheduled fairly, and a thread that waits spins or is notified.
Spec == Init /\ [][Next]_vars /\ \A w \in Writer : WF_vars(Step(w))

-----------------------------------------------------------------------------
\* No thread touches the Writer or the ParallelGroup of a call that returned:
\* the queue holds waiting writers only (until an insert fails, see
\* EveryWriteReturns), and so do the groups being launched, counted down or
\* completed.
NoDanglingWriter ==
  /\ "insert" \notin failed => \A w \in Queued : pc[w] # "done"
  /\ \A t \in Writer :
       /\ pc[t] \in {"launch", "complete"} /\ cursor[t] # Null
            => pc[cursor[t]] # "done" /\ pc[Led(t)] # "done"
       /\ pc[t] \in {"insert", "count", "unlink", "complete"}
            => pc[Led(t)] # "done"

\* The lazily made links point back along link_older, as the assertions in
\* CreateMissingNewerLinks and ExitAsBatchGroupLeader say, and the leader is
\* the last writer on the list.
LinksAgree ==
  \A w \in Queued :
    /\ link_older[w] # Null => link_newer[link_older[w]] \in {Null, w}
    /\ link_older[w] = Null => state[w] \in {"GROUP_LEADER", "COMPLETED"}

\* Exclusive use of the write path: a thread with the queue to itself (logging,
\* inserting a whole group, or unbatched) never meets another that writes, and
\* threads that insert at the same time are of one group and have no merges.
Alone(w) ==
  \/ pc[w] \in {"enter", "log", "apply", "launch"}
  \/ pc[w] = "unlink" /\ ~request[w].batch
ExclusiveWriters ==
  \A w, x \in Writer : w # x =>
    /\ ~(Alone(w) /\ Alone(x))
    /\ Alone(w) /\ Inserting(x) => parallel_group[x] = w
    /\ Inserting(w) /\ Inserting(x) =>
         /\ parallel_group[w] = parallel_group[x]
         /\ w \in callbackFailed \/ ~request[w].merge
    /\ Inserting(w) => request[w].batch

\* A write that returned OK is in the memtable and, unless its caller disabled
\* the log, in a record that was synced if the caller asked for it.  Followers
\* of a leader whose log write failed are answered with the status of inserts,
\* so for them it is so only as long as nothing has failed.
WrittenToLog(w) ==
  \E i \in DOMAIN log : /\ w \in Members(log[i].batches)
                        /\ request[w].sync => log[i].synced
OkMeansWritten ==
  \A w \in Writer :
    /\ pc[w] = "done" /\ request[w].batch /\ result[w] = "ok"
    /\ group[w] # <<>> \/ failed = {}
    => /\ w \in memtable
       /\ request[w].disableWAL \/ WrittenToLog(w)

\* Replaying the log gives every batch the sequence numbers it has in the
\* memtable.
ReplayAgrees ==
  \A i \in DOMAIN log : \A j \in DOMAIN log[i].batches :
    LET w == log[i].batches[j] IN
    w \in memtable =>
      sequence[w] = log[i].seq + Keys(SubSeq(log[i].batches, 1, j - 1))

\* Sequence numbers readers may use are taken by exactly one batch, and that
\* batch is entirely in the memtable, as long as no insert has failed.
PublishedApplied ==
  "insert" \notin failed => \A s \in 1..lastSequence :
    \E w \in memtable : /\ s \in sequence[w]..(sequence[w] + request[w].count - 1)
                        /\ \A x \in memtable \ {w} :
                             s \notin sequence[x]..(sequence[x] + request[x].count - 1)

\* Every Write returns, unless an insert failed: then the leader of a parallel
\* group may take its own status for the group's and leave the others waiting.
EveryWriteReturns ==
  \A w \in Writer : <>(pc[w] = "done" \/ "insert" \in failed)

=============================================================================
