----------------------------- MODULE WriteData -----------------------------
(***************************************************************************)
(* The inductive invariant of WriteImpl on what is written: which writers  *)
(* are in the log and in the memtable by where their threads are.  Module  *)
(* WriteGroups has the part on which threads may be where.                 *)
(***************************************************************************)
EXTENDS WriteTypes

Refuses(x) == request[x].callback = "refuses"
Logged(x) == Refuses(x) \/ request[x].disableWAL \/ WrittenToLog(x)
Applied(x) == Refuses(x) \/ x \in memtable
Asked(x) == Refuses(x) => x \in callbackFailed
Written(x) == Logged(x) /\ Applied(x) /\ Asked(x)

Record == [seq : Nat, batches : Seq(Writer), synced : BOOLEAN]
DataTypes ==
  /\ result \in [Writer -> Status]
  /\ log \in Seq(Record)
  /\ \A x \in Writer : x \in callbackFailed => Refuses(x)

Numbers ==
  /\ lastSequence \in Nat
  /\ sequence \in [Writer -> Nat]
  /\ \A x \in Writer : request[x].count \in Nat

\* Who leads a group, and who may be in it.
Leads(x) ==
  /\ pc[x] \in {"start", "joined", "enter"} => group[x] = <<>>
  /\ pc[x] \in {"log", "apply", "launch", "insert", "report"} => group[x] # <<>>
  /\ pc[x] \in {"count", "wait"} /\ group[x] # <<>> => parallel_group[x] = x
  /\ parallel_group[x] # Null => group[parallel_group[x]] # <<>>
  /\ pc[x] \in {"unlink", "complete"} => group[x] # <<>> \/ parallel_group[x] # Null
  /\ pc[x] = "enter" => request[x].batch
  /\ pc[x] = "log" => result[x] = "ok"
Joined(l) ==
  \A x \in Members(group[l]) : x # l =>
    /\ request[x].batch /\ request[l].batch
    /\ request[x].sync => request[l].sync
    /\ request[l].disableWAL => request[x].disableWAL

\* The leader of a group that is being applied has logged it.
GroupLogged(l) ==
  group[l] # <<>> /\ pc[l] \in {"apply", "launch", "insert", "count", "wait"} =>
    \A x \in Members(group[l]) : Logged(x) /\ Asked(x)

LeaderWritten(l) ==
  group[l] # <<>> /\ request[l].batch =>
    /\ pc[l] \in {"count", "wait"} /\ status[l] = "ok" => Applied(l)
    /\ pc[l] \in {"report", "unlink", "complete", "done"} /\ result[l] = "ok" =>
         Written(l) /\ ~Refuses(l)

\* As long as nothing has failed.
Healthy(x) ==
  /\ status[x] = "ok" /\ pgStatus[x] = "ok"
  /\ pc[x] = "enter" => result[x] = "ok"
  /\ result[x] = "fail" => x \in callbackFailed
Finishing(t) ==
  \/ pc[t] \in {"report", "unlink", "complete"}
  \/ pc[t] = "wait" /\ group[t] # <<>> /\ state[t] = "COMPLETED"
GroupWritten(t) ==
  Finishing(t) /\ request[Led(t)].batch =>
    \A x \in Members(group[Led(t)]) : Written(x)
FollowerWritten(x) ==
  /\ parallel_group[x] # Null /\ pc[x] \in {"count", "wait"} => Applied(x)
  /\ request[x].batch /\ state[x] = "COMPLETED" /\ pc[x] \in {"joined", "wait"} => Written(x)
  /\ request[x].batch /\ pc[x] = "done" /\ result[x] = "ok" => Written(x) /\ ~Refuses(x)

\* What the invariant of WriteGroups says of the variables alone.
GroupPlaces ==
  /\ \A l \in Writer : group[l] # <<>> => group[l][1] = l /\ l \in Members(group[l])
  /\ \A l \in Writer : Members(group[l]) \subseteq Writer
  /\ \A l, x \in Writer : x \in Members(group[l]) /\ x # l => group[x] = <<>>
  /\ \A l, k, x \in Writer :
       x \in Members(group[l]) /\ x \in Members(group[k]) => l = k
StartPlaces == \A x \in Writer : pc[x] = "start" => Fresh(x)
ParallelPlaces ==
  \A x \in Writer : pc[x] = "count" \/ Inserting(x) =>
    /\ parallel_group[x] \in Writer /\ state[x] # "COMPLETED"
    /\ x \in Members(group[parallel_group[x]])
    /\ parallel_group[parallel_group[x]] = parallel_group[x]
    /\ pc[x] = "insert" => parallel_group[x] = x
LaunchPlaces ==
  \A w \in Writer : pc[w] = "launch" /\ cursor[w] # Null =>
    LET next == link_newer[cursor[w]] IN
    /\ next \in Members(group[w]) /\ next \in Writer /\ next # w
    /\ pc[next] = "joined" /\ parallel_group[w] = w
LastPlaces ==
  \A w \in Writer : pc[w] = "count" /\ running[Leader(w)] = 1 =>
    \A y \in Members(group[Leader(w)]) :
      parallel_group[y] = Leader(w) /\ (y # w => pc[y] = "wait")
ExitPlaces ==
  \A t \in Writer : pc[t] = "complete" =>
    /\ Led(t) \in Writer
    /\ t \in Members(group[Led(t)]) /\ cursor[t] \in Members(group[Led(t)])
    /\ cursor[t] # Led(t) => cursor[t] = t \/ pc[cursor[t]] \in {"joined", "wait"}
    /\ t # Led(t) => pc[Led(t)] = "wait" /\ group[t] = <<>>
Places ==
  /\ Types /\ GroupPlaces /\ StartPlaces /\ ParallelPlaces /\ LaunchPlaces
  /\ LastPlaces /\ ExitPlaces

DataAt(x) == Leads(x) /\ Joined(x) /\ GroupLogged(x) /\ LeaderWritten(x)
HealthyAt(x) == Healthy(x) /\ GroupWritten(x) /\ FollowerWritten(x)

DataInv ==
  /\ DataTypes
  /\ \A x \in Writer : DataAt(x)
  /\ failed = {} => ~bg_error /\ \A x \in Writer : HealthyAt(x)
=============================================================================
