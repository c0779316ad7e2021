---------------------------- MODULE WriteGroups ----------------------------
(***************************************************************************)
(* The inductive invariant of WriteImpl: how the list of pending writers,  *)
(* the batch groups and the program counters of the threads belong         *)
(* together.  It is stated over three quantities that no variable holds:   *)
(*   s   the writers on the list, oldest first (Q is their set and h the   *)
(*       first of them, who leads, or Null);                               *)
(*   M   the pairs <<x, l>> such that x is in the group of leader l, of    *)
(*       the group that is being written or of one that has left the list. *)
(* Modules WriteGroupProofs and WriteImplProofs prove that steps keep it.  *)
(***************************************************************************)
EXTENDS WriteTypes

\* The list of pending writers, oldest first, as the pointers represent it:
\* the links that are still missing are those of the newest writers.
Shape(s) ==
  /\ \A i, j \in 1..Len(s) : s[i] = s[j] => i = j
  /\ newest_writer = IF s = <<>> THEN Null ELSE s[Len(s)]
  /\ \A i \in 1..Len(s) : link_older[s[i]] = IF i = 1 THEN Null ELSE s[i - 1]
  /\ \A i \in 1..Len(s) :
       link_newer[s[i]] = Null \/ (i < Len(s) /\ link_newer[s[i]] = s[i + 1])
  /\ \A i, j \in 1..Len(s) :
       i < j /\ link_newer[s[j]] # Null => link_newer[s[i]] # Null

OnList(s) == {s[i] : i \in 1..Len(s)}
Lead(s) == IF s = <<>> THEN Null ELSE s[1]
Ends(Q, h) == Q \subseteq Writer /\ (h \in Q \/ (h = Null /\ Q = {}))

\* The leader's group is the front of the list.
Fronts(s) ==
  s # <<>> => /\ Len(group[s[1]]) <= Len(s)
              /\ \A i \in 1..Len(group[s[1]]) : group[s[1]][i] = s[i]

\* Groups are disjoint and keep their links; only the first writer's is on the
\* list.
Grouped(Q, h, M) ==
  /\ M \subseteq Writer \X Writer
  /\ \A x, l \in Writer : <<x, l>> \in M <=> \E i \in 1..Len(group[l]) : group[l][i] = x
  /\ \A l \in Writer : group[l] # <<>> => group[l][1] = l
  /\ \A l \in Writer : \A i, j \in 1..Len(group[l]) : group[l][i] = group[l][j] => i = j
  /\ \A l \in Writer : \A i \in 1..(Len(group[l]) - 1) :
         /\ link_newer[group[l][i]] = group[l][i + 1]
         /\ link_older[group[l][i + 1]] = group[l][i]
  /\ \A l, k, x \in Writer : <<x, l>> \in M /\ <<x, k>> \in M => l = k
  /\ \A l, x \in Writer : <<x, l>> \in M => (x \in Q <=> l = h)

-----------------------------------------------------------------------------
(***************************************************************************)
(* Where a thread may be, by the role of its writer.                       *)
(***************************************************************************)
Starting(x, Q, M) ==
  pc[x] = "start" =>
    /\ x \notin Q /\ Fresh(x)
    /\ link_newer[x] = Null
    /\ \A l \in Writer : <<x, l>> \notin M

\* On the list behind the group.
Waiting(x, Q, h, M) ==
  x \in Q /\ x # h /\ <<x, h>> \notin M => pc[x] = "joined" /\ Fresh(x)

\* First on the list: alone, with a group that is not parallel, with a
\* parallel one, or woken by the last of its followers.
Leading(x) ==
  /\ \/ /\ pc[x] \in {"joined", "enter"}
        /\ state[x] = "GROUP_LEADER" /\ group[x] = <<>>
        /\ parallel_group[x] = Null
     \/ /\ pc[x] \in {"log", "apply", "launch", "report", "unlink"}
        /\ state[x] = "GROUP_LEADER" /\ group[x] # <<>>
        /\ parallel_group[x] = Null
     \/ /\ pc[x] \in {"launch", "insert", "count", "wait", "report", "unlink"}
        /\ state[x] = "GROUP_LEADER" /\ group[x] # <<>>
        /\ parallel_group[x] = x
     \/ /\ pc[x] \in {"wait", "report", "unlink", "done"}
        /\ state[x] = "COMPLETED" /\ group[x] # <<>>
        /\ parallel_group[x] = x
        /\ NeedLogSync(x) \/ pgStatus[x] = "fail"
  /\ pc[x] \notin {"unlink", "report", "done"} => x \notin exited
  /\ pc[x] = "report" /\ x \in exited => "insert" \in failed /\ state[x] = "COMPLETED"
  /\ pc[x] = "done" => "insert" \in failed
  /\ pc[x] \in {"joined", "enter", "log", "apply", "launch", "insert"} => status[x] = "ok"
  /\ pc[x] \in {"count", "wait"} /\ pgStatus[x] = "ok" => status[x] = "ok"
  /\ pc[x] \in {"joined", "enter", "log"} => cursor[x] = Null

\* In the group of the first writer, not launched yet or in parallel with it;
\* one that unlinks the group was the last.
Following(x, h, M) ==
  /\ group[x] = <<>>
  /\ \/ /\ parallel_group[x] = Null
        /\ pc[x] = "joined" /\ state[x] = "INIT"
        /\ parallel_group[h] = Null \/ pc[h] = "launch"
     \/ /\ parallel_group[x] = h /\ parallel_group[h] = h
        /\ state[x] = "PARALLEL_FOLLOWER"
        /\ pc[x] \in {"joined", "count", "wait", "unlink"}
        /\ pc[x] # "wait" => /\ pc[h] \in {"launch", "insert", "count", "wait"}
                             /\ state[h] = "GROUP_LEADER"
  /\ pc[x] = "unlink" =>
       /\ pc[h] = "wait"
       /\ ~NeedLogSync(h) /\ pgStatus[h] = "ok"
       /\ \A y \in Writer : <<y, h>> \in M /\ y # x => pc[y] = "wait"

\* Not on the list: not started, or of a group that has left it.
Gone(x) ==
  /\ pc[x] \in {"start", "joined", "wait", "complete", "report", "done"}
  /\ pc[x] = "joined" => state[x] \in {"INIT", "COMPLETED"}
  /\ pc[x] = "report" => x \in exited
  /\ pc[x] = "wait" /\ parallel_group[x] = x => ~NeedLogSync(x) /\ status[x] = "ok"

Role(x, Q, h, M) ==
  /\ Starting(x, Q, M)
  /\ Waiting(x, Q, h, M)
  /\ x = h => Leading(x)
  /\ x # h /\ <<x, h>> \in M => Following(x, h, M)
  /\ x \notin Q => Gone(x)
  /\ pgStatus[x] = "fail" => "insert" \in failed
  /\ parallel_group[x] = x => group[x] # <<>>

-----------------------------------------------------------------------------
(***************************************************************************)
(* Counters and cursors.                                                   *)
(***************************************************************************)
\* n is the number of elements of S.
Counts(n, S) ==
  \E q \in [1..n -> S] : /\ \A i, j \in 1..n : q[i] = q[j] => i = j
                         /\ \A x \in S : \E i \in 1..n : q[i] = x

\* ParallelGroup::running is the number of writers that have yet to count down.
Pending(h, M) ==
  {x \in Writer : <<x, h>> \in M /\ pc[x] \in {"joined", "launch", "insert", "count"}}
Counting(h, M) ==
  h \in Writer /\ parallel_group[h] = h /\ Pending(h, M) # {} =>
     Counts(running[h], Pending(h, M))

\* The followers up to the launching leader's cursor are launched.
Launching(h) ==
  h \in Writer /\ pc[h] = "launch" =>
    /\ Len(group[h]) > 1
    /\ parallel_group[h] = Null => cursor[h] = Null
    /\ parallel_group[h] = h =>
         \E c \in 1..(Len(group[h]) - 1) :
           /\ cursor[h] = group[h][c]
           /\ \A i \in 1..Len(group[h]) :
                parallel_group[group[h][i]] = IF i <= c THEN h ELSE Null

\* A thread that completes a group has the writers up to its cursor ahead of
\* it; they wait, and so does the leader it exits for.
ToComplete(t, y) ==
  (y = t \/ pc[y] \in {"joined", "wait"}) /\ state[y] \in {"INIT", "PARALLEL_FOLLOWER"}
Exits(t, Q, M) ==
  /\ Led(t) \in Writer \ Q
  /\ <<t, Led(t)>> \in M
  /\ \E c \in 1..Len(group[Led(t)]) :
       /\ cursor[t] = group[Led(t)][c]
       /\ \A i \in 2..c : ToComplete(t, group[Led(t)][i])
  /\ t # Led(t) =>
       /\ pc[Led(t)] = "wait" /\ state[Led(t)] = "GROUP_LEADER"
       /\ parallel_group[Led(t)] = Led(t)
  /\ \A u \in Writer : pc[u] = "complete" /\ Led(u) = Led(t) => u = t
Exiting(Q, M) == \A t \in Writer : pc[t] = "complete" => Exits(t, Q, M)

Core(Q, h, M) ==
  /\ Grouped(Q, h, M)
  /\ \A x \in Writer : Role(x, Q, h, M)
  /\ Counting(h, M)
  /\ Launching(h)
  /\ Exiting(Q, M)

\* Unbatched writers have no group but themselves, and parallel groups no
\* merges.
Batching == {"enter", "log", "apply", "launch", "insert"}
Batched(h, M) ==
  /\ \A x \in Writer : <<x, h>> \in M /\ x # h => request[x].batch
  /\ h \in Writer /\ pc[h] \in Batching => request[h].batch
  /\ h \in Writer /\ (pc[h] = "launch" \/ parallel_group[h] = h) =>
       \A x \in Writer : <<x, h>> \in M => x \in callbackFailed \/ ~request[x].merge

Listed(s, M) ==
  /\ Shape(s) /\ Fronts(s)
  /\ Core(OnList(s), Lead(s), M)
  /\ Batched(Lead(s), M)

WriteInv == Types /\ \E s \in Seq(Writer) : \E M : Listed(s, M)
=============================================================================
