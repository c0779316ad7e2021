-------------------------- MODULE WriteGroupProofs --------------------------
(***************************************************************************)
(* Lemmas on the invariant of module WriteGroups: what each step of        *)
(* WriteImpl does to the roles of the writers, the groups, the count of    *)
(* those still inserting and the threads that complete a group, given the  *)
(* set of the writers on the list and the first of them.                   *)
(***************************************************************************)
EXTENDS WriteGroups, TLAPS

\* One element fewer, and the last one.
LEMMA OneFewer ==
  ASSUME NEW n \in Nat, NEW S, Counts(n, S), NEW w \in S
  PROVE  /\ n - 1 \in Nat /\ Counts(n - 1, S \ {w})
         /\ n = 1 => S = {w}
<1>1. PICK q \in [1..n -> S] : /\ \A i, j \in 1..n : q[i] = q[j] => i = j
                               /\ \A x \in S : \E i \in 1..n : q[i] = x
  BY Zenon DEF Counts
<1>2. PICK k \in 1..n : q[k] = w
  BY <1>1, Zenon
<1>3. n - 1 \in Nat /\ n \in 1..n /\ \A i \in 1..(n - 1) : i \in 1..n /\ i # n
  BY <1>2
<1>4. n = 1 => S = {w}
  BY <1>1, <1>2
<1> DEFINE r == [i \in 1..(n - 1) |-> IF i = k THEN q[n] ELSE q[i]]
<1>5. ASSUME NEW i \in 1..(n - 1) PROVE r[i] \in S \ {w}
  BY <1>1, <1>2, <1>3, Zenon
<1>6. ASSUME NEW i \in 1..(n - 1), NEW j \in 1..(n - 1), r[i] = r[j] PROVE i = j
  BY <1>1, <1>2, <1>3, <1>6, Zenon
<1>7. ASSUME NEW x \in S \ {w} PROVE \E i \in 1..(n - 1) : r[i] = x
  <2>1. PICK j \in 1..n : q[j] = x
    BY <1>1, Zenon
  <2>2. j # k
    BY <1>2, <2>1, Zenon
  <2>3. CASE j = n
    <3>1. k \in 1..(n - 1)
      BY <1>3, <2>2, <2>3
    <3> QED BY <2>1, <2>3, <3>1, Zenon
  <2>4. CASE j # n
    <3>1. j \in 1..(n - 1)
      BY <1>3, <2>4
    <3> QED BY <2>1, <2>2, <3>1, Zenon
  <2> QED BY <2>3, <2>4, Zenon
<1>8. r \in [1..(n - 1) -> S \ {w}]
  BY <1>5, Zenon
<1> HIDE DEF r
<1>9. Counts(n - 1, S \ {w})
  BY <1>6, <1>7, <1>8, Zenon DEF Counts
<1> QED BY <1>3, <1>4, <1>9, Zenon

\* A sequence without repetitions counts its elements.
LEMMA SequenceCounts ==
  ASSUME NEW g \in Seq(Writer), \A i, j \in 1..Len(g) : g[i] = g[j] => i = j,
         NEW S, S \subseteq Writer, \A x \in Writer : x \in S <=> \E i \in 1..Len(g) : g[i] = x
  PROVE  Counts(Len(g), S)
<1>1. Len(g) \in Nat /\ g \in [1..Len(g) -> Writer]
  OBVIOUS
<1>2. \A i \in 1..Len(g) : g[i] \in S
  BY <1>1, Zenon
<1>3. g \in [1..Len(g) -> S]
  BY <1>1, <1>2, Zenon
<1> QED BY <1>3, Zenon DEF Counts

\* A step that changes neither groups nor links leaves the groups as they are.
LEMMA GroupedSame ==
  ASSUME NEW Q, NEW h, NEW M, Grouped(Q, h, M),
         UNCHANGED <<group, link_newer, link_older>>
  PROVE  Grouped(Q, h, M)'
BY DEF Grouped

\* A step that does not touch what the role of writer x depends on.
Same(x) ==
  /\ pc'[x] = pc[x] /\ state'[x] = state[x] /\ group'[x] = group[x]
  /\ parallel_group'[x] = parallel_group[x] /\ status'[x] = status[x]
  /\ cursor'[x] = cursor[x] /\ pgStatus'[x] = pgStatus[x]
  /\ link_newer'[x] = link_newer[x]
  /\ x \in exited' <=> x \in exited
  /\ request' = request
  /\ "insert" \in failed => "insert" \in failed'

\* Such a step leaves x its role, if followers stay followers.
LEMMA RoleSame ==
  ASSUME NEW Q, NEW h, NEW M, NEW x \in Writer, Role(x, Q, h, M), Same(x),
         x # h /\ <<x, h>> \in M => Following(x, h, M)'
  PROVE  Role(x, Q, h, M)'
<1>1. Starting(x, Q, M)' /\ Waiting(x, Q, h, M)'
  BY Zenon DEF Role, Same, Starting, Waiting, Fresh
<1>2. Gone(x) => Gone(x)'
  BY Zenon DEF Same, Gone, NeedLogSync
<1>3. Leading(x) => Leading(x)'
  BY Zenon DEF Same, Leading, NeedLogSync
<1> QED BY <1>1, <1>2, <1>3, Zenon DEF Role, Same

\* A follower that the step does not touch follows as long as the first writer is
\* where its followers need it.
LEMMA FollowingSame ==
  ASSUME NEW h \in Writer, NEW M, NEW x \in Writer, Following(x, h, M), Same(x),
         pc[x] # "unlink",
         parallel_group'[h] = parallel_group[h], state'[h] = state[h],
         parallel_group[x] = Null => parallel_group[h] = Null \/ pc'[h] = "launch",
         parallel_group[x] # Null /\ pc[x] # "wait"
           => pc'[h] \in {"launch", "insert", "count", "wait"}
  PROVE  Following(x, h, M)'
<1>1. CASE parallel_group[x] = Null
  BY <1>1, WriterAssumption, Zenon DEF Following, Same
<1>2. CASE parallel_group[x] # Null
  BY <1>2, Zenon DEF Following, Same
<1> QED BY <1>1, <1>2, Zenon

\* The role of the first writer, and of a writer in its group, after a step.
LEMMA RoleFirst ==
  ASSUME NEW Q, NEW h \in Writer, NEW M, h \in Q, pc'[h] # "start", Leading(h)',
         pgStatus'[h] = "fail" => "insert" \in failed'
  PROVE  Role(h, Q, h, M)'
<1>1. parallel_group'[h] = h => group'[h] # <<>>
  BY WriterAssumption, Zenon DEF Leading
<1> QED BY <1>1, Zenon DEF Role, Starting, Waiting

\* The role of a follower after a step.
LEMMA RoleMember ==
  ASSUME NEW Q, NEW h \in Writer, NEW M, NEW x \in Writer, x \in Q, x # h,
         <<x, h>> \in M, pc'[x] # "start", Following(x, h, M)',
         pgStatus'[x] = "fail" => "insert" \in failed'
  PROVE  Role(x, Q, h, M)'
<1>1. parallel_group'[x] # x
  BY WriterAssumption, Zenon DEF Following
<1> QED BY <1>1, Zenon DEF Role, Starting, Waiting

\* A writer that exits, and those of its group, are off the list.
LEMMA OffList ==
  ASSUME Types, NEW Q, NEW h, NEW M, Ends(Q, h), Grouped(Q, h, M),
         NEW l \in Writer \ Q
  PROVE  /\ \A x \in Writer : <<x, l>> \in M => x \notin Q
         /\ \A i \in 1..Len(group[l]) :
              group[l][i] \in Writer \ Q /\ <<group[l][i], l>> \in M
<1>1. l # h
  BY WriterAssumption, Zenon DEF Ends
<1>2. \A x \in Writer : <<x, l>> \in M => x \notin Q
  BY <1>1, Zenon DEF Grouped
<1>3. \A i \in 1..Len(group[l]) : group[l][i] \in Writer /\ <<group[l][i], l>> \in M
  BY SMTT(30) DEF Types, Grouped
<1> QED BY <1>2, <1>3, Zenon

\* A step of writers on the list does not disturb the threads that exit.
LEMMA ExitingFrame ==
  ASSUME Types, NEW Q, NEW h, NEW M, Ends(Q, h), Core(Q, h, M),
         group' = group,
         \A x \in Writer \ Q : /\ pc'[x] = pc[x] /\ state'[x] = state[x]
                               /\ cursor'[x] = cursor[x]
                               /\ parallel_group'[x] = parallel_group[x],
         \A x \in Q : pc'[x] # "complete"
  PROVE  Exiting(Q, M)'
<1>1. ASSUME NEW u \in Writer, pc'[u] = "complete"
      PROVE  u \notin Q /\ pc[u] = "complete" /\ Led(u)' = Led(u)
  BY <1>1, Zenon DEF Led, Leader
<1>2. SUFFICES ASSUME NEW t \in Writer, pc'[t] = "complete"
               PROVE  Exits(t, Q, M)'
  BY Zenon DEF Exiting
<1>3. t \notin Q /\ pc[t] = "complete" /\ Led(t)' = Led(t)
  BY <1>1, <1>2, Zenon
<1>4. Exits(t, Q, M)
  BY <1>3, Zenon DEF Core, Exiting
<1> DEFINE l == Led(t)
<1>5. l \in Writer \ Q /\ <<t, l>> \in M
  BY <1>4, Zenon DEF Exits
<1>6. PICK c \in 1..Len(group[l]) :
        cursor[t] = group[l][c] /\ \A i \in 2..c : ToComplete(t, group[l][i])
  BY <1>4, Zenon DEF Exits
<1>7. ASSUME NEW i \in 2..c PROVE ToComplete(t, group[l][i])'
  <2>1. i \in 1..Len(group[l]) /\ group[l][i] \in Writer \ Q
    <3>1. i \in 1..Len(group[l])
      BY <1>5, <1>6 DEF Types
    <3> QED BY <1>5, <3>1, OffList, Zenon DEF Core
  <2>2. ToComplete(t, group[l][i])
    BY <1>6, Zenon
  <2>3. Led(t)' = l
    BY <1>3, Zenon
  <2> QED BY <2>1, <2>2, <2>3, Zenon DEF ToComplete
<1>8. cursor'[t] = group[l][c]
  BY <1>3, <1>6, Zenon
<1>9. t # l => pc'[l] = "wait" /\ state'[l] = "GROUP_LEADER" /\ parallel_group'[l] = l
  BY <1>4, <1>5, Zenon DEF Exits
<1>10. \A u \in Writer : pc'[u] = "complete" /\ Led(u)' = l => u = t
  BY <1>1, <1>4 DEF Exits
<1> HIDE DEF l
<1> QED BY <1>3, <1>5, <1>6, <1>7, <1>8, <1>9, <1>10, Zenon DEF Exits, l

\* A step of a writer on the list that leaves the others alone does not
\* disturb the groups that exit.
LEMMA OnListExiting ==
  ASSUME Types, NEW Q, NEW h, NEW M, Ends(Q, h), Core(Q, h, M),
         NEW w \in Q, NEW label, label # "complete",
         pc' = [pc EXCEPT ![w] = label], group' = group,
         \A x \in Writer \ Q : /\ state'[x] = state[x]
                               /\ cursor'[x] = cursor[x]
                               /\ parallel_group'[x] = parallel_group[x]
  PROVE  Exiting(Q, M)'
<1>1. \A x \in Writer : x # w => pc'[x] = pc[x]
  BY Zenon DEF Types
<1>2. \A x \in Q : pc[x] # "complete"
  BY WriterAssumption, Zenon DEF Ends, Core, Role, Waiting, Leading, Following
<1>3. \A x \in Q : pc'[x] # "complete"
  BY <1>1, <1>2, Zenon DEF Types, Ends
<1> QED BY <1>1, <1>3, ExitingFrame, Zenon

\* A step that brings no writer past its countdown keeps the count right.
LEMMA CountingSame ==
  ASSUME NEW h, NEW M, Counting(h, M), running' = running,
         parallel_group'[h] = parallel_group[h],
         \A x \in Writer : <<x, h>> \in M =>
           (pc'[x] \in {"joined", "launch", "insert", "count"}
              <=> pc[x] \in {"joined", "launch", "insert", "count"})
  PROVE  Counting(h, M)'
<1>1. Pending(h, M)' = Pending(h, M)
  BY Zenon DEF Pending
<1> QED BY <1>1, Zenon DEF Counting

\* The roles after a step that concerns the first writer and its group.
LEMMA GroupRoles ==
  ASSUME NEW Q, NEW h \in Writer, NEW M, h \in Q, Core(Q, h, M),
         pc'[h] # "start", Leading(h)',
         \A x \in Writer : x # h /\ <<x, h>> \in M => pc'[x] # "start" /\ Following(x, h, M)',
         \A x \in Writer : x # h /\ <<x, h>> \notin M => Same(x),
         \A x \in Writer : pgStatus'[x] = "fail" => "insert" \in failed'
  PROVE  \A x \in Writer : Role(x, Q, h, M)'
<1>1. TAKE x \in Writer
<1>2. CASE x = h
  BY <1>2, RoleFirst, Zenon
<1>3. CASE x # h /\ <<x, h>> \in M
  <2>1. x \in Q
    BY <1>3, Zenon DEF Core, Grouped
  <2> QED BY <1>3, <2>1, RoleMember, Zenon
<1>4. CASE x # h /\ <<x, h>> \notin M
  <2>1. Role(x, Q, h, M)
    BY Zenon DEF Core
  <2> QED BY <1>4, <2>1, RoleSame, Zenon
<1> QED BY <1>2, <1>3, <1>4, Zenon

\* The followers of a leader that has not launched them have not moved.
LEMMA NotLaunched ==
  ASSUME NEW Q, NEW h \in Writer, NEW M, Core(Q, h, M), parallel_group[h] = Null,
         NEW x \in Writer, x # h, <<x, h>> \in M
  PROVE  /\ Following(x, h, M)
         /\ group[x] = <<>> /\ parallel_group[x] = Null
         /\ pc[x] = "joined" /\ state[x] = "INIT"
<1>1. Following(x, h, M)
  BY Zenon DEF Core, Role
<1>2. parallel_group[x] # h \/ parallel_group[h] # h
  BY WriterAssumption, Zenon
<1> QED BY <1>1, <1>2, Zenon DEF Following

\* A step of a leader that has not launched its followers.
LEMMA LeaderStep ==
  ASSUME Types, NEW Q, NEW h \in Writer, NEW M, Ends(Q, h), Core(Q, h, M), h \in Q,
         parallel_group[h] = Null, NEW label, pc' = [pc EXCEPT ![h] = label],
         label \notin {"start", "complete"},
         UNCHANGED <<queue, state, request, group, cursor, parallel_group, pgStatus, running>>,
         \A x \in Writer : <<x, h>> \notin M => status'[x] = status[x],
         \A x \in Writer : x # h => (x \in exited' <=> x \in exited),
         "insert" \in failed => "insert" \in failed',
         Leading(h)', Launching(h)'
  PROVE  Core(Q, h, M)'
<1>1. pc'[h] = label /\ \A x \in Writer : x # h => pc'[x] = pc[x]
  BY Zenon DEF Types
<1>2. \A x \in Writer : x # h /\ <<x, h>> \in M => pc'[x] # "start" /\ Following(x, h, M)'
  <2> SUFFICES ASSUME NEW x \in Writer, x # h, <<x, h>> \in M
               PROVE  pc'[x] # "start" /\ Following(x, h, M)'
    BY Zenon
  <2>1. /\ group[x] = <<>> /\ parallel_group[x] = Null
        /\ pc[x] = "joined" /\ state[x] = "INIT"
    BY NotLaunched
  <2> QED BY <1>1, <2>1, Zenon DEF Following
<1>3. \A x \in Writer : x # h /\ <<x, h>> \notin M => Same(x)
  BY <1>1, Zenon DEF Same, queue
<1>4. \A x \in Writer : pgStatus'[x] = "fail" => "insert" \in failed'
  BY Zenon DEF Core, Role
<1>5. \A x \in Writer : Role(x, Q, h, M)'
  BY <1>1, <1>2, <1>3, <1>4, GroupRoles, Zenon
<1>6. Counting(h, M)'
  BY WriterAssumption, Zenon DEF Counting
<1>7. Exiting(Q, M)'
  BY OnListExiting, Zenon
<1>8. Grouped(Q, h, M)'
  BY GroupedSame, Zenon DEF Core, queue
<1> QED BY <1>5, <1>6, <1>7, <1>8, Zenon DEF Core

\* A leader at work before its followers are launched is first on the list.
LEMMA LeaderAtWork ==
  ASSUME NEW Q, NEW h, NEW M, Ends(Q, h), Core(Q, h, M), NEW w \in Writer,
         \/ pc[w] \in {"enter", "log", "apply", "launch"}
         \/ pc[w] = "joined" /\ state[w] = "GROUP_LEADER"
  PROVE  w = h /\ w \in Q /\ Leading(w)
<1>1. w \in Q
  BY Zenon DEF Core, Role, Gone
<1>2. w = h
  BY <1>1, Zenon DEF Core, Role, Waiting, Following, Fresh
<1> QED BY <1>1, <1>2, Zenon DEF Core, Role

\* PreprocessWrite keeps the invariant.
LEMMA PrepareCore ==
  ASSUME Types, NEW Q, NEW h, NEW M, Ends(Q, h), Core(Q, h, M),
         NEW w \in Writer, Prepare(w)
  PROVE  Core(Q, h, M)'
<1>1. /\ pc[w] = "joined" /\ state[w] = "GROUP_LEADER"
      /\ pc' = [pc EXCEPT ![w] = "enter"]
      /\ UNCHANGED <<queue, state, request, group, exited, cursor, status,
                     parallel_group, pgStatus, running>>
      /\ "insert" \in failed => "insert" \in failed'
  BY Zenon DEF Prepare, Goto, shared
<1>2. w = h /\ w \in Q /\ Leading(w)
  BY <1>1, LeaderAtWork, Zenon
<1>3. parallel_group[w] = Null
  BY <1>1, <1>2, Zenon DEF Leading
<1>4. pc'[w] = "enter"
  BY <1>1, Zenon DEF Types
<1>5. Leading(w)'
  BY <1>1, <1>2, <1>4, Zenon DEF Leading
<1>6. Launching(w)'
  BY <1>4, Zenon DEF Launching
<1>7. /\ "enter" \notin {"start", "complete"}
      /\ \A x \in Writer : <<x, h>> \notin M => status'[x] = status[x]
      /\ \A x \in Writer : x # h => (x \in exited' <=> x \in exited)
  BY <1>1, Zenon
<1> QED BY <1>1, <1>2, <1>3, <1>5, <1>6, <1>7, LeaderStep, Zenon

\* Logging the group keeps the invariant.
LEMMA LogGroupCore ==
  ASSUME Types, NEW Q, NEW h, NEW M, Ends(Q, h), Core(Q, h, M),
         NEW w \in Writer, LogGroup(w)
  PROVE  Core(Q, h, M)'
<1>1. /\ pc[w] = "log"
      /\ "insert" \in failed => "insert" \in failed'
      /\ UNCHANGED <<queue, state, request, group, exited, cursor, status,
                     parallel_group, pgStatus, running>>
  BY Zenon DEF LogGroup
<1>2. PICK label \in {"report", "launch", "apply"} :
        /\ pc' = [pc EXCEPT ![w] = label]
        /\ label = "launch" => Parallel(w)
  BY Zenon DEF LogGroup, Goto
<1>3. w = h /\ w \in Q /\ Leading(w)
  BY <1>1, LeaderAtWork, Zenon
<1>4. parallel_group[w] = Null /\ cursor[w] = Null
  BY <1>1, <1>3, Zenon DEF Leading
<1>5. pc'[w] = label
  BY <1>2, Zenon DEF Types
<1>6. Leading(w)'
  BY <1>1, <1>2, <1>3, <1>5, Zenon DEF Leading
<1>7. Launching(w)'
  BY <1>1, <1>2, <1>4, <1>5, WriterAssumption, Zenon DEF Launching, Parallel
<1>8. /\ label \notin {"start", "complete"}
      /\ \A x \in Writer : <<x, h>> \notin M => status'[x] = status[x]
      /\ \A x \in Writer : x # h => (x \in exited' <=> x \in exited)
  BY <1>1, <1>2, Zenon
<1> QED BY <1>1, <1>2, <1>3, <1>4, <1>6, <1>7, <1>8, LeaderStep, Zenon

\* The leader inserting its whole group keeps the invariant.
LEMMA InsertGroupCore ==
  ASSUME Types, NEW Q, NEW h, NEW M, Ends(Q, h), Core(Q, h, M),
         NEW w \in Writer, InsertGroup(w)
  PROVE  Core(Q, h, M)'
<1>1. /\ pc[w] = "apply"
      /\ UNCHANGED <<queue, state, request, group, cursor, parallel_group,
                     pgStatus, running>>
  BY Zenon DEF InsertGroup
<1>2. PICK label \in {"report", "unlink"} :
        /\ pc' = [pc EXCEPT ![w] = label]
        /\ exited' = exited \/ (exited' = exited \cup {w} /\ label = "unlink")
  BY Zenon DEF InsertGroup, AfterApply, Goto
<1>3. "insert" \in failed => "insert" \in failed'
  BY Zenon DEF InsertGroup
<1>4. w = h /\ w \in Q /\ Leading(w)
  BY <1>1, LeaderAtWork, Zenon
<1>5. \A x \in Writer : <<x, h>> \notin M => status'[x] = status[x]
  <2>1. PICK n \in 0..Len(group[w]) :
          status' = IF n < Len(group[w])
                    THEN [status EXCEPT ![group[w][n + 1]] = "fail"] ELSE status
    <3>1. PICK n \in IF MayFail("insert") THEN 0..Len(group[w]) ELSE {Len(group[w])} :
            status' = IF n < Len(group[w])
                      THEN [status EXCEPT ![group[w][n + 1]] = "fail"] ELSE status
      BY Zenon DEF InsertGroup
    <3>2. n \in 0..Len(group[w])
      BY <3>1 DEF Types
    <3> QED BY <3>1, <3>2, Zenon
  <2>2. n < Len(group[w]) => n + 1 \in 1..Len(group[w]) /\ group[w][n + 1] \in Writer
    BY DEF Types
  <2>3. n < Len(group[w]) => <<group[w][n + 1], h>> \in M
    BY <1>4, <2>2, Zenon DEF Core, Grouped
  <2>4. CASE n < Len(group[w])
    BY <2>1, <2>2, <2>3, <2>4, Zenon DEF Types
  <2>5. CASE ~(n < Len(group[w]))
    BY <2>1, <2>5, Zenon
  <2> QED BY <2>4, <2>5, Zenon
<1>6. parallel_group[w] = Null
  BY <1>1, <1>4, Zenon DEF Leading
<1>7. pc'[w] = label
  BY <1>2, Zenon DEF Types
<1>8. Leading(w)'
  BY <1>1, <1>2, <1>4, <1>7, Zenon DEF Leading
<1>9. Launching(w)'
  BY <1>2, <1>7, Zenon DEF Launching
<1>10. \A x \in Writer : x # h => (x \in exited' <=> x \in exited)
  BY <1>2, <1>4, Zenon
<1>11. label \notin {"start", "complete"}
  BY <1>2, Zenon
<1> QED BY <1>1, <1>2, <1>3, <1>4, <1>5, <1>6, <1>8, <1>9, <1>10, <1>11, LeaderStep, Zenon

\* The start of LaunchParallelFollowers keeps the invariant: everyone is counted.
LEMMA LaunchFollowersCore ==
  ASSUME Types, NEW Q, NEW h, NEW M, Ends(Q, h), Core(Q, h, M),
         NEW w \in Writer, LaunchFollowers(w)
  PROVE  Core(Q, h, M)'
<1>1. w = h /\ w \in Q /\ Leading(w)
  <2>1. pc[w] = "launch"
    BY Zenon DEF LaunchFollowers
  <2> QED BY <2>1, LeaderAtWork, Zenon
<1>2. UNCHANGED <<queue, state, request, group, pc, exited, status, pgStatus, failed>>
  BY Zenon DEF LaunchFollowers, db
<1>3. /\ pc[h] = "launch" /\ cursor[h] = Null
      /\ running' = [running EXCEPT ![h] = Len(group[h])]
      /\ parallel_group' = [parallel_group EXCEPT ![h] = h]
      /\ cursor' = [cursor EXCEPT ![h] = h]
  BY <1>1, Zenon DEF LaunchFollowers
<1>4. /\ group[h] \in Seq(Writer) /\ Len(group[h]) \in Nat /\ Len(group[h]) > 1
      /\ group[h][1] = h /\ \A i \in 1..Len(group[h]) : group[h][i] \in Writer
  BY <1>1, <1>3 DEF Core, Launching, Grouped, Types
<1>5. parallel_group[h] = Null
  <2>1. ASSUME parallel_group[h] = h PROVE FALSE
    <3>1. PICK c \in 1..(Len(group[h]) - 1) : cursor[h] = group[h][c]
      BY <1>1, <1>3, <2>1, Zenon DEF Core, Launching
    <3>2. group[h][c] \in Writer
      BY <1>4
    <3> QED BY <1>3, <3>1, <3>2, WriterAssumption, Zenon
  <2> QED BY <1>1, <1>3, <2>1, Zenon DEF Leading
<1>6. \A x \in Writer : x # h /\ <<x, h>> \in M =>
        /\ group[x] = <<>> /\ parallel_group[x] = Null
        /\ pc[x] = "joined" /\ state[x] = "INIT"
  BY <1>1, <1>5, NotLaunched
<1>7. \A x \in Writer : Role(x, Q, h, M)'
  <2>1. /\ parallel_group'[h] = h /\ h \in Writer
        /\ \A x \in Writer : x # h => /\ parallel_group'[x] = parallel_group[x]
                                      /\ cursor'[x] = cursor[x]
    BY <1>1, <1>3, Zenon DEF Types
  <2>2. Leading(h)'
    BY <1>1, <1>2, <1>3, <2>1, Zenon DEF Leading
  <2>3. \A x \in Writer : x # h /\ <<x, h>> \in M => pc'[x] # "start" /\ Following(x, h, M)'
    BY <1>2, <1>3, <1>6, <2>1, ZenonT(40) DEF Following
  <2>4. \A x \in Writer : x # h /\ <<x, h>> \notin M => Same(x)
    BY <1>2, <2>1, Zenon DEF Same, queue
  <2>5. pc'[h] # "start" /\ \A x \in Writer : pgStatus'[x] = "fail" => "insert" \in failed'
    BY <1>2, <1>3, Zenon DEF Core, Role
  <2> QED BY <1>1, <2>2, <2>3, <2>4, <2>5, GroupRoles, Zenon
<1>8. Counting(h, M)'
  <2>1. Pending(h, M)' = {x \in Writer : <<x, h>> \in M}
    BY <1>1, <1>2, <1>3, <1>6, Zenon DEF Pending
  <2>2. running'[h] = Len(group[h])
    BY <1>1, <1>3, Zenon DEF Types
  <2> DEFINE S == {x \in Writer : <<x, h>> \in M}
  <2>3. /\ S \subseteq Writer
        /\ \A x \in Writer : x \in S <=> \E i \in 1..Len(group[h]) : group[h][i] = x
        /\ \A i, j \in 1..Len(group[h]) : group[h][i] = group[h][j] => i = j
    BY <1>1, Zenon DEF Core, Grouped
  <2> HIDE DEF S
  <2>4. Counts(Len(group[h]), S)
    BY <1>4, <2>3, SequenceCounts
  <2> QED BY <2>1, <2>2, <2>4, Zenon DEF Counting, S
<1>9. Launching(h)'
  <2>1. /\ 1 \in 1..(Len(group[h]) - 1) /\ cursor'[h] = group[h][1]
    BY <1>1, <1>3, <1>4 DEF Types
  <2>2. ASSUME NEW i \in 1..Len(group[h])
        PROVE  parallel_group'[group[h][i]] = IF i <= 1 THEN h ELSE Null
    <3>1. group[h][i] \in Writer /\ <<group[h][i], h>> \in M
      BY <1>1, <1>4, Zenon DEF Core, Grouped
    <3>2. i # 1 => group[h][i] # h
      BY <1>1, <1>4 DEF Core, Grouped
    <3>3. i # 1 => parallel_group'[group[h][i]] = Null
      BY <1>1, <1>3, <1>6, <3>1, <3>2, Zenon DEF Types
    <3>4. i = 1 => parallel_group'[group[h][i]] = h
      BY <1>1, <1>3, <1>4, Zenon DEF Types
    <3> QED BY <1>4, <3>3, <3>4
  <2>3. parallel_group'[h] # Null
    BY <1>1, <1>3, WriterAssumption, Zenon DEF Types
  <2> QED BY <1>2, <1>4, <2>1, <2>2, <2>3, Zenon DEF Launching
<1>10. Exiting(Q, M)'
  <2>1. \A x \in Writer \ Q : /\ state'[x] = state[x] /\ cursor'[x] = cursor[x]
                              /\ parallel_group'[x] = parallel_group[x]
    BY <1>1, <1>2, <1>3, Zenon DEF Types
  <2>2. pc' = [pc EXCEPT ![w] = "launch"]
    <3>1. pc \in [Writer -> Labels] /\ pc' = pc /\ pc[w] = "launch"
      BY <1>1, <1>2, <1>3, Zenon DEF Types
    <3> QED BY <3>1, Zenon
  <2>3. group' = group /\ "launch" # "complete" /\ w \in Q
    BY <1>1, <1>2, Zenon
  <2> QED BY <2>1, <2>2, <2>3, OnListExiting, Zenon
<1>11. Grouped(Q, h, M)'
  BY <1>2, GroupedSame, Zenon DEF Core, queue
<1> QED BY <1>7, <1>8, <1>9, <1>10, <1>11, Zenon DEF Core

\* Waking one more follower keeps the invariant.
LEMMA LaunchNextCore ==
  ASSUME Types, NEW Q, NEW h, NEW M, Ends(Q, h), Core(Q, h, M),
         NEW w \in Writer, LaunchNext(w)
  PROVE  Core(Q, h, M)'
<1>1. w = h /\ w \in Q /\ pc[w] = "launch" /\ cursor[w] # Null /\ Leading(w)
  <2>1. pc[w] = "launch" /\ cursor[w] # Null
    BY Zenon DEF LaunchNext
  <2> QED BY <2>1, LeaderAtWork, Zenon
<1>2. UNCHANGED <<queue, request, group, exited, status, pgStatus, failed, running>>
  BY Zenon DEF LaunchNext, db
<1> DEFINE g == group[h]
           next == link_newer[cursor[h]]
<1>3. g \in Seq(Writer) /\ Len(g) \in Nat /\ g # <<>>
  <2>1. g \in Seq(Writer)
    BY <1>1, Zenon DEF Types
  <2>2. g # <<>>
    BY <1>1, Zenon DEF Leading
  <2> QED BY <2>1, <2>2
<1>4. parallel_group[h] = h
  BY <1>1, Zenon DEF Core, Leading, Launching
<1>5. PICK c \in 1..(Len(g) - 1) :
         /\ cursor[h] = g[c]
         /\ \A i \in 1..Len(g) : parallel_group[g[i]] = IF i <= c THEN h ELSE Null
  BY <1>1, <1>4, Zenon DEF Core, Launching
<1>6. /\ c + 1 \in 1..Len(g) /\ c \in 1..Len(g) /\ c # c + 1
      /\ next = g[c + 1] /\ g[c + 1] \in Writer
      /\ parallel_group[next] = Null /\ next # h
      /\ <<next, h>> \in M
  <2>1. c + 1 \in 1..Len(g) /\ c \in 1..Len(g) /\ c # c + 1
    BY <1>3, <1>5
  <2>2. next = g[c + 1] /\ g[c + 1] \in Writer
    <3>1. c \in 1..(Len(group[h]) - 1) /\ h \in Writer
      BY <1>1, Zenon
    <3>2. Grouped(Q, h, M)
      BY Zenon DEF Core
    <3>3. \A i \in 1..(Len(group[h]) - 1) : link_newer[group[h][i]] = group[h][i + 1]
      BY <3>1, <3>2, ZenonT(40) DEF Grouped
    <3>4. link_newer[g[c]] = g[c + 1]
      BY <3>1, <3>3, Zenon
    <3>5. g[c + 1] \in Writer
      BY <1>3, <2>1
    <3> QED BY <1>5, <3>4, <3>5, Zenon
  <2>3. parallel_group[g[c + 1]] = Null
    BY <1>3, <1>5, <2>1
  <2>4. g[c + 1] # h
    BY <1>1, <1>4, <2>3, WriterAssumption, Zenon
  <2>5. <<g[c + 1], h>> \in M
    BY <1>1, <2>1, <2>2 DEF Core, Grouped
  <2> QED BY <2>1, <2>2, <2>3, <2>4, <2>5, Zenon
<1>7. /\ parallel_group' = [parallel_group EXCEPT ![next] = w]
      /\ state' = [state EXCEPT ![next] = "PARALLEL_FOLLOWER"]
  BY <1>1, Zenon DEF LaunchNext
<1>8. LastWriter(w) = g[Len(g)] /\ Len(g) \in 1..Len(g)
  BY <1>1, <1>3 DEF LastWriter
<1>9. next = LastWriter(w) <=> c + 1 = Len(g)
  BY <1>1, <1>6, <1>8 DEF Core, Grouped
<1>10. PICK label \in {"insert", "launch"} :
         /\ pc' = [pc EXCEPT ![w] = label]
         /\ label = "insert" <=> c + 1 = Len(g)
         /\ cursor' = [cursor EXCEPT ![w] = IF c + 1 = Len(g) THEN Null ELSE next]
  BY <1>1, <1>9, Zenon DEF LaunchNext, Goto
<1>11. pc[next] = "joined" /\ next \in Q /\ group[next] = <<>>
  <2>1. Following(next, h, M) /\ next \in Q
    BY <1>1, <1>6, Zenon DEF Core, Role, Grouped
  <2>2. parallel_group[next] # h
    BY <1>1, <1>6, WriterAssumption, Zenon
  <2> QED BY <2>1, <2>2, Zenon DEF Following
<1>12. label = "insert" =>
         \A x \in Writer : <<x, h>> \in M /\ x # next => parallel_group[x] = h
  <2> SUFFICES ASSUME c + 1 = Len(g), NEW x \in Writer, <<x, h>> \in M, x # next
               PROVE  parallel_group[x] = h
    BY <1>10, Zenon
  <2>1. PICK i \in 1..Len(g) : x = g[i]
    BY <1>1 DEF Core, Grouped
  <2>2. i # c + 1
    BY <1>6, <2>1, Zenon
  <2>3. i <= c
    BY <1>3, <2>1, <2>2
  <2> QED BY <1>5, <2>1, <2>3, Zenon
<1> HIDE DEF next, g
<1>13. \A x \in Writer : Role(x, Q, h, M)'
  <2>1. /\ pc'[h] = label /\ state'[h] = state[h] /\ parallel_group'[h] = h
        /\ parallel_group'[next] = h /\ state'[next] = "PARALLEL_FOLLOWER"
        /\ pc'[next] = pc[next]
        /\ \A x \in Writer : x # h => pc'[x] = pc[x] /\ cursor'[x] = cursor[x]
        /\ \A x \in Writer : x # next => /\ state'[x] = state[x]
                                         /\ parallel_group'[x] = parallel_group[x]
    BY <1>1, <1>4, <1>6, <1>7, <1>10, Zenon DEF Types
  <2>2. Leading(h)'
    BY <1>1, <1>2, <1>4, <1>10, <2>1, WriterAssumption, Zenon DEF Leading
  <2>3. ASSUME NEW x \in Writer, x # h, <<x, h>> \notin M PROVE Same(x)
    BY <1>2, <1>6, <2>1, <2>3, Zenon DEF Same, queue
  <2>4. ASSUME NEW x \in Writer, x = next
        PROVE  pc'[x] # "start" /\ Following(x, h, M)'
    <3>1. group'[x] = <<>> /\ pc'[x] = "joined"
      BY <1>2, <1>11, <2>1, <2>4, Zenon
    <3>2. /\ parallel_group'[x] = h /\ parallel_group'[h] = h
          /\ state'[x] = "PARALLEL_FOLLOWER"
      BY <2>1, <2>4, Zenon
    <3>3. pc'[h] \in {"launch", "insert"} /\ state'[h] = "GROUP_LEADER"
      BY <1>1, <1>4, <1>10, <2>1, WriterAssumption, Zenon DEF Leading
    <3> QED BY <3>1, <3>2, <3>3, Zenon DEF Following
  <2>5. ASSUME NEW x \in Writer, x # h, <<x, h>> \in M, x # next
        PROVE  pc'[x] # "start" /\ Following(x, h, M)'
    <3>1. Same(x)
      BY <1>2, <2>1, <2>5, Zenon DEF Same, queue
    <3>2. Following(x, h, M) /\ h \in Writer
      BY <1>1, <2>5, Zenon DEF Core, Role
    <3>3. pc[x] \notin {"start", "unlink"}
      BY <1>1, <3>2, Zenon DEF Following
    <3>4. parallel_group[x] = Null => pc'[h] = "launch"
      BY <1>1, <1>10, <1>12, <2>1, <2>5, WriterAssumption, Zenon
    <3>5. pc'[h] \in {"launch", "insert", "count", "wait"}
      BY <1>10, <2>1, Zenon
    <3>6. parallel_group'[h] = parallel_group[h] /\ state'[h] = state[h]
      BY <1>4, <2>1, Zenon
    <3>7. Following(x, h, M)'
      BY <3>1, <3>2, <3>3, <3>4, <3>5, <3>6, FollowingSame, Zenon
    <3> QED BY <3>1, <3>3, <3>7, Zenon DEF Same
  <2>6. /\ pc'[h] # "start" /\ h \in Writer /\ h \in Q
        /\ \A x \in Writer : pgStatus'[x] = "fail" => "insert" \in failed'
    BY <1>1, <1>2, <1>10, <2>1, Zenon DEF Core, Role
  <2>7. \A x \in Writer : x # h /\ <<x, h>> \in M => pc'[x] # "start" /\ Following(x, h, M)'
    BY <2>4, <2>5, Zenon
  <2> QED BY <2>2, <2>3, <2>6, <2>7, GroupRoles, Zenon
<1>14. Counting(h, M)'
  <2>1. \A x \in Writer : pc'[x] = pc[x] \/ (x = h /\ pc[x] = "launch" /\ pc'[x] \in {"insert", "launch"})
    BY <1>1, <1>10, Zenon DEF Types
  <2>2. parallel_group'[h] = parallel_group[h]
    BY <1>1, <1>6, <1>7, Zenon DEF Types
  <2> QED BY <1>2, <2>1, <2>2, CountingSame, Zenon DEF Core
<1>15. Launching(h)'
  <2>1. CASE label = "insert"
    BY <1>1, <1>10, <2>1, Zenon DEF Launching, Types
  <2>2. CASE label = "launch"
    <3>1. /\ c + 1 \in 1..(Len(g) - 1) /\ c + 1 # Len(g) /\ Len(g) > 1
          /\ cursor'[h] = g[c + 1]
      <4>1. c + 1 # Len(g)
        BY <1>10, <2>2, Zenon
      <4>2. c + 1 \in 1..(Len(g) - 1) /\ Len(g) > 1
        BY <1>3, <1>5, <4>1
      <4>3. cursor'[h] = g[c + 1]
        BY <1>1, <1>6, <1>10, <4>1, Zenon DEF Types
      <4> QED BY <4>1, <4>2, <4>3, Zenon
    <3>2. ASSUME NEW i \in 1..Len(g)
          PROVE  parallel_group'[g[i]] = IF i <= c + 1 THEN h ELSE Null
      <4>1. g[i] \in Writer
        BY <1>3
      <4>2. CASE i = c + 1
        <5>1. i <= c + 1
          BY <1>5, <4>2
        <5>2. parallel_group'[g[i]] = h
          BY <1>1, <1>6, <1>7, <4>1, <4>2, Zenon DEF Types
        <5> QED BY <5>1, <5>2, Zenon
      <4>3. CASE i # c + 1
        <5>1. g[i] # next
          BY <1>1, <1>6, <4>3, Zenon DEF Core, Grouped, g
        <5>2. parallel_group'[g[i]] = parallel_group[g[i]]
          BY <1>7, <4>1, <5>1, Zenon DEF Types
        <5> QED BY <1>5, <1>6, <4>3, <5>2
      <4> QED BY <4>2, <4>3, Zenon
    <3>3. parallel_group'[h] = h
      BY <1>1, <1>4, <1>6, <1>7, Zenon DEF Types
    <3>4. h # Null
      BY <1>1, WriterAssumption, Zenon
    <3> QED BY <1>2, <3>1, <3>2, <3>3, <3>4, Zenon DEF Launching, g
  <2> QED BY <1>10, <2>1, <2>2, Zenon
<1>16. Exiting(Q, M)'
  <2>1. \A x \in Writer \ Q : /\ cursor'[x] = cursor[x] /\ state'[x] = state[x]
                              /\ parallel_group'[x] = parallel_group[x]
    BY <1>1, <1>7, <1>10, <1>11, Zenon DEF Types
  <2>2. label # "complete" /\ group' = group
    BY <1>2, <1>10, Zenon
  <2> QED BY <1>1, <1>10, <2>1, <2>2, OnListExiting, Zenon
<1>17. Grouped(Q, h, M)'
  BY <1>2, GroupedSame, Zenon DEF Core, queue
<1> QED BY <1>13, <1>14, <1>15, <1>16, <1>17, Zenon DEF Core

InParallelGroup(w, Q, h, M) ==
  /\ h \in Q /\ h \in Writer /\ w \in Q
  /\ parallel_group[w] = h /\ parallel_group[h] = h
  /\ <<w, h>> \in M /\ <<h, h>> \in M
  /\ state[h] = "GROUP_LEADER" /\ group[h] # <<>>
  /\ pc[h] \in {"launch", "insert", "count", "wait"}
  /\ w = h => pc[h] # "launch"
  /\ w # h => state[w] = "PARALLEL_FOLLOWER"

\* Who can be at a step of CompleteParallelWorker.
LEMMA InParallel ==
  ASSUME Types, NEW Q, NEW h, NEW M, Ends(Q, h), Core(Q, h, M),
         NEW w \in Writer,
         \/ pc[w] \in {"insert", "count"}
         \/ pc[w] = "joined" /\ state[w] = "PARALLEL_FOLLOWER"
  PROVE  InParallelGroup(w, Q, h, M)
<1>1. w \in Q
  BY Zenon DEF Core, Role, Gone
<1>2. h \in Q /\ h \in Writer
  BY <1>1, Zenon DEF Ends
<1>3. w # h => /\ <<w, h>> \in M /\ Following(w, h, M)
               /\ parallel_group[w] = h /\ parallel_group[h] = h
               /\ state[w] = "PARALLEL_FOLLOWER" /\ state[h] = "GROUP_LEADER"
               /\ pc[h] \in {"launch", "insert", "count", "wait"}
  <2>1. ASSUME w # h PROVE <<w, h>> \in M
    BY <1>1, <2>1, Zenon DEF Core, Role, Waiting, Fresh
  <2>2. ASSUME w # h PROVE Following(w, h, M)
    BY <2>1, <2>2, Zenon DEF Core, Role
  <2> QED BY <2>1, <2>2, Zenon DEF Following
<1>4. w = h => /\ parallel_group[h] = h /\ pc[h] \in {"insert", "count"}
               /\ state[h] = "GROUP_LEADER"
  <2>1. Leading(h)
    BY <1>2, Zenon DEF Core, Role
  <2> QED BY <2>1, Zenon DEF Leading
<1>5. group[h] # <<>>
  BY <1>2, <1>3, <1>4, Zenon DEF Core, Role
<1>6. <<h, h>> \in M
  <2>1. group[h] \in Seq(Writer) /\ group[h][1] = h
    BY <1>2, <1>5, Zenon DEF Types, Core, Grouped
  <2>2. 1 \in 1..Len(group[h])
    BY <1>5, <2>1
  <2> QED BY <1>2, <2>1, <2>2, Zenon DEF Core, Grouped
<1> QED BY <1>1, <1>2, <1>3, <1>4, <1>5, <1>6, Zenon DEF InParallelGroup

\* The roles after a step of one writer of a parallel group.
LEMMA ParallelRoles ==
  ASSUME Types, NEW Q, NEW h, NEW M, Core(Q, h, M),
         NEW w \in Writer, InParallelGroup(w, Q, h, M),
         pc[w] \in {"joined", "insert", "count"},
         NEW label \in {"count", "wait"}, pc' = [pc EXCEPT ![w] = label],
         UNCHANGED <<queue, state, request, group, exited, cursor, parallel_group>>,
         \A y \in Writer : y # w => status'[y] = status[y],
         \A y \in Writer : y # h => pgStatus'[y] = pgStatus[y],
         pgStatus'[h] = "ok" => pgStatus[h] = "ok" /\ status'[w] = status[w],
         pgStatus'[h] = "fail" => "insert" \in failed',
         "insert" \in failed => "insert" \in failed'
  PROVE  \A x \in Writer : Role(x, Q, h, M)'
<1>1. /\ h \in Q /\ h \in Writer /\ w \in Q
      /\ parallel_group[w] = h /\ parallel_group[h] = h
      /\ <<w, h>> \in M /\ state[h] = "GROUP_LEADER" /\ group[h] # <<>>
      /\ pc[h] \in {"launch", "insert", "count", "wait"}
      /\ w = h => pc[h] # "launch"
      /\ w # h => state[w] = "PARALLEL_FOLLOWER"
  BY Zenon DEF InParallelGroup
<1>2. /\ pc'[w] = label /\ \A y \in Writer : y # w => pc'[y] = pc[y]
      /\ pc'[h] \in {"launch", "insert", "count", "wait"}
      /\ pc[h] = "launch" => pc'[h] = "launch"
  BY <1>1, Zenon DEF Types
<1>3. Leading(h)'
  <2>1. Leading(h)
    BY <1>1, Zenon DEF Core, Role
  <2>2. /\ pc'[h] \in {"count", "wait"} /\ pgStatus'[h] = "ok" => status'[h] = "ok"
        /\ pc'[h] \in {"launch", "insert"} => status'[h] = "ok"
    <3>1. CASE w = h
      <4>1. pc[h] \in {"insert", "count"} /\ pc'[h] \in {"count", "wait"}
        BY <1>1, <1>2, <3>1, Zenon
      <4>2. /\ pc[h] = "insert" => status[h] = "ok"
            /\ pc[h] = "count" /\ pgStatus[h] = "ok" => status[h] = "ok"
        BY <2>1, Zenon DEF Leading
      <4> QED BY <3>1, <4>1, <4>2, Zenon
    <3>2. CASE w # h
      <4>1. pc'[h] = pc[h] /\ status'[h] = status[h]
        BY <1>1, <1>2, <3>2, Zenon
      <4> QED BY <2>1, <4>1, Zenon DEF Leading
    <3> QED BY <3>1, <3>2, Zenon
  <2>3. h \notin exited'
    BY <1>1, <2>1, Zenon DEF Leading
  <2> QED BY <1>1, <1>2, <2>2, <2>3, Zenon DEF Leading
<1>4. \A x \in Writer : x # h /\ <<x, h>> \notin M => Same(x)
  BY <1>1, <1>2, Zenon DEF Same, queue
<1>5. ASSUME NEW x \in Writer, x # h, <<x, h>> \in M
      PROVE  pc'[x] # "start" /\ Following(x, h, M)'
  <2>1. Following(x, h, M)
    BY <1>5, Zenon DEF Core, Role
  <2>2. pc[x] \notin {"start", "unlink"}
    <3>1. pc[x] = "unlink" => w # x /\ pc[h] = "wait" /\ (w # h => pc[w] = "wait")
      BY <1>1, <2>1, Zenon DEF Following
    <3>2. pc[x] # "start"
      BY <2>1, Zenon DEF Following
    <3> QED BY <3>1, <3>2, Zenon
  <2>3. CASE x = w
    BY <1>1, <1>2, <1>5, <2>1, <2>3, Zenon DEF Following
  <2>4. CASE x # w
    <3>1. parallel_group[x] = Null => pc'[h] = "launch"
      <4>1. parallel_group[x] = Null => parallel_group[h] = Null \/ pc[h] = "launch"
        BY <1>1, <2>1, WriterAssumption, Zenon DEF Following
      <4> QED BY <1>1, <1>2, <4>1, WriterAssumption
    <3>2. /\ group'[x] = group[x] /\ parallel_group' = parallel_group
          /\ state' = state /\ pc'[x] = pc[x]
      BY <1>2, <2>4, Zenon
    <3>3. Following(x, h, M)'
      BY <1>1, <1>2, <2>1, <2>2, <3>1, <3>2, Zenon DEF Following
    <3> QED BY <2>2, <3>2, <3>3, Zenon
  <2> QED BY <2>3, <2>4, Zenon
<1>6. \A x \in Writer : pgStatus'[x] = "fail" => "insert" \in failed'
  BY <1>1, Zenon DEF Core, Role
<1>7. \A x \in Writer : x # h /\ <<x, h>> \in M => pc'[x] # "start" /\ Following(x, h, M)'
  BY <1>5, Zenon
<1>8. pc'[h] # "start"
  BY <1>2, Zenon
<1> QED BY <1>1, <1>3, <1>4, <1>6, <1>7, <1>8, GroupRoles, Zenon

\* InsertBatch keeps the invariant: a parallel writer inserts its batch.
LEMMA InsertBatchCore ==
  ASSUME Types, NEW Q, NEW h, NEW M, Ends(Q, h), Core(Q, h, M),
         NEW w \in Writer, InsertBatch(w)
  PROVE  Core(Q, h, M)'
<1>1. \/ pc[w] = "insert"
      \/ pc[w] = "joined" /\ state[w] = "PARALLEL_FOLLOWER"
  BY Zenon DEF InsertBatch, Inserting
<1>2. /\ InParallelGroup(w, Q, h, M) /\ h \in Writer /\ w \in Q
      /\ parallel_group[w] = h
  <2>1. InParallelGroup(w, Q, h, M)
    BY <1>1, InParallel, Zenon
  <2> QED BY <2>1, Zenon DEF InParallelGroup
<1>3. UNCHANGED <<queue, state, request, group, exited, cursor, parallel_group, running>>
  BY Zenon DEF InsertBatch
<1>4. pc' = [pc EXCEPT ![w] = "count"]
  BY Zenon DEF InsertBatch, Goto
<1>5. /\ \A x \in failed : x \in failed'
      /\ \/ status' = status /\ pgStatus' = pgStatus
         \/ /\ status' = [status EXCEPT ![w] = "fail"]
            /\ pgStatus' = [pgStatus EXCEPT ![h] = "fail"]
            /\ "insert" \in failed'
  BY <1>2, Zenon DEF InsertBatch
<1>6. \A x \in Writer : Role(x, Q, h, M)'
  <2>1. /\ \A y \in Writer : y # w => status'[y] = status[y]
        /\ \A y \in Writer : y # h => pgStatus'[y] = pgStatus[y]
        /\ pgStatus'[h] = "ok" => pgStatus[h] = "ok" /\ status'[w] = status[w]
        /\ pgStatus'[h] = "fail" => pgStatus[h] = "fail" \/ "insert" \in failed'
    BY <1>2, <1>5, Zenon DEF Types
  <2>2. pgStatus[h] = "fail" => "insert" \in failed
    BY <1>2, Zenon DEF Core, Role
  <2>3. "insert" \in failed => "insert" \in failed'
    BY <1>5, Zenon
  <2>4. pc[w] \in {"joined", "insert", "count"} /\ "count" \in {"count", "wait"}
    BY <1>1, Zenon
  <2> QED BY <1>2, <1>3, <1>4, <2>1, <2>2, <2>3, <2>4, ParallelRoles, Zenon
<1>7. Counting(h, M)'
  <2>1. \A x \in Writer : pc'[x] = pc[x] \/ (x = w /\ pc[x] \in {"joined", "insert"} /\ pc'[x] = "count")
    BY <1>1, <1>4, Zenon DEF Types
  <2> QED BY <1>3, <2>1, CountingSame, Zenon DEF Core
<1>8. Launching(h)'
  <2>1. pc'[h] = "launch" => pc[h] = "launch"
    BY <1>2, <1>4, Zenon DEF Types
  <2> QED BY <1>3, <2>1, Zenon DEF Core, Launching
<1>9. Exiting(Q, M)'
  <2>1. "count" # "complete"
    BY Zenon
  <2> QED BY <1>2, <1>3, <1>4, <2>1, OnListExiting, Zenon
<1>10. Grouped(Q, h, M)'
  BY <1>3, GroupedSame, Zenon DEF Core, queue
<1> QED BY <1>6, <1>7, <1>8, <1>9, <1>10, Zenon DEF Core

\* A writer that counts down leaves the others to be counted.
LEMMA CountDownPending ==
  ASSUME Types, NEW Q, NEW h \in Writer, NEW M, Core(Q, h, M),
         parallel_group[h] = h,
         NEW w \in Pending(h, M)
  PROVE  Counts(running[h] - 1, Pending(h, M) \ {w})
<1>1. Counts(running[h], Pending(h, M)) /\ running[h] \in Nat
  BY Zenon DEF Core, Counting, Types
<1> QED BY <1>1, OneFewer, Zenon

\* The count of a parallel writer that is not the last keeps the invariant.
LEMMA CountDownCore ==
  ASSUME Types, NEW Q, NEW h, NEW M, Ends(Q, h), Core(Q, h, M),
         NEW w \in Writer, CountDown(w)
  PROVE  Core(Q, h, M)'
<1>1. pc[w] = "count"
  BY Zenon DEF CountDown
<1>2. /\ InParallelGroup(w, Q, h, M) /\ h \in Writer /\ w \in Q
      /\ parallel_group[w] = h /\ parallel_group[h] = h /\ <<w, h>> \in M
  <2>1. InParallelGroup(w, Q, h, M)
    BY <1>1, InParallel, Zenon
  <2> QED BY <2>1, Zenon DEF InParallelGroup
<1>3. UNCHANGED <<queue, state, request, group, exited, cursor, status,
                  parallel_group, pgStatus, failed>>
  BY Zenon DEF CountDown, db
<1>4. pc' = [pc EXCEPT ![w] = "wait"]
  BY Zenon DEF CountDown, Goto
<1>5. running' = [running EXCEPT ![h] = running[h] - 1]
  BY <1>2, Zenon DEF CountDown, Leader
<1>6. \A x \in Writer : Role(x, Q, h, M)'
  <2>1. pgStatus[h] = "fail" => "insert" \in failed
    BY <1>2, Zenon DEF Core, Role
  <2>2. pc[w] \in {"joined", "insert", "count"} /\ "wait" \in {"count", "wait"}
    BY <1>1, Zenon
  <2> QED BY <1>2, <1>3, <1>4, <2>1, <2>2, ParallelRoles, Zenon
<1>7. Counting(h, M)'
  <2>1. Pending(h, M)' = Pending(h, M) \ {w}
    BY <1>1, <1>4, Zenon DEF Pending, Types
  <2>2. w \in Pending(h, M)
    BY <1>1, <1>2, Zenon DEF Pending
  <2>3. Counts(running[h] - 1, Pending(h, M) \ {w})
    BY <1>2, <2>2, CountDownPending, Zenon
  <2>4. running'[h] = running[h] - 1
    BY <1>2, <1>5, Zenon DEF Types
  <2> QED BY <2>1, <2>3, <2>4, Zenon DEF Counting
<1>8. Launching(h)'
  <2>1. pc'[h] = "launch" => pc[h] = "launch"
    BY <1>2, <1>4, Zenon DEF Types
  <2> QED BY <1>3, <2>1, Zenon DEF Core, Launching
<1>9. Exiting(Q, M)'
  <2>1. "wait" # "complete"
    BY Zenon
  <2> QED BY <1>2, <1>3, <1>4, <2>1, OnListExiting, Zenon
<1>10. Grouped(Q, h, M)'
  BY <1>3, GroupedSame, Zenon DEF Core, queue
<1> QED BY <1>6, <1>7, <1>8, <1>9, <1>10, Zenon DEF Core

\* The last writer of a parallel group to count down: the others wait.
LEMMA LastOfGroup ==
  ASSUME Types, NEW Q, NEW h, NEW M, Ends(Q, h), Core(Q, h, M),
         NEW w \in Writer, pc[w] = "count", running[Leader(w)] = 1
  PROVE  /\ InParallelGroup(w, Q, h, M)
         /\ \A y \in Writer : <<y, h>> \in M /\ y # w => pc[y] = "wait"
         /\ \A y \in Writer : <<y, h>> \in M => parallel_group[y] = h
<1>1. InParallelGroup(w, Q, h, M)
  BY InParallel, Zenon
<1>2. h \in Writer /\ parallel_group[h] = h /\ <<h, h>> \in M /\ h \in Q
  BY <1>1, Zenon DEF InParallelGroup
<1>3. w \in Pending(h, M)
  BY <1>1, Zenon DEF InParallelGroup, Pending
<1>4. \A y \in Pending(h, M) : y = w
  <2>1. running[h] = 1
    BY <1>1, Zenon DEF InParallelGroup, Leader
  <2>2. Counts(running[h], Pending(h, M)) /\ running[h] \in Nat
    BY <1>2, <1>3, Zenon DEF Core, Counting, Types
  <2>3. running[h] = 1 => Pending(h, M) = {w}
    BY <1>3, <2>2, OneFewer, Zenon
  <2> QED BY <2>1, <2>3, Zenon
<1>5. \A y \in Writer : <<y, h>> \in M /\ y # w =>
        pc[y] \notin {"joined", "launch", "insert", "count"}
  BY <1>4, Zenon DEF Pending
<1>6. w # h => pc[h] = "wait"
  BY <1>1, <1>2, <1>5, Zenon DEF InParallelGroup
<1>7. ASSUME NEW y \in Writer, <<y, h>> \in M, y # w, y # h
      PROVE  pc[y] = "wait" /\ parallel_group[y] = h
  <2>1. Following(y, h, M)
    BY <1>7, Zenon DEF Core, Role
  <2>2. pc[y] # "unlink"
    <3>1. pc[y] = "unlink" => \A z \in Writer : <<z, h>> \in M /\ z # y => pc[z] = "wait"
      BY <2>1, Zenon DEF Following
    <3>2. <<w, h>> \in M /\ pc[w] # "wait"
      BY <1>1, Zenon DEF InParallelGroup
    <3> QED BY <1>7, <3>1, <3>2, Zenon
  <2> QED BY <1>5, <1>7, <2>1, <2>2, Zenon DEF Following
<1> QED BY <1>1, <1>2, <1>6, <1>7, Zenon DEF InParallelGroup

\* A writer that waits for its group to exit keeps following.
LEMMA WaiterFollows ==
  ASSUME NEW Q, NEW h \in Writer, NEW M, Core(Q, h, M), NEW x \in Writer,
         x # h, <<x, h>> \in M, parallel_group[x] = h, pc'[x] = "wait",
         group'[x] = group[x], parallel_group' = parallel_group,
         state'[x] = state[x]
  PROVE  pc'[x] # "start" /\ Following(x, h, M)'
<1>1. Following(x, h, M)
  BY Zenon DEF Core, Role
<1>2. group[x] = <<>> /\ parallel_group[h] = h /\ state[x] = "PARALLEL_FOLLOWER"
  BY <1>1, WriterAssumption, Zenon DEF Following
<1> QED BY <1>2, Zenon DEF Following

\* The leader counts down last: it keeps the invariant.
LEMMA LastLeaderCore ==
  ASSUME Types, NEW Q, NEW h, NEW M, Ends(Q, h), Core(Q, h, M),
         NEW w \in Writer, LastLeader(w)
  PROVE  Core(Q, h, M)'
<1>1. pc[w] = "count" /\ running[Leader(w)] = 1 /\ w = Leader(w)
  BY Zenon DEF LastLeader
<1>2. /\ w = h /\ h \in Q /\ h \in Writer /\ parallel_group[h] = h
      /\ state[h] = "GROUP_LEADER" /\ group[h] # <<>>
      /\ \A y \in Writer : <<y, h>> \in M /\ y # h => pc[y] = "wait" /\ parallel_group[y] = h
  <2>1. /\ InParallelGroup(w, Q, h, M)
        /\ \A y \in Writer : <<y, h>> \in M /\ y # w => pc[y] = "wait"
        /\ \A y \in Writer : <<y, h>> \in M => parallel_group[y] = h
    BY <1>1, LastOfGroup
  <2>2. w = h
    BY <1>1, <2>1, Zenon DEF InParallelGroup, Leader
  <2> QED BY <2>1, <2>2, Zenon DEF InParallelGroup
<1>3. UNCHANGED <<queue, state, request, group, cursor, parallel_group, pgStatus,
                  running, failed>>
  BY Zenon DEF LastLeader
<1>4. /\ \A y \in Writer \ {w} : status'[y] = status[y]
      /\ status'[w] \in Status
  BY Zenon DEF LastLeader, Types
<1>5. PICK label \in {"report", "unlink"} :
        /\ pc' = [pc EXCEPT ![w] = label]
        /\ exited' = exited \/ (exited' = exited \cup {w} /\ label = "unlink")
  BY Zenon DEF LastLeader, AfterApply, Goto
<1>6. pc'[w] = label /\ \A y \in Writer \ {w} : pc'[y] = pc[y]
  BY <1>5, Zenon DEF Types
<1>7. \A x \in Writer : Role(x, Q, h, M)'
  <2>1. Leading(h)'
    <3>1. Leading(h) /\ pc[h] = "count"
      BY <1>1, <1>2, Zenon DEF Core, Role
    <3>2. h \notin exited
      BY <3>1, Zenon DEF Leading
    <3>3. pc'[h] = "report" => h \notin exited'
      BY <1>2, <1>5, <1>6, <3>2, Zenon
    <3>4. pc'[h] \in {"report", "unlink"}
      BY <1>2, <1>6, Zenon
    <3> QED BY <1>2, <1>3, <3>3, <3>4, Zenon DEF Leading
  <2>2. \A x \in Writer : x # h /\ <<x, h>> \in M => pc'[x] # "start" /\ Following(x, h, M)'
    <3> SUFFICES ASSUME NEW x \in Writer, x # h, <<x, h>> \in M
                 PROVE  pc'[x] # "start" /\ Following(x, h, M)'
      BY Zenon
    <3>1. parallel_group[x] = h /\ pc'[x] = "wait"
      BY <1>2, <1>6, Zenon
    <3> QED BY <1>2, <1>3, <3>1, WaiterFollows, Zenon
  <2>3. \A x \in Writer : x # h /\ <<x, h>> \notin M => Same(x)
    <3>1. \A x \in Writer : x # h => (x \in exited' <=> x \in exited)
      BY <1>2, <1>5, Zenon
    <3> QED BY <1>2, <1>3, <1>4, <1>6, <3>1, Zenon DEF Same, queue
  <2>4. pc'[h] # "start" /\ \A x \in Writer : pgStatus'[x] = "fail" => "insert" \in failed'
    BY <1>2, <1>3, <1>6, Zenon DEF Core, Role
  <2> QED BY <1>2, <2>1, <2>2, <2>3, <2>4, GroupRoles, Zenon
<1>8. Counting(h, M)'
  <2>1. Pending(h, M)' = {}
    BY <1>2, <1>5, <1>6, Zenon DEF Pending
  <2> QED BY <2>1, Zenon DEF Counting
<1>9. Launching(h)'
  BY <1>2, <1>5, <1>6, Zenon DEF Launching
<1>10. Exiting(Q, M)'
  <2>1. label # "complete" /\ w \in Q
    BY <1>2, <1>5, Zenon
  <2> QED BY <1>3, <1>5, <2>1, OnListExiting, Zenon
<1>11. Grouped(Q, h, M)'
  BY <1>3, GroupedSame, Zenon DEF Core, queue
<1> QED BY <1>7, <1>8, <1>9, <1>10, <1>11, Zenon DEF Core

\* A follower counts down last and may exit for the group.
LEMMA LastFollowerExitsCore ==
  ASSUME Types, NEW Q, NEW h, NEW M, Ends(Q, h), Core(Q, h, M),
         NEW w \in Writer, LastFollowerExits(w)
  PROVE  Core(Q, h, M)'
<1>1. pc[w] = "count" /\ running[Leader(w)] = 1 /\ w # Leader(w)
  BY Zenon DEF LastFollowerExits
<1>2. /\ w # h /\ h \in Q /\ h \in Writer /\ parallel_group[h] = h /\ parallel_group[w] = h
      /\ state[h] = "GROUP_LEADER" /\ group[h] # <<>> /\ w \in Q
      /\ <<w, h>> \in M /\ <<h, h>> \in M /\ state[w] = "PARALLEL_FOLLOWER"
      /\ \A y \in Writer : <<y, h>> \in M /\ y # w => pc[y] = "wait"
      /\ \A y \in Writer : <<y, h>> \in M => parallel_group[y] = h
  BY <1>1, LastOfGroup DEF InParallelGroup, Leader
<1>3. UNCHANGED <<queue, state, request, group, exited, cursor, status,
                  parallel_group, pgStatus, running, failed>>
  BY Zenon DEF LastFollowerExits, shared
<1>4. ~NeedLogSync(h) /\ pgStatus[h] = "ok"
  BY <1>2, Zenon DEF LastFollowerExits, EarlyExitAllowed, Leader
<1>5. pc' = [pc EXCEPT ![w] = "unlink"]
  BY Zenon DEF LastFollowerExits, Goto
<1>6. pc'[w] = "unlink" /\ \A y \in Writer \ {w} : pc'[y] = pc[y]
  BY <1>5, Zenon DEF Types
<1>7. \A x \in Writer : Role(x, Q, h, M)'
  <2>1. pc[h] = "wait" /\ pc'[h] = "wait"
    BY <1>2, <1>6, Zenon
  <2>2. Leading(h)'
    <3>1. Leading(h)
      BY <1>2, Zenon DEF Core, Role
    <3>2. NeedLogSync(h)' <=> NeedLogSync(h)
      BY <1>3, Zenon DEF NeedLogSync
    <3> QED BY <1>2, <1>3, <2>1, <3>1, <3>2, Zenon DEF Leading
  <2>3. ASSUME NEW x \in Writer, x # h, <<x, h>> \in M, x # w
        PROVE  pc'[x] # "start" /\ Following(x, h, M)'
    <3>1. parallel_group[x] = h /\ pc'[x] = "wait"
      BY <1>2, <1>6, <2>3, Zenon
    <3> QED BY <1>2, <1>3, <2>3, <3>1, WaiterFollows, Zenon
  <2>4. Following(w, h, M)'
    <3>1. group[w] = <<>>
      BY <1>2, Zenon DEF Core, Role, Following
    <3>2. ~NeedLogSync(h)'
      BY <1>3, <1>4, Zenon DEF NeedLogSync
    <3>3. \A y \in Writer : <<y, h>> \in M /\ y # w => pc'[y] = "wait"
      BY <1>2, <1>6, Zenon
    <3> QED BY <1>2, <1>3, <1>4, <1>6, <2>1, <3>1, <3>2, <3>3, Zenon DEF Following
  <2>5. \A x \in Writer : x # h /\ <<x, h>> \in M => pc'[x] # "start" /\ Following(x, h, M)'
    BY <1>6, <2>3, <2>4, Zenon
  <2>6. \A x \in Writer : x # h /\ <<x, h>> \notin M => Same(x)
    BY <1>2, <1>3, <1>6, Zenon DEF Same, queue
  <2>7. pc'[h] # "start" /\ \A x \in Writer : pgStatus'[x] = "fail" => "insert" \in failed'
    BY <1>3, <2>1, Zenon DEF Core, Role
  <2> QED BY <1>2, <2>2, <2>5, <2>6, <2>7, GroupRoles, Zenon
<1>8. Counting(h, M)'
  <2>1. Pending(h, M)' = {}
    BY <1>2, <1>6, Zenon DEF Pending
  <2> QED BY <2>1, Zenon DEF Counting
<1>9. Launching(h)'
  BY <1>2, <1>6, Zenon DEF Launching
<1>10. Exiting(Q, M)'
  <2>1. "unlink" # "complete" /\ w \in Q
    BY <1>2, Zenon
  <2> QED BY <1>3, <1>5, <2>1, OnListExiting, Zenon
<1>11. Grouped(Q, h, M)'
  BY <1>3, GroupedSame, Zenon DEF Core, queue
<1> QED BY <1>7, <1>8, <1>9, <1>10, <1>11, Zenon DEF Core

\* A follower counts down last and wakes the leader.
LEMMA LastFollowerWakesCore ==
  ASSUME Types, NEW Q, NEW h, NEW M, Ends(Q, h), Core(Q, h, M),
         NEW w \in Writer, LastFollowerWakes(w)
  PROVE  Core(Q, h, M)'
<1>1. pc[w] = "count" /\ running[Leader(w)] = 1 /\ w # Leader(w)
  BY Zenon DEF LastFollowerWakes
<1>2. /\ w # h /\ h \in Q /\ h \in Writer /\ parallel_group[h] = h /\ parallel_group[w] = h
      /\ state[h] = "GROUP_LEADER" /\ group[h] # <<>> /\ w \in Q
      /\ <<w, h>> \in M /\ <<h, h>> \in M /\ state[w] = "PARALLEL_FOLLOWER"
      /\ \A y \in Writer : <<y, h>> \in M /\ y # w => pc[y] = "wait"
      /\ \A y \in Writer : <<y, h>> \in M => parallel_group[y] = h
  BY <1>1, LastOfGroup DEF InParallelGroup, Leader
<1>3. UNCHANGED <<queue, request, group, exited, cursor, status,
                  parallel_group, pgStatus, running, failed>>
  BY Zenon DEF LastFollowerWakes, shared, db
<1>4. NeedLogSync(h) \/ pgStatus[h] = "fail"
  BY <1>2, Zenon DEF LastFollowerWakes, EarlyExitAllowed, Leader, Types, Status
<1>5. pc' = [pc EXCEPT ![w] = "wait"] /\ state' = [state EXCEPT ![h] = "COMPLETED"]
  BY <1>2, Zenon DEF LastFollowerWakes, Goto, Leader
<1>6. /\ pc'[w] = "wait" /\ \A y \in Writer \ {w} : pc'[y] = pc[y]
      /\ state'[h] = "COMPLETED" /\ \A y \in Writer \ {h} : state'[y] = state[y]
  BY <1>2, <1>5, Zenon DEF Types
<1>7. \A x \in Writer : Role(x, Q, h, M)'
  <2>1. pc[h] = "wait" /\ pc'[h] = "wait"
    BY <1>2, <1>6, Zenon
  <2>2. Leading(h)'
    <3>1. Leading(h)
      BY <1>2, Zenon DEF Core, Role
    <3>2. NeedLogSync(h)' <=> NeedLogSync(h)
      BY <1>3, Zenon DEF NeedLogSync
    <3>3. h \notin exited /\ (pgStatus[h] = "ok" => status[h] = "ok")
      BY <2>1, <3>1, Zenon DEF Leading
    <3> QED BY <1>2, <1>3, <1>4, <1>6, <2>1, <3>2, <3>3, Zenon DEF Leading
  <2>3. \A x \in Writer : x # h /\ <<x, h>> \in M => pc'[x] # "start" /\ Following(x, h, M)'
    <3> SUFFICES ASSUME NEW x \in Writer, x # h, <<x, h>> \in M
                 PROVE  pc'[x] # "start" /\ Following(x, h, M)'
      BY Zenon
    <3>1. parallel_group[x] = h /\ pc'[x] = "wait" /\ state'[x] = state[x]
      BY <1>2, <1>6, Zenon
    <3> QED BY <1>2, <1>3, <3>1, WaiterFollows, Zenon
  <2>4. \A x \in Writer : x # h /\ <<x, h>> \notin M => Same(x)
    BY <1>2, <1>3, <1>6, Zenon DEF Same, queue
  <2>5. pc'[h] # "start" /\ \A x \in Writer : pgStatus'[x] = "fail" => "insert" \in failed'
    BY <1>3, <2>1, Zenon DEF Core, Role
  <2> QED BY <1>2, <2>2, <2>3, <2>4, <2>5, GroupRoles, Zenon
<1>8. Counting(h, M)'
  <2>1. Pending(h, M)' = {}
    BY <1>2, <1>6, Zenon DEF Pending
  <2> QED BY <2>1, Zenon DEF Counting
<1>9. Launching(h)'
  BY <1>2, <1>6, Zenon DEF Launching
<1>10. Exiting(Q, M)'
  <2>1. \A x \in Writer \ Q : /\ state'[x] = state[x]
                              /\ cursor'[x] = cursor[x]
                              /\ parallel_group'[x] = parallel_group[x]
    BY <1>2, <1>3, <1>6, Zenon
  <2>2. group' = group /\ w \in Q /\ "wait" # "complete"
    BY <1>2, <1>3, Zenon
  <2> QED BY <1>5, <2>1, <2>2, OnListExiting, Zenon
<1>11. Grouped(Q, h, M)'
  BY <1>3, GroupedSame, Zenon DEF Core, queue
<1> QED BY <1>7, <1>8, <1>9, <1>10, <1>11, Zenon DEF Core

\* Who is not on the list neither leads nor follows.
LEMMA NotOnList ==
  ASSUME NEW Q, NEW h, NEW M, Ends(Q, h), Grouped(Q, h, M), NEW x \in Writer \ Q
  PROVE  x # h /\ <<x, h>> \notin M
<1>1. x # h
  BY WriterAssumption, Zenon DEF Ends
<1>2. ASSUME <<x, h>> \in M PROVE FALSE
  <2>1. h \in Writer
    BY <1>2, Zenon DEF Grouped
  <2> QED BY <1>2, <2>1, Zenon DEF Grouped
<1> QED BY <1>1, <1>2, Zenon

\* A step that leaves the writers on the list alone.
LEMMA OnListFrame ==
  ASSUME Types, NEW Q, NEW h, NEW M, Ends(Q, h), Core(Q, h, M),
         \A y \in Q : /\ pc'[y] = pc[y] /\ state'[y] = state[y]
                      /\ status'[y] = status[y] /\ cursor'[y] = cursor[y]
                      /\ y \in exited' <=> y \in exited,
         UNCHANGED <<queue, request, group, parallel_group, pgStatus, running, failed>>
  PROVE  /\ \A x \in Q : Role(x, Q, h, M)'
         /\ Counting(h, M)' /\ Launching(h)'
<1>1. ASSUME NEW x \in Q PROVE Role(x, Q, h, M)'
  <2>1. h \in Q /\ x \in Writer /\ h \in Writer
    BY Zenon DEF Ends
  <2>2. \A y \in Writer : <<y, h>> \in M => y \in Q
    BY <2>1, Zenon DEF Core, Grouped
  <2>3. CASE x = h
    <3>1. Leading(x)'
      <4>1. Leading(x)
        BY <2>1, <2>3, Zenon DEF Core, Role
      <4>2. /\ pc'[x] = pc[x] /\ state'[x] = state[x]
            /\ status'[x] = status[x] /\ cursor'[x] = cursor[x]
            /\ x \in exited' <=> x \in exited
        BY Zenon
      <4>3. UNCHANGED <<request, group, parallel_group, pgStatus, failed>>
        BY Zenon
      <4> QED BY <4>1, <4>2, <4>3, Zenon DEF Leading, NeedLogSync
    <3> QED BY <2>1, <2>3, <3>1, Zenon DEF Core, Role, Starting, Waiting, Fresh, queue
  <2>4. CASE x # h
    <3>1. <<x, h>> \in M => Following(x, h, M)'
      BY <2>1, <2>2, <2>4 DEF Core, Role, Following, NeedLogSync
    <3> QED BY <2>1, <2>4, <3>1, Zenon DEF Core, Role, Starting, Waiting, Fresh
  <2> QED BY <2>3, <2>4, Zenon
<1>2. Counting(h, M)'
  <2>1. \A x \in Writer : h \in Writer /\ <<x, h>> \in M => pc'[x] = pc[x]
    BY Zenon DEF Core, Grouped
  <2>2. h \notin Writer => Counting(h, M)'
    BY Zenon DEF Counting
  <2>3. h \in Writer => Counting(h, M)'
    BY <2>1, CountingSame, Zenon DEF Core
  <2> QED BY <2>2, <2>3, Zenon
<1>3. Launching(h)'
  <2>1. h \notin Writer => Launching(h)'
    BY Zenon DEF Launching
  <2>2. h \in Writer => h \in Q
    BY WriterAssumption, Zenon DEF Ends
  <2>3. h \in Q => Launching(h)'
    BY DEF Core, Launching
  <2> QED BY <2>1, <2>2, <2>3, Zenon
<1> QED BY <1>1, <1>2, <1>3, Zenon

\* A step of a writer off the list that no exiting group has yet to complete.
LEMMA OffListExiting ==
  ASSUME Types, NEW Q, NEW h, NEW M, Ends(Q, h), Core(Q, h, M),
         NEW w \in Writer, NEW label, label # "complete",
         pc' = [pc EXCEPT ![w] = label],
         pc[w] = "report" \/ state[w] = "COMPLETED",
         pc[w] # "complete",
         UNCHANGED <<group, state, cursor, parallel_group>>
  PROVE  Exiting(Q, M)'
<1>1. pc'[w] = label /\ \A x \in Writer : x # w => pc'[x] = pc[x]
  BY Zenon DEF Types
<1>2. \A u \in Writer : Led(u)' = Led(u)
  BY Zenon DEF Led, Leader
<1>3. SUFFICES ASSUME NEW t \in Writer, pc'[t] = "complete"
               PROVE  Exits(t, Q, M)'
  BY Zenon DEF Exiting
<1>4. t # w /\ pc[t] = "complete" /\ Exits(t, Q, M)
  BY <1>1, <1>3, Zenon DEF Core, Exiting
<1> DEFINE l == Led(t)
<1>5. l \in Writer \ Q /\ <<t, l>> \in M
  BY <1>4, Zenon DEF Exits
<1>6. PICK c \in 1..Len(group[l]) :
        cursor[t] = group[l][c] /\ \A i \in 2..c : ToComplete(t, group[l][i])
  BY <1>4, Zenon DEF Exits
<1>7. ASSUME NEW i \in 2..c PROVE ToComplete(t, group[l][i])'
  <2>1. i \in 1..Len(group[l])
    BY <1>5, <1>6 DEF Types
  <2>2. group[l][i] \in Writer
    BY <1>5, <2>1, OffList, Zenon DEF Core
  <2>3. ToComplete(t, group[l][i])
    BY <1>6, Zenon
  <2>4. group[l][i] # w
    BY <1>4, <2>3, Zenon DEF ToComplete
  <2> QED BY <1>1, <1>2, <2>2, <2>3, <2>4, Zenon DEF ToComplete
<1>8. t # l => pc'[l] = "wait" /\ state[l] = "GROUP_LEADER" /\ parallel_group[l] = l
  <2>1. t # l => pc[l] = "wait" /\ state[l] = "GROUP_LEADER" /\ parallel_group[l] = l
    BY <1>4, Zenon DEF Exits
  <2>2. t # l => l # w
    BY <2>1, Zenon
  <2> QED BY <1>1, <1>5, <2>1, <2>2, Zenon
<1>9. \A u \in Writer : pc'[u] = "complete" /\ Led(u)' = l => u = t
  BY <1>1, <1>2, <1>4, Zenon DEF Exits
<1>10. l' = l
  BY <1>2, Zenon
<1> HIDE DEF l
<1> QED BY <1>2, <1>5, <1>6, <1>7, <1>8, <1>9, Zenon DEF Exits, l

\* The return of a follower keeps the invariant.
LEMMA FollowerReturnsCore ==
  ASSUME Types, NEW Q, NEW h, NEW M, Ends(Q, h), Core(Q, h, M),
         NEW w \in Writer, FollowerReturns(w)
  PROVE  Core(Q, h, M)'
<1>1. /\ pc[w] = "joined" \/ (pc[w] = "wait" /\ parallel_group[w] # w)
      /\ state[w] = "COMPLETED" /\ pc' = [pc EXCEPT ![w] = "done"]
  BY Zenon DEF FollowerReturns, Goto, Leader
<1>2. UNCHANGED <<queue, state, request, group, exited, cursor, status,
                  parallel_group, pgStatus, running, failed>>
  BY Zenon DEF FollowerReturns, shared, db
<1>3. w \notin Q
  BY <1>1, WriterAssumption, Zenon DEF Ends, Core, Role, Waiting, Leading, Following, Fresh
<1>4. pc'[w] = "done" /\ \A x \in Writer : x # w => pc'[x] = pc[x]
  BY <1>1, Zenon DEF Types
<1>5. (\A x \in Q : Role(x, Q, h, M)') /\ Counting(h, M)' /\ Launching(h)'
  <2>1. \A y \in Q : /\ pc'[y] = pc[y] /\ state'[y] = state[y]
                     /\ status'[y] = status[y] /\ cursor'[y] = cursor[y]
                     /\ y \in exited' <=> y \in exited
    BY <1>2, <1>3, <1>4, Zenon DEF Ends
  <2> QED BY <1>2, <2>1, OnListFrame, Zenon
<1>6. ASSUME NEW x \in Writer \ Q PROVE Role(x, Q, h, M)'
  <2>1. x # h /\ <<x, h>> \notin M
    BY NotOnList, Zenon DEF Core
  <2> QED BY <1>2, <1>4, <2>1, Zenon
          DEF Core, Role, Starting, Waiting, Gone, Fresh, queue, NeedLogSync
<1>7. Exiting(Q, M)'
  BY <1>1, <1>2, OffListExiting, Zenon
<1>8. Grouped(Q, h, M)'
  BY <1>2, GroupedSame, Zenon DEF Core, queue
<1> QED BY <1>5, <1>6, <1>7, <1>8, Zenon DEF Core

\* The end of a leader's WriteImpl keeps the invariant.
LEMMA ReportCore ==
  ASSUME Types, NEW Q, NEW h, NEW M, Ends(Q, h), Core(Q, h, M),
         NEW w \in Writer, Report(w)
  PROVE  Core(Q, h, M)'
<1>1. PICK label \in {"done", "unlink"} :
        /\ pc[w] = "report" /\ pc' = [pc EXCEPT ![w] = label]
        /\ label = "done" <=> w \in exited
  BY Zenon DEF Report, Goto
<1>2. UNCHANGED <<queue, state, request, group, exited, cursor, status,
                  parallel_group, pgStatus, running, failed>>
  BY Zenon DEF Report, shared
<1>3. pc'[w] = label /\ \A x \in Writer : x # w => pc'[x] = pc[x]
  BY <1>1, Zenon DEF Types
<1>4. Exiting(Q, M)'
  BY <1>1, <1>2, OffListExiting, Zenon
<1>5. Grouped(Q, h, M)'
  BY <1>2, GroupedSame, Zenon DEF Core, queue
<1>6. CASE w \notin Q
  <2>1. (\A x \in Q : Role(x, Q, h, M)') /\ Counting(h, M)' /\ Launching(h)'
    <3>1. \A y \in Q : /\ pc'[y] = pc[y] /\ state'[y] = state[y]
                       /\ status'[y] = status[y] /\ cursor'[y] = cursor[y]
                       /\ y \in exited' <=> y \in exited
      BY <1>2, <1>3, <1>6, Zenon DEF Ends
    <3> QED BY <1>2, <3>1, OnListFrame, Zenon
  <2>2. label = "done"
    BY <1>1, <1>6, Zenon DEF Core, Role, Gone
  <2>3. ASSUME NEW x \in Writer \ Q PROVE Role(x, Q, h, M)'
    <3>1. x # h /\ <<x, h>> \notin M
      BY NotOnList, Zenon DEF Core
    <3> QED BY <1>1, <1>2, <1>3, <2>2, <3>1, Zenon
            DEF Core, Role, Starting, Waiting, Gone, Fresh, queue, NeedLogSync
  <2> QED BY <1>4, <1>5, <2>1, <2>3, Zenon DEF Core
<1>7. CASE w \in Q
  <2>1. w = h /\ h \in Writer /\ Leading(h)
    BY <1>1, <1>7, Zenon DEF Ends, Core, Role, Waiting, Following
  <2>2. \A x \in Writer : x # h /\ <<x, h>> \in M =>
          pc[x] = "wait" \/ (pc[x] = "joined" /\ parallel_group[x] = Null /\ parallel_group[h] = Null)
    <3> SUFFICES ASSUME NEW x \in Writer, x # h, <<x, h>> \in M
                 PROVE  \/ pc[x] = "wait"
                        \/ pc[x] = "joined" /\ parallel_group[x] = Null /\ parallel_group[h] = Null
      BY Zenon
    <3>1. Following(x, h, M)
      BY Zenon DEF Core, Role
    <3> QED BY <1>1, <2>1, <3>1, Zenon DEF Following
  <2>3. \A x \in Writer : Role(x, Q, h, M)'
    <3>1. Leading(h)'
      BY <1>1, <1>2, <1>3, <2>1, Zenon DEF Leading, NeedLogSync
    <3>2. ASSUME NEW x \in Writer, x # h, <<x, h>> \in M
          PROVE  pc'[x] # "start" /\ Following(x, h, M)'
      <4>1. Following(x, h, M) /\ pc'[x] = pc[x]
        BY <1>3, <2>1, <3>2, Zenon DEF Core, Role
      <4>2. CASE pc[x] = "wait"
        <5>1. parallel_group[x] = h /\ pc'[x] = "wait"
          BY <4>1, <4>2, Zenon DEF Following
        <5> QED BY <1>2, <2>1, <3>2, <5>1, WaiterFollows, Zenon
      <4>3. CASE pc[x] = "joined" /\ parallel_group[x] = Null /\ parallel_group[h] = Null
        BY <1>2, <2>1, <3>2, <4>1, <4>3, NotLaunched, Zenon DEF Following
      <4> QED BY <2>2, <3>2, <4>2, <4>3, Zenon
    <3>3. \A x \in Writer : x # h /\ <<x, h>> \in M => pc'[x] # "start" /\ Following(x, h, M)'
      BY <3>2, Zenon
    <3>4. \A x \in Writer : x # h /\ <<x, h>> \notin M => Same(x)
      BY <1>2, <1>3, <2>1, Zenon DEF Same, queue
    <3>5. /\ pc'[h] # "start" /\ h \in Q
          /\ \A x \in Writer : pgStatus'[x] = "fail" => "insert" \in failed'
      BY <1>2, <1>3, <1>7, <2>1, Zenon DEF Core, Role
    <3> QED BY <2>1, <3>1, <3>3, <3>4, <3>5, GroupRoles, Zenon
  <2>4. Counting(h, M)'
    <3>1. \A x \in Writer : pc'[x] = pc[x] \/ (pc[x] = "report" /\ pc'[x] \in {"done", "unlink"})
      BY <1>1, <1>3, Zenon
    <3> QED BY <1>2, <3>1, CountingSame, Zenon DEF Core
  <2>5. Launching(h)'
    BY <1>1, <1>3, <2>1, Zenon DEF Launching
  <2> QED BY <1>4, <1>5, <2>3, <2>4, <2>5, Zenon DEF Core
<1> QED BY <1>6, <1>7, Zenon

\* A leader that is woken keeps the invariant.
LEMMA LeaderWakesCore ==
  ASSUME Types, NEW Q, NEW h, NEW M, Ends(Q, h), Core(Q, h, M),
         NEW w \in Writer, LeaderWakes(w)
  PROVE  Core(Q, h, M)'
<1>1. pc[w] = "wait" /\ parallel_group[w] = w /\ state[w] = "COMPLETED"
  BY Zenon DEF LeaderWakes, Leader
<1>2. UNCHANGED <<queue, state, request, group, cursor, status,
                  parallel_group, pgStatus, running, failed>>
  BY Zenon DEF LeaderWakes
<1>3. /\ pc' = [pc EXCEPT ![w] = "report"]
      /\ \/ exited' = exited /\ ~(~NeedLogSync(w) /\ status[w] = "ok")
         \/ exited' = exited \cup {w} /\ ~NeedLogSync(w) /\ status[w] = "ok"
  <2>1. CASE ~(EarlyExitAllowed(w) /\ status[w] = "ok") /\ status' = status /\ AfterApply(w)
    <3>1. ~(~NeedLogSync(w) /\ status[w] = "ok")
      BY <1>1, <2>1, Zenon DEF EarlyExitAllowed, Leader
    <3>2. CASE status'[w] = "ok"
      BY <2>1, <3>1, <3>2, Zenon DEF AfterApply, Goto
    <3>3. CASE status'[w] = "fail"
      BY <2>1, <3>1, <3>3, Zenon DEF AfterApply, Goto
    <3> QED BY <2>1, <3>2, <3>3, Zenon DEF AfterApply
  <2>2. CASE EarlyExitAllowed(w) /\ status[w] = "ok" /\ exited' = exited \cup {w} /\ Goto(w, "report")
    BY <1>1, <2>2, Zenon DEF EarlyExitAllowed, Leader, Goto
  <2> QED BY <2>1, <2>2, Zenon DEF LeaderWakes
<1>4. pc'[w] = "report" /\ \A x \in Writer : x # w => pc'[x] = pc[x] /\ (x \in exited' <=> x \in exited)
  BY <1>3, Zenon DEF Types
<1>5. Exiting(Q, M)'
  BY <1>1, <1>2, <1>3, OffListExiting, Zenon
<1>6. Grouped(Q, h, M)'
  BY <1>2, GroupedSame, Zenon DEF Core, queue
<1>7. CASE w \notin Q
  <2>1. (\A x \in Q : Role(x, Q, h, M)') /\ Counting(h, M)' /\ Launching(h)'
    <3>1. \A y \in Q : /\ pc'[y] = pc[y] /\ state'[y] = state[y]
                       /\ status'[y] = status[y] /\ cursor'[y] = cursor[y]
                       /\ y \in exited' <=> y \in exited
      BY <1>2, <1>4, <1>7, Zenon DEF Ends
    <3> QED BY <1>2, <3>1, OnListFrame, Zenon
  <2>2. w \in exited'
    BY <1>1, <1>3, <1>7, Zenon DEF Core, Role, Gone
  <2>3. ASSUME NEW x \in Writer \ Q PROVE Role(x, Q, h, M)'
    <3>1. x # h /\ <<x, h>> \notin M
      BY NotOnList, Zenon DEF Core
    <3> QED BY <1>1, <1>2, <1>4, <2>2, <3>1, Zenon
            DEF Core, Role, Starting, Waiting, Gone, Fresh, queue, NeedLogSync
  <2> QED BY <1>5, <1>6, <2>1, <2>3, Zenon DEF Core
<1>8. CASE w \in Q
  <2>1. w = h /\ h \in Writer /\ Leading(h)
    BY <1>1, <1>8, Zenon DEF Ends, Core, Role, Waiting, Following
  <2>2. \A x \in Writer : x # h /\ <<x, h>> \in M => pc[x] = "wait" /\ parallel_group[x] = h
    <3> SUFFICES ASSUME NEW x \in Writer, x # h, <<x, h>> \in M
                 PROVE  pc[x] = "wait" /\ parallel_group[x] = h
      BY Zenon
    <3>1. Following(x, h, M) /\ parallel_group[h] = h /\ h # Null
      BY <1>1, <2>1, WriterAssumption, Zenon DEF Core, Role
    <3> QED BY <1>1, <2>1, <3>1, Zenon DEF Following
  <2>3. h \in exited' => "insert" \in failed
    BY <1>1, <1>3, <2>1, Zenon DEF Leading, Core, Role
  <2>4. \A x \in Writer : Role(x, Q, h, M)'
    <3>1. Leading(h)'
      <4>1. NeedLogSync(h)' <=> NeedLogSync(h)
        BY <1>2, Zenon DEF NeedLogSync
      <4>2. pc'[h] = "report" /\ state'[h] = "COMPLETED" /\ parallel_group'[h] = h
        BY <1>1, <1>2, <1>4, <2>1, Zenon
      <4>3. /\ NeedLogSync(h) \/ pgStatus[h] = "fail"
            /\ group[h] # <<>>
        BY <1>1, <2>1, Zenon DEF Leading
      <4> QED BY <1>2, <2>3, <4>1, <4>2, <4>3, Zenon DEF Leading
    <3>2. \A x \in Writer : x # h /\ <<x, h>> \in M => pc'[x] # "start" /\ Following(x, h, M)'
      <4> SUFFICES ASSUME NEW x \in Writer, x # h, <<x, h>> \in M
                   PROVE  pc'[x] # "start" /\ Following(x, h, M)'
        BY Zenon
      <4>1. parallel_group[x] = h /\ pc'[x] = "wait"
        BY <1>4, <2>1, <2>2, Zenon
      <4> QED BY <1>2, <2>1, <4>1, WaiterFollows, Zenon
    <3>3. \A x \in Writer : x # h /\ <<x, h>> \notin M => Same(x)
      BY <1>2, <1>4, <2>1, Zenon DEF Same, queue
    <3>4. /\ pc'[h] # "start" /\ h \in Q
          /\ \A x \in Writer : pgStatus'[x] = "fail" => "insert" \in failed'
      BY <1>2, <1>4, <1>8, <2>1, Zenon DEF Core, Role
    <3> QED BY <2>1, <3>1, <3>2, <3>3, <3>4, GroupRoles, Zenon
  <2>5. Counting(h, M)'
    <3>1. \A x \in Writer : pc'[x] = pc[x] \/ (pc[x] = "wait" /\ pc'[x] = "report")
      BY <1>1, <1>4, Zenon
    <3> QED BY <1>2, <3>1, CountingSame, Zenon DEF Core
  <2>6. Launching(h)'
    BY <1>1, <1>4, <2>1, Zenon DEF Launching
  <2> QED BY <1>5, <1>6, <2>4, <2>5, <2>6, Zenon DEF Core
<1> QED BY <1>7, <1>8, Zenon

\* A writer belongs to the group it leads.
LEMMA LeaderIsMember ==
  ASSUME Types, NEW Q, NEW h, NEW M, Grouped(Q, h, M), NEW l \in Writer, group[l] # <<>>
  PROVE  <<l, l>> \in M /\ 1 \in 1..Len(group[l]) /\ group[l][1] = l
<1>1. group[l] \in Seq(Writer) /\ group[l][1] = l
  BY Zenon DEF Types, Grouped
<1>2. 1 \in 1..Len(group[l])
  BY <1>1
<1> QED BY <1>1, <1>2, Zenon DEF Grouped

\* Completing one follower of a group that left the list keeps the invariant: the
\* link to the next one is read before the writer may be gone.
LEMMA CompleteNextCore ==
  ASSUME Types, NEW Q, NEW h, NEW M, Ends(Q, h), Core(Q, h, M),
         NEW t \in Writer, CompleteNext(t)
  PROVE  Core(Q, h, M)'
<1> DEFINE l == Led(t)
           g == group[l]
           y == cursor[t]
<1>1. pc[t] = "complete" /\ y # l /\ Exits(t, Q, M)
  BY Zenon DEF CompleteNext, Core, Exiting
<1>2. UNCHANGED <<queue, request, pc, group, exited, parallel_group, pgStatus,
                  running, failed>>
  BY Zenon DEF CompleteNext, db
<1>3. /\ \E s \in Status : status' = [status EXCEPT ![y] = s]
      /\ state' = [state EXCEPT ![y] = "COMPLETED"]
      /\ cursor' = [cursor EXCEPT ![t] = link_older[y]]
  <2>1. /\ status' = [status EXCEPT ![y] = ExitStatus(t)]
        /\ state' = [state EXCEPT ![y] = "COMPLETED"]
        /\ cursor' = [cursor EXCEPT ![t] = link_older[y]]
    BY Zenon DEF CompleteNext
  <2>2. ExitStatus(t) \in Status
    BY <1>1, Zenon DEF ExitStatus, Exits, Types
  <2> QED BY <2>1, <2>2, Zenon
<1>4. l \in Writer \ Q /\ <<t, l>> \in M /\ t \notin Q
  BY <1>1, OffList, Zenon DEF Exits, Core
<1>5. PICK c \in 1..Len(g) : y = g[c] /\ \A i \in 2..c : ToComplete(t, g[i])
  BY <1>1, Zenon DEF Exits
<1>6. g \in Seq(Writer) /\ Len(g) \in Nat /\ g[1] = l
  BY <1>4, <1>5, SMTT(30) DEF Types, Core, Grouped
<1>7. c \in 2..c /\ c - 1 \in 1..Len(g) /\ c \in Nat /\ c - 1 \in 1..(Len(g) - 1) /\ (c - 1) + 1 = c
  BY <1>1, <1>5, <1>6
<1>8. y \in Writer \ Q /\ <<y, l>> \in M
  BY <1>4, <1>5, OffList, Zenon DEF Core
<1>9. ToComplete(t, y)
  BY <1>5, <1>7, Zenon
<1>10. group[y] = <<>> /\ parallel_group[y] # y
  <2>1. ASSUME group[y] # <<>> PROVE FALSE
    <3>1. <<y, y>> \in M
      BY <1>8, <2>1, LeaderIsMember, Zenon DEF Core
    <3> QED BY <1>1, <1>4, <1>8, <3>1, Zenon DEF Core, Grouped
  <2> QED BY <1>8, <2>1, Zenon DEF Core, Role
<1>11. link_older[y] = g[c - 1]
  BY <1>4, <1>5, <1>7 DEF Core, Grouped
<1> HIDE DEF l, g, y
<1>12. /\ cursor'[t] = g[c - 1] /\ \A x \in Writer : x # t => cursor'[x] = cursor[x]
       /\ state'[y] = "COMPLETED"
       /\ \A x \in Writer : x # y => state'[x] = state[x] /\ status'[x] = status[x]
  BY <1>3, <1>8, <1>11, Zenon DEF Types
<1>13. (\A x \in Q : Role(x, Q, h, M)') /\ Counting(h, M)' /\ Launching(h)'
  <2>1. \A x \in Q : /\ pc'[x] = pc[x] /\ state'[x] = state[x]
                     /\ status'[x] = status[x] /\ cursor'[x] = cursor[x]
                     /\ x \in exited' <=> x \in exited
    BY <1>2, <1>4, <1>8, <1>12, Zenon DEF Ends
  <2> QED BY <1>2, <2>1, OnListFrame, Zenon
<1>14. ASSUME NEW x \in Writer \ Q PROVE Role(x, Q, h, M)'
  <2>1. x # h /\ <<x, h>> \notin M
    BY NotOnList, Zenon DEF Core
  <2>2. CASE x = y
    BY <1>1, <1>2, <1>9, <1>10, <1>12, <2>1, <2>2, Zenon
       DEF Core, Role, Starting, Waiting, Gone, Fresh, queue, NeedLogSync, ToComplete
  <2>3. CASE x # y
    BY <1>1, <1>2, <1>12, <2>1, <2>3, SMTT(30)
       DEF Core, Role, Starting, Waiting, Gone, Fresh, queue, NeedLogSync
  <2> QED BY <2>2, <2>3, Zenon
<1>15. Exiting(Q, M)'
  <2>1. \A u \in Writer : Led(u)' = Led(u)
    BY <1>2, Zenon DEF Led, Leader
  <2>2. SUFFICES ASSUME NEW u \in Writer, pc[u] = "complete"
                 PROVE  Exits(u, Q, M)'
    BY <1>2, Zenon DEF Exiting
  <2>3. Exits(u, Q, M)
    BY <2>2, Zenon DEF Core, Exiting
  <2> DEFINE k == Led(u)
  <2>4. k \in Writer \ Q /\ <<u, k>> \in M
    BY <2>3, Zenon DEF Exits
  <2>5. u # k => pc[k] = "wait" /\ state[k] = "GROUP_LEADER" /\ parallel_group[k] = k
    BY <2>3, Zenon DEF Exits
  <2>6. u # k => state'[k] = "GROUP_LEADER"
    <3>1. u # k => k # y
      BY <1>10, <2>5, Zenon
    <3> QED BY <1>12, <2>4, <2>5, <3>1, Zenon
  <2>7. \A v \in Writer : pc[v] = "complete" /\ Led(v) = k => v = u
    BY <2>3, Zenon DEF Exits
  <2>8. \E d \in 1..Len(group[k]) :
          cursor'[u] = group[k][d] /\ \A i \in 2..d : ToComplete(u, group[k][i])'
    <3>1. CASE u = t
      <4>1. k = l
        BY <3>1, Zenon DEF l
      <4>2. g' = g /\ g = group[k] /\ group[k]' = group[k]
        BY <1>2, <2>1, <4>1, Zenon DEF g, l
      <4>3. ASSUME NEW i \in 2..(c - 1) PROVE ToComplete(u, g[i])'
        <5>1. i \in 2..c /\ i \in 1..Len(g) /\ c \in 1..Len(g) /\ i # c
          BY <1>6, <1>7, SMTT(30)
        <5>2. g[i] # y /\ g[i] \in Writer
          BY <1>4, <1>5, <1>6, <5>1, SMTT(30) DEF Core, Grouped, g
        <5>3. ToComplete(t, g[i])
          BY <1>5, <5>1, Zenon
        <5> QED BY <1>2, <1>4, <1>12, <3>1, <4>2, <5>2, <5>3, Zenon DEF ToComplete
      <4> HIDE DEF k
      <4> QED BY <1>7, <1>12, <3>1, <4>2, <4>3, Zenon
    <3>2. CASE u # t
      <4>1. k # l
        BY <1>1, <2>2, <2>7, <3>2, Zenon DEF l
      <4>2. PICK d \in 1..Len(group[k]) :
              cursor[u] = group[k][d] /\ \A i \in 2..d : ToComplete(u, group[k][i])
        BY <2>3, Zenon DEF Exits
      <4>3. ASSUME NEW i \in 2..d PROVE ToComplete(u, group[k][i])'
        <5>1. i \in 1..Len(group[k])
          BY <2>4, <4>2 DEF Types
        <5>2. group[k][i] \in Writer /\ <<group[k][i], k>> \in M
          BY <2>4, <5>1, OffList, Zenon DEF Core
        <5>3. group[k][i] # y
          BY <1>4, <1>8, <2>4, <4>1, <5>2, SMTT(30) DEF Core, Grouped
        <5>4. ToComplete(u, group[k][i])
          BY <4>2, Zenon
        <5> QED BY <1>2, <1>12, <2>1, <5>2, <5>3, <5>4, Zenon DEF ToComplete
      <4> QED BY <1>12, <3>2, <4>2, <4>3, Zenon
    <3> QED BY <3>1, <3>2, Zenon
  <2> HIDE DEF k
  <2> QED BY <1>2, <2>1, <2>4, <2>5, <2>6, <2>7, <2>8, Zenon DEF Exits, k
<1>16. Grouped(Q, h, M)'
  BY <1>2, GroupedSame, Zenon DEF Core, queue
<1> QED BY <1>13, <1>14, <1>15, <1>16, Zenon DEF Core

\* The end of ExitAsBatchGroupLeader keeps the invariant.
LEMMA ExitDoneCore ==
  ASSUME Types, NEW Q, NEW h, NEW M, Ends(Q, h), Core(Q, h, M),
         NEW t \in Writer, ExitDone(t)
  PROVE  Core(Q, h, M)'
<1> DEFINE l == Led(t)
<1>1. pc[t] = "complete" /\ cursor[t] = l /\ Exits(t, Q, M)
  BY Zenon DEF ExitDone, Core, Exiting
<1>2. UNCHANGED <<queue, request, group, exited, status, parallel_group, pgStatus,
                  running, failed>>
  BY Zenon DEF ExitDone, shared, db
<1>3. l \in Writer \ Q /\ <<t, l>> \in M /\ t \notin Q
  BY <1>1, OffList, Zenon DEF Exits, Core
<1>4. /\ cursor' = [cursor EXCEPT ![t] = Null]
      /\ \E label \in {"report", "done"} :
           pc' = [pc EXCEPT ![t] = label] /\ (label = "report" => t \in exited)
      /\ \/ t = l /\ state' = state
         \/ t # l /\ state' = [state EXCEPT ![l] = "COMPLETED"]
  <2>1. CASE t = l
    BY <2>1, Zenon DEF ExitDone, Goto
  <2>2. CASE t # l
    BY <2>2, Zenon DEF ExitDone, Goto
  <2> QED BY <2>1, <2>2, Zenon
<1>5. t # l => pc[l] = "wait" /\ state[l] = "GROUP_LEADER" /\ parallel_group[l] = l
  BY <1>1, Zenon DEF Exits
<1> HIDE DEF l
<1>6. /\ pc'[t] \in {"report", "done"} /\ (pc'[t] = "report" => t \in exited)
      /\ \A x \in Writer : x # t => pc'[x] = pc[x] /\ cursor'[x] = cursor[x]
      /\ \A x \in Writer : x # l => state'[x] = state[x]
      /\ state'[l] = state[l] \/ state'[l] = "COMPLETED"
  BY <1>3, <1>4, ZenonT(40) DEF Types
<1>7. (\A x \in Q : Role(x, Q, h, M)') /\ Counting(h, M)' /\ Launching(h)'
  <2>1. \A x \in Q : /\ pc'[x] = pc[x] /\ state'[x] = state[x]
                     /\ status'[x] = status[x] /\ cursor'[x] = cursor[x]
                     /\ x \in exited' <=> x \in exited
    BY <1>2, <1>3, <1>6, Zenon DEF Ends
  <2> QED BY <1>2, <2>1, OnListFrame, Zenon
<1>8. ASSUME NEW x \in Writer \ Q PROVE Role(x, Q, h, M)'
  <2>1. x # h /\ <<x, h>> \notin M
    BY NotOnList, Zenon DEF Core
  <2>2. pc[l] \in {"complete", "wait"}
    BY <1>1, <1>5, Zenon
  <2> QED BY <1>1, <1>2, <1>6, <2>1, <2>2, SMTT(30)
       DEF Core, Role, Starting, Waiting, Gone, Fresh, queue, NeedLogSync
<1>9. Exiting(Q, M)'
  <2>1. \A u \in Writer : Led(u)' = Led(u)
    BY <1>2, Zenon DEF Led, Leader
  <2>2. SUFFICES ASSUME NEW u \in Writer, pc'[u] = "complete"
                 PROVE  Exits(u, Q, M)'
    BY Zenon DEF Exiting
  <2>3. u # t /\ pc[u] = "complete" /\ Exits(u, Q, M)
    BY <1>6, <2>2, Zenon DEF Core, Exiting
  <2> DEFINE k == Led(u)
  <2>4. k \in Writer \ Q /\ <<u, k>> \in M
    BY <2>3, Zenon DEF Exits
  <2>5. k # l
    BY <1>1, <2>3, Zenon DEF Exits, l
  <2>6. u # k => pc'[k] = "wait" /\ state'[k] = "GROUP_LEADER" /\ parallel_group[k] = k
    <3>1. u # k => pc[k] = "wait" /\ state[k] = "GROUP_LEADER" /\ parallel_group[k] = k
      BY <2>3, Zenon DEF Exits
    <3>2. u # k => k # t
      BY <1>1, <3>1, Zenon
    <3> QED BY <1>6, <2>4, <2>5, <3>1, <3>2, Zenon
  <2>7. \A v \in Writer : pc'[v] = "complete" /\ Led(v) = k => v = u
    BY <1>6, <2>3, Zenon DEF Exits
  <2>8. PICK d \in 1..Len(group[k]) :
              cursor[u] = group[k][d] /\ \A i \in 2..d : ToComplete(u, group[k][i])
    BY <2>3, Zenon DEF Exits
  <2>9. ASSUME NEW i \in 2..d PROVE ToComplete(u, group[k][i])'
    <3>1. i \in 1..Len(group[k])
      BY <2>4, <2>8 DEF Types
    <3>2. group[k][i] \in Writer /\ <<group[k][i], k>> \in M
      BY <2>4, <3>1, OffList, Zenon DEF Core
    <3>3. <<l, l>> \in M
      <4>1. group[l] # <<>>
        BY <1>1, <1>3, SMTT(30) DEF Exits, l, Types
      <4> QED BY <1>3, <4>1, LeaderIsMember, Zenon DEF Core
    <3>4. group[k][i] # l /\ group[k][i] # t
      <4>1. \A a, b, x \in Writer : <<x, a>> \in M /\ <<x, b>> \in M => a = b
        BY Zenon DEF Core, Grouped
      <4> QED BY <1>3, <2>4, <2>5, <3>2, <3>3, <4>1, Zenon
    <3>5. ToComplete(u, group[k][i])
      BY <2>8, Zenon
    <3> QED BY <1>2, <1>6, <2>1, <3>2, <3>4, <3>5, Zenon DEF ToComplete
  <2>10. cursor'[u] = group[k][d]
    BY <1>6, <2>3, <2>8, Zenon
  <2> HIDE DEF k
  <2> QED BY <1>2, <2>1, <2>4, <2>6, <2>7, <2>8, <2>9, <2>10, Zenon DEF Exits, k
<1>10. Grouped(Q, h, M)'
  BY <1>2, GroupedSame, Zenon DEF Core, queue
<1> QED BY <1>7, <1>8, <1>9, <1>10, Zenon DEF Core

\* LinkOne keeps the invariant; the list has one more writer, who leads if it is
\* alone.
LEMMA JoinBatchGroupCore ==
  ASSUME Types, NEW Q, NEW h, NEW M, Ends(Q, h), Core(Q, h, M),
         newest_writer = Null <=> Q = {},
         NEW w \in Writer, JoinBatchGroup(w),
         NEW k, k = IF Q = {} THEN w ELSE h
  PROVE  Core(Q \cup {w}, k, M)'
<1>1. /\ pc[w] = "start" /\ w \notin Q /\ Fresh(w)
      /\ \A l \in Writer : <<w, l>> \notin M
  BY Zenon DEF JoinBatchGroup, Core, Role, Starting
<1>2. UNCHANGED <<link_newer, request, group, exited, status, cursor, parallel_group,
                  pgStatus, running, failed>>
  BY Zenon DEF JoinBatchGroup, LinkOne, shared, db
<1>3. /\ pc'[w] = "joined" /\ \A x \in Writer \ {w} : pc'[x] = pc[x]
      /\ \A x \in Writer \ {w} : link_older'[x] = link_older[x] /\ state'[x] = state[x]
      /\ state'[w] = IF Q = {} THEN "GROUP_LEADER" ELSE state[w]
  BY Zenon DEF JoinBatchGroup, LinkOne, Goto, Types
<1>4. \A x \in Writer : <<x, w>> \notin M
  BY <1>1, SMTT(30) DEF Core, Grouped, Fresh
<1>5. /\ \A x, l \in Writer : <<x, l>> \in M => (x \in Q \cup {w} <=> l = k)
      /\ Q # {} => k = h /\ h \in Q
      /\ Q = {} => k = w /\ h = Null
  BY <1>1, <1>4, WriterAssumption, ZenonT(40) DEF Ends, Core, Grouped
<1>6. Grouped(Q \cup {w}, k, M)'
  <2>1. ASSUME NEW l \in Writer, NEW i \in 1..(Len(group[l]) - 1)
        PROVE  link_older'[group[l][i + 1]] = group[l][i]
    <3>1. i + 1 \in 1..Len(group[l])
      BY DEF Types
    <3>2. group[l][i + 1] \in Writer /\ <<group[l][i + 1], l>> \in M
      BY <3>1, SMTT(30) DEF Types, Core, Grouped
    <3>3. group[l][i + 1] # w
      BY <1>1, <3>2, Zenon
    <3>4. link_older[group[l][i + 1]] = group[l][i]
      BY Zenon DEF Core, Grouped
    <3> QED BY <1>3, <3>2, <3>3, <3>4, Zenon
  <2>2. \A l \in Writer : \A i \in 1..(Len(group[l]) - 1) :
          link_newer[group[l][i]] = group[l][i + 1]
    BY SMTT(30) DEF Core, Grouped
  <2>3. /\ M \subseteq Writer \X Writer
        /\ \A x, l \in Writer : <<x, l>> \in M <=> \E i \in 1..Len(group[l]) : group[l][i] = x
        /\ \A l \in Writer : group[l] # <<>> => group[l][1] = l
        /\ \A l \in Writer : \A i, j \in 1..Len(group[l]) : group[l][i] = group[l][j] => i = j
        /\ \A l, j, x \in Writer : <<x, l>> \in M /\ <<x, j>> \in M => l = j
    BY Zenon DEF Core, Grouped
  <2> QED BY <1>2, <1>5, <2>1, <2>2, <2>3, SMTT(30) DEF Grouped
<1>7. ASSUME NEW x \in Writer PROVE Role(x, Q \cup {w}, k, M)'
  <2>1. CASE x = w /\ Q = {}
    <3>1. Leading(x)'
      BY <1>1, <1>2, <1>3, <2>1, Zenon DEF Leading, Fresh
    <3> QED BY <1>1, <1>2, <1>3, <1>5, <2>1, <3>1, Zenon
         DEF Core, Role, Starting, Waiting
  <2>2. CASE x = w /\ Q # {}
    <3>1. x # k /\ <<x, k>> \notin M
      BY <1>1, <1>5, <2>2, Zenon DEF Ends
    <3>2. Fresh(x)'
      BY <1>1, <1>2, <1>3, <2>2, Zenon DEF Fresh
    <3> QED BY <1>2, <1>3, <2>2, <3>1, <3>2, Zenon DEF Core, Role, Starting, Waiting
  <2>3. CASE x # w /\ x \notin Q
    <3>1. x # k /\ <<x, k>> \notin M
      BY <1>4, <1>5, <2>3, Zenon DEF Ends
    <3>2. pc'[x] = pc[x] /\ state'[x] = state[x] /\ x \notin Q \cup {w}
      BY <1>3, <2>3, Zenon
    <3>3. Starting(x, Q, M) /\ Gone(x)
      BY <2>3, Zenon DEF Core, Role
    <3>4. Starting(x, Q \cup {w}, M)'
      BY <1>2, <3>2, <3>3, Zenon DEF Starting, Fresh
    <3>5. Gone(x)'
      BY <1>2, <3>2, <3>3, Zenon DEF Gone, NeedLogSync
    <3>6. /\ pgStatus[x] = "fail" => "insert" \in failed
          /\ parallel_group[x] = x => group[x] # <<>>
      BY Zenon DEF Core, Role
    <3> QED BY <1>2, <3>1, <3>2, <3>4, <3>5, <3>6, Zenon DEF Role, Waiting
  <2>4. CASE x # w /\ x \in Q
    <3>1. k = h /\ h \in Writer /\ h # w
      BY <1>1, <1>5, <2>4, Zenon DEF Ends
    <3>2. /\ pc'[x] = pc[x] /\ state'[x] = state[x]
          /\ pc'[h] = pc[h] /\ state'[h] = state[h]
          /\ \A y \in Writer : <<y, h>> \in M => pc'[y] = pc[y]
      BY <1>1, <1>3, <2>4, <3>1, Zenon
    <3>3. Leading(x) => Leading(x)'
      BY <1>2, <3>2, Zenon DEF Leading, NeedLogSync
    <3>4. Following(x, h, M) => Following(x, h, M)'
      BY <1>2, <3>1, <3>2, Zenon DEF Following, NeedLogSync
    <3>5. Role(x, Q, h, M)
      BY Zenon DEF Core
    <3>6. Starting(x, Q \cup {w}, M)'
      BY <2>4, <3>2, <3>5, Zenon DEF Role, Starting
    <3>7. Waiting(x, Q \cup {w}, h, M)'
      BY <1>2, <2>4, <3>2, <3>5, Zenon DEF Role, Waiting, Fresh
    <3> QED BY <1>2, <2>4, <3>1, <3>3, <3>4, <3>5, <3>6, <3>7, Zenon DEF Role
  <2> QED BY <2>1, <2>2, <2>3, <2>4, Zenon
<1>8. Counting(k, M)'
  <2>1. CASE Q = {}
    BY <1>1, <1>2, <1>5, <2>1, WriterAssumption, Zenon DEF Counting, Fresh
  <2>2. CASE Q # {}
    <3>1. \A x \in Writer : <<x, h>> \in M => pc'[x] = pc[x]
      BY <1>1, <1>3, <1>5, <2>2, Zenon DEF Ends
    <3>2. Pending(h, M)' = Pending(h, M)
      BY <3>1, Zenon DEF Pending
    <3> QED BY <1>2, <1>5, <2>2, <3>2, Zenon DEF Core, Counting
  <2> QED BY <2>1, <2>2, Zenon
<1>9. Launching(k)'
  <2>1. CASE Q = {}
    BY <1>3, <1>5, <2>1, Zenon DEF Launching
  <2>2. CASE Q # {}
    <3>1. k = h /\ (h \in Writer => pc'[h] = pc[h])
      BY <1>1, <1>3, <1>5, <2>2, Zenon
    <3>2. Launching(h)
      BY Zenon DEF Core
    <3>3. Launching(h)'
      BY <1>2, <3>1, <3>2 DEF Launching
    <3> QED BY <3>1, <3>3, Zenon
  <2> QED BY <2>1, <2>2, Zenon
<1>10. Exiting(Q \cup {w}, M)'
  <2>1. \A u \in Writer : Led(u)' = Led(u)
    BY <1>2, Zenon DEF Led, Leader
  <2>2. SUFFICES ASSUME NEW u \in Writer, pc'[u] = "complete"
                 PROVE  Exits(u, Q \cup {w}, M)'
    BY Zenon DEF Exiting
  <2>3. u # w /\ pc[u] = "complete" /\ Exits(u, Q, M)
    BY <1>3, <2>2, Zenon DEF Core, Exiting
  <2> DEFINE l == Led(u)
  <2>4. l \in Writer \ Q /\ <<u, l>> \in M /\ l # w
    BY <1>4, <2>3, Zenon DEF Exits
  <2>5. u # l => pc'[l] = "wait" /\ state'[l] = "GROUP_LEADER" /\ parallel_group[l] = l
    BY <1>3, <2>3, <2>4, Zenon DEF Exits
  <2>6. \A v \in Writer : pc'[v] = "complete" /\ Led(v) = l => v = u
    BY <1>3, <2>3, Zenon DEF Exits
  <2>7. PICK d \in 1..Len(group[l]) :
              cursor[u] = group[l][d] /\ \A i \in 2..d : ToComplete(u, group[l][i])
    BY <2>3, Zenon DEF Exits
  <2>8. ASSUME NEW i \in 2..d PROVE ToComplete(u, group[l][i])'
    <3>1. i \in 1..Len(group[l])
      BY <2>4, <2>7 DEF Types
    <3>2. group[l][i] \in Writer /\ <<group[l][i], l>> \in M
      BY <2>4, <3>1, OffList, Zenon DEF Core
    <3>3. group[l][i] # w
      BY <1>1, <2>4, <3>2, Zenon
    <3>4. ToComplete(u, group[l][i])
      BY <2>7, Zenon
    <3> QED BY <1>2, <1>3, <2>1, <3>2, <3>3, <3>4, SMTT(30) DEF ToComplete
  <2> HIDE DEF l
  <2> QED BY <1>2, <2>1, <2>4, <2>5, <2>6, <2>7, <2>8, Zenon DEF Exits, l
<1> QED BY <1>6, <1>7, <1>8, <1>9, <1>10, Zenon DEF Core

\* N: the pairs of M, and those of a group g that l forms.
Formed(N, M, g, l) == N = M \cup {<<g[i], l>> : i \in 1..Len(g)}

\* g: writers of the list, h the first of them.
Chosen(g, Q, h) ==
  /\ g \in Seq(Writer) /\ g # <<>> /\ g[1] = h
  /\ \A i \in 1..Len(g) : g[i] \in Q
  /\ \A i, j \in 1..Len(g) : g[i] = g[j] => i = j

\* The links of the chosen writers after the step that creates them.
Linked(g, Q) ==
  /\ \A i \in 1..(Len(g) - 1) :
       link_newer'[g[i]] = g[i + 1] /\ link_older[g[i + 1]] = g[i]
  /\ \A x \in Writer \ Q : link_newer'[x] = link_newer[x]

\* The pairs of a new group are those of its leader h.
NewPairs(Q, h, M, g, N) ==
  /\ h \in Writer /\ N \subseteq Writer \X Writer
  /\ \A x \in Writer : <<x, h>> \notin M
  /\ \A x \in Q : \A l \in Writer : <<x, l>> \notin M
  /\ \A x \in Writer : <<x, h>> \in N <=> \E i \in 1..Len(g) : g[i] = x
  /\ \A x \in Writer : <<x, h>> \in N => x \in Q
  /\ \A x \in Writer : \A l \in Writer : l # h => (<<x, l>> \in N <=> <<x, l>> \in M)

\* The pairs that a new group adds are those of the first writer, which had none.
LEMMA FormedPairs ==
  ASSUME Types, NEW Q, NEW h \in Q, NEW M, Ends(Q, h), Grouped(Q, h, M),
         group[h] = <<>>, NEW g, Chosen(g, Q, h), NEW N, Formed(N, M, g, h)
  PROVE  NewPairs(Q, h, M, g, N)
<1>1. h \in Writer /\ Q \subseteq Writer
  BY Zenon DEF Ends
<1>2. \A x \in Writer : <<x, h>> \notin M
  BY <1>1 DEF Grouped
<1>3. \A x \in Q : \A l \in Writer : <<x, l>> \notin M
  BY <1>1, <1>2, Zenon DEF Grouped
<1>4. M \subseteq Writer \X Writer
  BY Zenon DEF Grouped
<1>5. \A i \in 1..Len(g) : g[i] \in Q
  BY Zenon DEF Chosen
<1>6. N \subseteq Writer \X Writer
  BY <1>1, <1>4, <1>5 DEF Formed
<1>7. \A x, l : <<x, l>> \in N <=> <<x, l>> \in M \/ (l = h /\ \E i \in 1..Len(g) : g[i] = x)
  BY Zenon DEF Formed
<1>8. \A x \in Writer : <<x, h>> \in N <=> \E i \in 1..Len(g) : g[i] = x
  BY <1>2, <1>7, Zenon
<1>9. \A x \in Writer : <<x, h>> \in N => x \in Q
  BY <1>5, <1>8, Zenon
<1>10. \A x \in Writer : \A l \in Writer : l # h => (<<x, l>> \in N <=> <<x, l>> \in M)
  BY <1>7, SMTT(30)
<1> QED BY <1>1, <1>2, <1>3, <1>6, <1>8, <1>9, <1>10, Zenon DEF NewPairs

\* The groups after a new one is formed.
LEMMA FormedGrouped ==
  ASSUME Types, NEW Q, NEW h \in Q, NEW M, Ends(Q, h), Grouped(Q, h, M),
         group[h] = <<>>, NEW g, Chosen(g, Q, h), Linked(g, Q),
         group' = [group EXCEPT ![h] = g], link_older' = link_older,
         NEW N, Formed(N, M, g, h)
  PROVE  Grouped(Q, h, N)'
<1>1. /\ h \in Writer /\ N \subseteq Writer \X Writer
      /\ \A x \in Writer : <<x, h>> \notin M
      /\ \A x \in Q : \A l \in Writer : <<x, l>> \notin M
      /\ \A x \in Writer : <<x, h>> \in N <=> \E i \in 1..Len(g) : g[i] = x
      /\ \A x \in Writer : <<x, h>> \in N => x \in Q
      /\ \A x \in Writer : \A l \in Writer : l # h => (<<x, l>> \in N <=> <<x, l>> \in M)
  <2>1. NewPairs(Q, h, M, g, N)
    BY FormedPairs, Zenon
  <2> QED BY <2>1, Zenon DEF NewPairs
<1>2. group'[h] = g /\ \A l \in Writer : l # h => group'[l] = group[l]
  BY <1>1 DEF Types
<1>3. ASSUME NEW x \in Writer, NEW l \in Writer
      PROVE  <<x, l>> \in N <=> \E i \in 1..Len(group'[l]) : group'[l][i] = x
  <2>2. CASE l = h
    BY <1>1, <1>2, <2>2
  <2>3. CASE l # h
    <3>1. <<x, l>> \in M <=> \E i \in 1..Len(group[l]) : group[l][i] = x
      BY Zenon DEF Grouped
    <3> QED BY <1>1, <1>2, <2>3, <3>1, Zenon
  <2> QED BY <2>2, <2>3, Zenon
<1>4. \A l \in Writer : group'[l] # <<>> => group'[l][1] = l
  <2>1. g[1] = h /\ \A l \in Writer : group[l] # <<>> => group[l][1] = l
    BY Zenon DEF Chosen, Grouped
  <2> QED BY <1>2, <2>1, Zenon
<1>5. \A l \in Writer : \A i, j \in 1..Len(group'[l]) : group'[l][i] = group'[l][j] => i = j
  <2>1. TAKE l \in Writer
  <2>2. CASE l = h
    BY <1>2, <2>2 DEF Chosen
  <2>3. CASE l # h
    <3>1. \A i, j \in 1..Len(group[l]) : group[l][i] = group[l][j] => i = j
      BY Zenon DEF Grouped
    <3> QED BY <1>2, <2>3, <3>1, Zenon
  <2> QED BY <2>2, <2>3, Zenon
<1>6. ASSUME NEW l \in Writer, NEW i \in 1..(Len(group'[l]) - 1)
      PROVE  /\ link_newer'[group'[l][i]] = group'[l][i + 1]
             /\ link_older'[group'[l][i + 1]] = group'[l][i]
  <2>1. CASE l = h
    BY <1>2, <1>6, <2>1, SMTT(30) DEF Linked
  <2>2. CASE l # h
    <3>1. i \in 1..(Len(group[l]) - 1) /\ group'[l] = group[l] /\ group[l] \in Seq(Writer)
      BY <1>2, <1>6, <2>2, Zenon DEF Types
    <3>2. i \in 1..Len(group[l]) /\ group[l][i] \in Writer
      BY <3>1
    <3>3. group[l][i] \notin Q
      BY <1>1, <3>2, Zenon DEF Grouped
    <3>4. link_newer[group[l][i]] = group[l][i + 1] /\ link_older[group[l][i + 1]] = group[l][i]
      BY <3>1, SMTT(30) DEF Grouped
    <3> QED BY <3>1, <3>2, <3>3, <3>4, Zenon DEF Linked
  <2> QED BY <2>1, <2>2, Zenon
<1>7. ASSUME NEW l \in Writer, NEW k \in Writer, NEW x \in Writer,
             <<x, l>> \in N, <<x, k>> \in N
      PROVE  l = k
  <2>1. CASE x \in Q
    BY <1>1, <1>7, <2>1, Zenon
  <2>2. CASE x \notin Q
    <3>1. <<x, l>> \in M /\ <<x, k>> \in M
      BY <1>1, <1>7, <2>2, Zenon
    <3> QED BY <3>1, Zenon DEF Grouped
  <2> QED BY <2>1, <2>2, Zenon
<1>8. \A l, x \in Writer : <<x, l>> \in N => (x \in Q <=> l = h)
  <2> SUFFICES ASSUME NEW l \in Writer, NEW x \in Writer, <<x, l>> \in N
               PROVE  x \in Q <=> l = h
    BY Zenon
  <2>1. CASE l = h
    BY <1>1, <2>1, Zenon
  <2>2. CASE l # h
    <3>1. <<x, l>> \in M
      BY <1>1, <2>2, Zenon
    <3> QED BY <1>1, <2>2, <3>1, Zenon
  <2> QED BY <2>1, <2>2, Zenon
<1> QED BY <1>1, <1>3, <1>4, <1>5, <1>6, <1>7, <1>8, Zenon DEF Grouped

\* The step that forms a group leaves the groups that exit alone.
LEMMA FormedExiting ==
  ASSUME Types, NEW Q, NEW h \in Q, NEW M, Ends(Q, h), Grouped(Q, h, M), Exiting(Q, M),
         group[h] = <<>>, NEW g, Chosen(g, Q, h),
         NEW label, label # "complete",
         group' = [group EXCEPT ![h] = g], pc' = [pc EXCEPT ![h] = label],
         UNCHANGED <<state, cursor, parallel_group>>,
         NEW N, Formed(N, M, g, h)
  PROVE  Exiting(Q, N)'
<1>1. /\ h \in Writer
      /\ \A x \in Writer : \A l \in Writer : l # h => (<<x, l>> \in N <=> <<x, l>> \in M)
  <2>1. NewPairs(Q, h, M, g, N)
    BY FormedPairs, Zenon
  <2> QED BY <2>1, Zenon DEF NewPairs
<1>2. /\ group'[h] = g /\ \A l \in Writer : l # h => group'[l] = group[l]
      /\ pc'[h] = label /\ \A l \in Writer : l # h => pc'[l] = pc[l]
  BY <1>1, Zenon DEF Types
<1>3. \A u \in Writer : u # h => Led(u)' = Led(u)
  BY <1>2, Zenon DEF Led, Leader
<1>4. SUFFICES ASSUME NEW u \in Writer, pc'[u] = "complete"
               PROVE  Exits(u, Q, N)'
  BY Zenon DEF Exiting
<1>5. u # h /\ pc[u] = "complete" /\ Exits(u, Q, M) /\ Led(u)' = Led(u)
  BY <1>2, <1>3, <1>4, Zenon DEF Exiting
<1>6. PICK l : l = Led(u)
  BY Zenon
<1>7. l \in Writer \ Q /\ <<u, l>> \in N /\ l # h /\ group'[l] = group[l]
  BY <1>1, <1>2, <1>5, <1>6, Zenon DEF Exits
<1>8. u # l => pc'[l] = "wait" /\ state'[l] = "GROUP_LEADER" /\ parallel_group'[l] = l
  BY <1>2, <1>5, <1>6, <1>7, Zenon DEF Exits
<1>9. \A v \in Writer : pc'[v] = "complete" /\ Led(v)' = l => v = u
  <2>1. \A v \in Writer : pc'[v] = "complete" => v # h /\ pc[v] = "complete" /\ Led(v)' = Led(v)
    BY <1>2, <1>3, Zenon
  <2> QED BY <1>5, <1>6, <2>1, Zenon DEF Exits
<1>10. PICK d \in 1..Len(group[l]) :
         cursor[u] = group[l][d] /\ \A i \in 2..d : ToComplete(u, group[l][i])
  BY <1>5, <1>6, Zenon DEF Exits
<1>11. ASSUME NEW i \in 2..d PROVE ToComplete(u, group[Led(u)][i])'
  <2>1. PICK y : y = group[l][i]
    BY Zenon
  <2>2. i \in 1..Len(group[l])
    BY <1>7, <1>10 DEF Types
  <2>3. y \in Writer \ Q
    BY <1>7, <2>1, <2>2, OffList, Zenon
  <2>4. ToComplete(u, y)
    BY <1>10, <2>1, Zenon
  <2>5. ToComplete(u, y)'
    BY <1>2, <2>3, <2>4, Zenon DEF ToComplete
  <2>6. group[Led(u)][i]' = y
    BY <1>5, <1>6, <1>7, <2>1, Zenon
  <2> QED BY <2>5, <2>6, Zenon DEF ToComplete
<1>12. Led(u)' = l /\ cursor'[u] = group'[l][d] /\ d \in 1..Len(group'[l])
  BY <1>5, <1>6, <1>7, <1>10, Zenon
<1> QED BY <1>7, <1>8, <1>9, <1>11, <1>12, Zenon DEF Exits

\* The step of EnterAsBatchGroupLeader, and of a write that is not batched, keeps the
\* invariant: the first writer of the list takes a group.
LEMMA GroupFormedCore ==
  ASSUME Types, NEW Q, NEW h \in Q, NEW M, Ends(Q, h), Core(Q, h, M),
         group[h] = <<>>, parallel_group[h] = Null, Leading(h),
         NEW g, Chosen(g, Q, h), Linked(g, Q),
         NEW label \in {"log", "report", "unlink"},
         group' = [group EXCEPT ![h] = g], pc' = [pc EXCEPT ![h] = label],
         label = "log" => cursor[h] = Null,
         UNCHANGED <<link_older, state, request, exited, cursor, status,
                     parallel_group, pgStatus, running, failed>>,
         NEW N, Formed(N, M, g, h)
  PROVE  Core(Q, h, N)'
<1>1. Grouped(Q, h, M) /\ Exiting(Q, M)
  BY Zenon DEF Core
<1>2. /\ h \in Writer /\ N \subseteq Writer \X Writer
      /\ \A x \in Writer : <<x, h>> \notin M
      /\ \A x \in Q : \A l \in Writer : <<x, l>> \notin M
      /\ \A x \in Writer : <<x, h>> \in N => x \in Q
      /\ \A x \in Writer : \A l \in Writer : l # h => (<<x, l>> \in N <=> <<x, l>> \in M)
  <2>1. NewPairs(Q, h, M, g, N)
    BY <1>1, FormedPairs, Zenon
  <2> QED BY <2>1, Zenon DEF NewPairs
<1>3. /\ group'[h] = g /\ pc'[h] = label
      /\ \A x \in Writer : x # h => group'[x] = group[x] /\ pc'[x] = pc[x]
  BY <1>2, Zenon DEF Types
<1>4. Grouped(Q, h, N)'
  BY <1>1, FormedGrouped, Zenon
<1>5. label \notin {"start", "complete", "launch", "joined", "enter", "count", "wait", "done"}
  BY Zenon
<1>6. ASSUME NEW x \in Writer PROVE Role(x, Q, h, N)'
  <2>1. Role(x, Q, h, M)
    BY Zenon DEF Core
  <2>2. CASE x = h
    <3>1. Leading(h)'
      <4>1. state[h] = "GROUP_LEADER" /\ h \notin exited /\ status[h] = "ok" /\ g # <<>>
        BY WriterAssumption, <1>2, Zenon DEF Leading, Chosen
      <4> QED BY <1>3, <1>5, <4>1, Zenon DEF Leading
    <3>2. pgStatus'[h] = "fail" => "insert" \in failed'
      BY <2>1, <2>2, Zenon DEF Role
    <3>3. pc'[h] # "start"
      BY <1>3, <1>5, Zenon
    <3> QED BY <1>2, <2>2, <3>1, <3>2, <3>3, RoleFirst, Zenon
  <2>3. CASE x # h /\ <<x, h>> \in N
    <3>1. x \in Q /\ <<x, h>> \notin M /\ pc[x] = "joined" /\ Fresh(x)
      BY <1>2, <2>1, <2>3, Zenon DEF Role, Waiting
    <3>2. Following(x, h, N)'
      BY <1>3, <2>3, <3>1, Zenon DEF Following, Fresh
    <3>3. pc'[x] # "start" /\ (pgStatus'[x] = "fail" => "insert" \in failed')
      BY <1>3, <2>1, <2>3, <3>1, Zenon DEF Role
    <3> QED BY <1>2, <2>3, <3>1, <3>2, <3>3, RoleMember, Zenon
  <2>4. CASE x # h /\ <<x, h>> \notin N
    <3>1. pc'[x] = pc[x] /\ group'[x] = group[x]
      BY <1>3, <2>4, Zenon
    <3>2. Starting(x, Q, N)'
      <4>1. SUFFICES ASSUME pc[x] = "start" PROVE Starting(x, Q, N)'
        BY <3>1, Zenon DEF Starting
      <4>2. x \notin Q /\ Fresh(x) /\ link_newer[x] = Null /\ \A l \in Writer : <<x, l>> \notin M
        BY <2>1, <4>1, Zenon DEF Role, Starting
      <4>3. link_newer'[x] = link_newer[x]
        BY <4>2, Zenon DEF Linked
      <4>4. Fresh(x)'
        BY <3>1, <4>2, Zenon DEF Fresh
      <4>5. \A l \in Writer : <<x, l>> \notin N
        BY <1>2, <2>4, <4>2, Zenon
      <4> QED BY <4>2, <4>3, <4>4, <4>5, Zenon DEF Starting
    <3>3. Waiting(x, Q, h, N)'
      BY <1>2, <2>1, <3>1, Zenon DEF Role, Waiting, Fresh
    <3>4. x \notin Q => Gone(x)'
      BY <2>1, <3>1, Zenon DEF Role, Gone, NeedLogSync
    <3> QED BY <2>1, <2>4, <3>1, <3>2, <3>3, <3>4, Zenon DEF Role
  <2> QED BY <2>2, <2>3, <2>4, Zenon
<1>7. Counting(h, N)' /\ Launching(h)'
  BY <1>2, <1>3, <1>5, WriterAssumption, Zenon DEF Counting, Launching
<1>8. Exiting(Q, N)'
  <2>1. label # "complete"
    BY <1>5, Zenon
  <2> QED BY <1>1, <2>1, FormedExiting, Zenon
<1> QED BY <1>4, <1>6, <1>7, <1>8, Zenon DEF Core

\* The thread that unlinks a group is its leader, or the last of its followers.
LEMMA Unlinks ==
  ASSUME Types, NEW Q, NEW h, NEW M, Ends(Q, h), Core(Q, h, M),
         NEW t \in Writer, pc[t] = "unlink"
  PROVE  /\ h \in Q /\ h \in Writer /\ group[h] # <<>> /\ Led(t) = h
         /\ t \in Q /\ <<t, h>> \in M /\ <<h, h>> \in M
         /\ t = h \/ (Following(t, h, M) /\ t # h)
<1>1. t \in Q
  BY Zenon DEF Core, Role, Gone
<1>2. h \in Q /\ h \in Writer
  BY <1>1, Zenon DEF Ends
<1>3. t = h \/ (t # h /\ <<t, h>> \in M /\ Following(t, h, M))
  BY <1>1, Zenon DEF Core, Role, Waiting
<1>4. CASE t = h
  <2>1. group[h] # <<>>
    BY <1>4, <1>2, Zenon DEF Core, Role, Leading
  <2>2. <<h, h>> \in M
    BY <1>2, <2>1, LeaderIsMember, Zenon DEF Core
  <2> QED BY <1>1, <1>2, <1>4, <2>1, <2>2, Zenon DEF Led
<1>5. CASE t # h
  <2>1. group[t] = <<>> /\ parallel_group[t] = h /\ parallel_group[h] = h
    BY <1>3, <1>5, Zenon DEF Following
  <2>2. group[h] # <<>>
    BY <1>2, <2>1, Zenon DEF Core, Role
  <2>3. <<h, h>> \in M
    BY <1>2, <2>2, LeaderIsMember, Zenon DEF Core
  <2> QED BY <1>1, <1>2, <1>3, <1>5, <2>1, <2>2, <2>3, Zenon DEF Led, Leader
<1> QED BY <1>4, <1>5, Zenon

\* R: the writers on the list that are not of h's group.
Remain(R, Q, h, M) == R = {x \in Q : <<x, h>> \notin M}

\* What a step of UnlinkGroup does to the links and to the new leader k.
Relinked(Q, h, k) ==
  /\ \A x \in Writer : x # k => link_older'[x] = link_older[x] /\ state'[x] = state[x]
  /\ k # Null => state'[k] = "GROUP_LEADER"
  /\ \A x \in Writer \ Q : link_newer'[x] = link_newer[x]
  /\ \A i \in 1..(Len(group[h]) - 1) : link_newer'[group[h][i]] = link_newer[group[h][i]]

\* Taking the group off the list keeps the invariant; the next writer leads.
LEMMA UnlinkCore ==
  ASSUME Types, NEW Q, NEW h, NEW M, Ends(Q, h), Core(Q, h, M),
         NEW t \in Writer, pc[t] = "unlink",
         pc' = [pc EXCEPT ![t] = "complete"],
         cursor' = [cursor EXCEPT ![t] = group[h][Len(group[h])]],
         UNCHANGED <<request, group, exited, status, parallel_group, pgStatus,
                     running, failed>>,
         NEW R, Remain(R, Q, h, M), NEW k, Ends(R, k),
         Relinked(Q, h, k)
  PROVE  Core(R, k, M)'
<1>1. /\ \A x \in Writer : x # k => link_older'[x] = link_older[x] /\ state'[x] = state[x]
      /\ k # Null => state'[k] = "GROUP_LEADER"
      /\ \A x \in Writer \ Q : link_newer'[x] = link_newer[x]
      /\ \A i \in 1..(Len(group[h]) - 1) : link_newer'[group[h][i]] = link_newer[group[h][i]]
  BY Zenon DEF Relinked
<1>2. /\ h \in Q /\ h \in Writer /\ group[h] # <<>> /\ Led(t) = h
      /\ t \in Q /\ <<t, h>> \in M /\ <<h, h>> \in M
      /\ t = h \/ (Following(t, h, M) /\ t # h)
  BY Unlinks, Zenon
<1>3. /\ pc'[t] = "complete" /\ \A x \in Writer : x # t => pc'[x] = pc[x] /\ cursor'[x] = cursor[x]
      /\ cursor'[t] = group[h][Len(group[h])]
  BY Zenon DEF Types
<1>4. /\ R \subseteq Q /\ Q \subseteq Writer
      /\ \A x \in Writer : x \in Q \ R <=> <<x, h>> \in M
      /\ \A x, l \in Writer : <<x, l>> \in M => x \notin R /\ l \notin R
  <2>1. \A x \in Writer : <<x, h>> \in M => x \in Q
    BY <1>2, Zenon DEF Core, Grouped
  <2>2. \A l \in Writer : l \in R => group[l] = <<>>
    BY <1>2, Zenon DEF Core, Role, Waiting, Fresh, Ends, Remain
  <2>3. \A x, l \in Writer : <<x, l>> \in M => l \notin R
    BY <2>2, SMTT(30) DEF Core, Grouped
  <2>4. \A x, l \in Writer : <<x, l>> \in M => x \notin R
    BY <1>2, Zenon DEF Core, Grouped, Remain
  <2> QED BY <2>1, <2>3, <2>4, Zenon DEF Ends, Remain
<1>5. k # h /\ (k \in Writer => k \in R)
  BY <1>2, <1>4, WriterAssumption, Zenon DEF Ends
<1>6. Grouped(R, k, M)'
  <2>1. /\ M \subseteq Writer \X Writer
        /\ \A x, l \in Writer : <<x, l>> \in M <=> \E i \in 1..Len(group[l]) : group[l][i] = x
        /\ \A l \in Writer : group[l] # <<>> => group[l][1] = l
        /\ \A l \in Writer : \A i, j \in 1..Len(group[l]) : group[l][i] = group[l][j] => i = j
        /\ \A l, j, x \in Writer : <<x, l>> \in M /\ <<x, j>> \in M => l = j
    BY Zenon DEF Core, Grouped
  <2>2. \A l \in Writer : \A i \in 1..(Len(group[l]) - 1) :
          link_newer[group[l][i]] = group[l][i + 1] /\ link_older[group[l][i + 1]] = group[l][i]
    BY Zenon DEF Core, Grouped
  <2>3. \A l, x \in Writer : <<x, l>> \in M => (x \in R <=> l = k)
    BY <1>4, <1>5, Zenon
  <2>4. ASSUME NEW l \in Writer, NEW i \in 1..(Len(group[l]) - 1)
        PROVE  /\ link_newer'[group[l][i]] = group[l][i + 1]
               /\ link_older'[group[l][i + 1]] = group[l][i]
    <3>1. i \in 1..Len(group[l]) /\ i + 1 \in 1..Len(group[l])
      BY SMTT(30) DEF Types
    <3>2. /\ group[l][i] \in Writer /\ <<group[l][i], l>> \in M
          /\ group[l][i + 1] \in Writer /\ <<group[l][i + 1], l>> \in M
      <4>1. group[l] \in Seq(Writer)
        BY Zenon DEF Types
      <4>2. group[l][i] \in Writer /\ group[l][i + 1] \in Writer
        BY <3>1, <4>1, SMTT(30)
      <4> QED BY <2>1, <3>1, <4>2, Zenon
    <3>3. group[l][i + 1] # k
      BY <1>4, <1>5, <3>2, Zenon
    <3>4. link_older'[group[l][i + 1]] = group[l][i]
      <4>1. link_older'[group[l][i + 1]] = link_older[group[l][i + 1]]
        BY <1>1, <3>2, <3>3, Zenon
      <4>2. link_older[group[l][i + 1]] = group[l][i]
        BY <2>2, Zenon
      <4> QED BY <4>1, <4>2, Zenon
    <3>5. link_newer'[group[l][i]] = group[l][i + 1]
      <4>1. CASE l = h
        BY <1>1, <2>2, <4>1, Zenon
      <4>2. CASE l # h
        <5>1. group[l][i] \notin Q
          BY <3>2, <4>2, Zenon DEF Core, Grouped
        <5>2. link_newer'[group[l][i]] = link_newer[group[l][i]]
          BY <1>1, <3>2, <5>1, Zenon
        <5>3. link_newer[group[l][i]] = group[l][i + 1]
          BY <2>2, Zenon
        <5> QED BY <5>2, <5>3, Zenon
      <4> QED BY <4>1, <4>2, Zenon
    <3> QED BY <3>4, <3>5, Zenon
  <2>5. \A l \in Writer : \A i \in 1..(Len(group[l]) - 1) :
          link_newer'[group[l][i]] = group[l][i + 1] /\ link_older'[group[l][i + 1]] = group[l][i]
    BY <2>4, Zenon
  <2> QED BY <2>1, <2>3, <2>5, SMTT(30) DEF Grouped
 \* The members of the group, as they are left to be completed.
<1>7. ASSUME NEW x \in Writer, <<x, h>> \in M, x # t
      PROVE  /\ pc[x] \in {"joined", "wait"} /\ state'[x] = state[x]
             /\ x # h => state[x] \in {"INIT", "PARALLEL_FOLLOWER"} /\ group[x] = <<>>
             /\ pc[x] = "joined" => state[x] = "INIT" /\ x # h
             /\ parallel_group[x] # x \/ x = h
             /\ x = h => /\ pc[x] = "wait" /\ ~NeedLogSync(x) /\ status[x] = "ok"
                         /\ state[x] = "GROUP_LEADER" /\ parallel_group[x] = x
  <2>1. state'[x] = state[x]
    BY <1>1, <1>4, <1>5, <1>7, Zenon
  <2>2. CASE x = h
    <3>1. Following(t, h, M) /\ Leading(h)
      BY <1>2, <1>7, <2>2, Zenon DEF Core, Role
    <3>2. /\ pc[h] = "wait" /\ ~NeedLogSync(h) /\ pgStatus[h] = "ok"
          /\ state[h] = "GROUP_LEADER" /\ parallel_group[h] = h
      BY <3>1, Zenon DEF Following
    <3> QED BY <2>1, <2>2, <3>1, <3>2, Zenon DEF Leading
  <2>3. CASE x # h
    <3>1. Following(x, h, M) /\ Leading(h)
      BY <1>2, <1>7, <2>3, Zenon DEF Core, Role
    <3>2. parallel_group[x] # x
      BY <1>2, <2>3, <3>1, WriterAssumption, Zenon DEF Following
    <3>3. CASE t = h
      BY <2>1, <2>3, <3>1, <3>2, <3>3, Zenon DEF Following
    <3>4. CASE t # h
      <4>1. Following(t, h, M)
        BY <1>2, <3>4, Zenon
      <4>2. pc[x] = "wait"
        BY <1>7, <4>1, Zenon DEF Following
      <4> QED BY <2>1, <2>3, <3>1, <3>2, <4>2, Zenon DEF Following
    <3> QED BY <3>3, <3>4, Zenon
  <2> QED BY <2>2, <2>3, Zenon
<1>8. t # h => /\ state[t] = "PARALLEL_FOLLOWER" /\ state'[t] = state[t] /\ parallel_group[t] = h
  BY <1>1, <1>2, <1>4, <1>5, Zenon DEF Following
<1>9. ASSUME NEW x \in Writer PROVE Role(x, R, k, M)'
  <2>1. CASE x = k
    <3>1. x \in R /\ x # h /\ <<x, h>> \notin M /\ x # t /\ x \in Q /\ k # Null
      BY <1>2, <1>4, <1>5, <2>1, WriterAssumption, Zenon
    <3>2. pc[x] = "joined" /\ Fresh(x)
      BY <3>1, Zenon DEF Core, Role, Waiting
    <3>3. Leading(x)'
      BY <1>1, <1>3, <2>1, <3>1, <3>2, Zenon DEF Leading, Fresh
    <3> QED BY <1>3, <2>1, <3>1, <3>2, <3>3, Zenon DEF Core, Role, Starting, Waiting
  <2>2. CASE x # k /\ x \in R
    <3>1. x # h /\ <<x, h>> \notin M /\ x # t /\ x \in Q
      BY <1>2, <1>4, <2>2, Zenon
    <3>2. <<x, k>> \notin M
      BY <1>4, <1>5, <2>2, Zenon DEF Core, Grouped
    <3>3. Role(x, Q, h, M) /\ pc[x] = "joined" /\ Fresh(x)
      BY <3>1, Zenon DEF Core, Role, Waiting
    <3>4. pc'[x] = "joined" /\ state'[x] = state[x] /\ cursor'[x] = cursor[x]
      BY <1>1, <1>3, <2>2, <3>1, <3>3, Zenon
    <3>5. Fresh(x)'
      BY <3>3, <3>4, Zenon DEF Fresh
    <3> QED BY <2>2, <3>2, <3>3, <3>4, <3>5, Zenon DEF Role, Starting, Waiting
  <2>3. CASE x \notin R
    <3>1. x # k /\ <<x, k>> \notin M
      <4>1. x # k
        BY <1>5, <2>3, Zenon
      <4>2. <<x, k>> \in M => k \in Writer
        BY Zenon DEF Core, Grouped
      <4> QED BY <1>4, <1>5, <4>1, <4>2, Zenon
    <3>2. Gone(x)'
      <4>1. CASE x = t
        <5>1. pc'[x] = "complete"
          BY <1>3, <4>1, Zenon
        <5> QED BY <5>1, Zenon DEF Gone
      <4>2. CASE x # t /\ <<x, h>> \in M
        <5>1. pc'[x] = pc[x] /\ pc[x] \in {"joined", "wait"}
          BY <1>3, <1>7, <4>2, Zenon
        <5> QED BY <1>7, <4>2, <5>1, Zenon DEF Gone, NeedLogSync
      <4>3. CASE <<x, h>> \notin M
        <5>1. x # t /\ x \notin Q
          BY <1>2, <2>3, <4>3, Zenon DEF Remain
        <5> QED BY <1>1, <1>3, <3>1, <5>1, Zenon DEF Core, Role, Gone, NeedLogSync
      <4> QED BY <4>1, <4>2, <4>3, Zenon
    <3>3. Starting(x, R, M)'
      <4>1. SUFFICES ASSUME pc'[x] = "start"
                     PROVE  Starting(x, R, M)'
        BY Zenon DEF Starting
      <4>2. x # t /\ pc[x] = "start"
        BY <1>3, <4>1, Zenon
      <4>3. Starting(x, Q, M)
        BY Zenon DEF Core, Role
      <4>4. link_newer'[x] = link_newer[x]
        BY <1>1, <4>2, <4>3, Zenon DEF Starting
      <4>5. Fresh(x) /\ state'[x] = state[x] /\ cursor'[x] = cursor[x]
        BY <1>1, <1>3, <3>1, <4>2, <4>3, Zenon DEF Starting
      <4>6. Fresh(x)'
        BY <4>5, Zenon DEF Fresh
      <4> QED BY <2>3, <4>2, <4>3, <4>4, <4>6, Zenon DEF Starting
    <3> QED BY <2>3, <3>1, <3>2, <3>3, Zenon DEF Core, Role, Waiting
  <2> QED BY <2>1, <2>2, <2>3, Zenon
<1>10. Counting(k, M)' /\ Launching(k)'
  <2>1. SUFFICES ASSUME k \in Writer PROVE Counting(k, M)' /\ Launching(k)'
    BY Zenon DEF Counting, Launching
  <2>2. k \in R /\ k # h /\ <<k, h>> \notin M /\ k # t /\ k \in Q
    BY <1>2, <1>4, <1>5, <2>1, Zenon
  <2>3. pc[k] = "joined" /\ Fresh(k)
    BY <2>1, <2>2, Zenon DEF Core, Role, Waiting
  <2> QED BY <1>3, <2>1, <2>2, <2>3, WriterAssumption, Zenon DEF Counting, Launching, Fresh
<1>11. Exiting(R, M)'
  <2>1. \A u \in Writer : Led(u)' = Led(u)
    BY Zenon DEF Led, Leader
  <2>2. \A u \in Writer : pc[u] = "complete" => Led(u) # h
    BY <1>2, Zenon DEF Core, Exiting, Exits
  <2>3. SUFFICES ASSUME NEW u \in Writer, pc'[u] = "complete"
                 PROVE  Exits(u, R, M)'
    BY Zenon DEF Exiting
  <2> DEFINE l == Led(u)
  <2>4. /\ l \in Writer /\ l \notin R /\ <<u, l>> \in M
        /\ u # l => pc'[l] = "wait" /\ state'[l] = "GROUP_LEADER" /\ parallel_group[l] = l
        /\ \A v \in Writer : pc'[v] = "complete" /\ Led(v) = l => v = u
    <3>1. CASE u = t
      <4>1. h # t => /\ pc'[h] = "wait" /\ state'[h] = "GROUP_LEADER" /\ parallel_group[h] = h
        <5>1. SUFFICES ASSUME h # t
                       PROVE  pc'[h] = "wait" /\ state'[h] = "GROUP_LEADER" /\ parallel_group[h] = h
          BY Zenon
        <5>2. pc'[h] = pc[h]
          BY <1>2, <1>3, <5>1, Zenon
        <5> QED BY <1>2, <1>7, <5>1, <5>2, Zenon
      <4> QED BY <1>2, <1>3, <1>4, <2>2, <3>1, <4>1, Zenon
    <3>2. CASE u # t
      <4>1. pc[u] = "complete" /\ Exits(u, Q, M)
        BY <1>3, <2>3, <3>2, Zenon DEF Core, Exiting
      <4>2. l \in Writer \ Q /\ <<u, l>> \in M
        BY <4>1, Zenon DEF Exits
      <4>3. l # k /\ l # t /\ l \notin R /\ l # h
        BY <1>2, <1>4, <1>5, <4>2, Zenon
      <4> QED BY <1>1, <1>2, <1>3, <4>1, <4>2, <4>3, SMTT(30) DEF Exits
    <3> QED BY <3>1, <3>2, Zenon
  <2>5. \E c \in 1..Len(group[l]) :
           /\ cursor'[u] = group[l][c]
           /\ \A i \in 2..c : ToComplete(u, group[l][i])'
    <3>1. CASE u = t
      <4>1. l = h /\ group[h] \in Seq(Writer)
        BY <1>2, <3>1, Zenon DEF Types
      <4>2. Len(group[h]) \in 1..Len(group[h])
        BY <1>2, <4>1
      <4>3. ASSUME NEW i \in 2..Len(group[h]), NEW y, y = group[h][i]
            PROVE  ToComplete(t, y)'
        <5>1. i \in 1..Len(group[h]) /\ i # 1 /\ 1 \in 1..Len(group[h]) /\ y \in Writer
          BY <4>1, <4>3
        <5>2. <<y, h>> \in M
          BY <1>2, <4>3, <5>1, Zenon DEF Core, Grouped
        <5>3. y # h
          <6>1. group[h][1] = h
            BY <1>2, Zenon DEF Core, Grouped
          <6>2. \A j \in 1..Len(group[h]) : group[h][j] = group[h][1] => j = 1
            BY <1>2, <5>1, Zenon DEF Core, Grouped
          <6> QED BY <4>3, <5>1, <6>1, <6>2, Zenon
        <5>4. CASE y = t
          BY <1>8, <5>3, <5>4, Zenon DEF ToComplete
        <5>5. CASE y # t
          BY <1>3, <1>7, <5>1, <5>2, <5>3, <5>5, Zenon DEF ToComplete
        <5> QED BY <5>4, <5>5, Zenon
      <4>4. \A i \in 2..Len(group[h]) : ToComplete(t, group[l][i])'
        BY <2>1, <3>1, <4>1, <4>3, Zenon
      <4> HIDE DEF l
      <4> QED BY <1>3, <3>1, <4>1, <4>2, <4>4, Zenon
    <3>2. CASE u # t
      <4>1. pc[u] = "complete" /\ Exits(u, Q, M)
        BY <1>3, <2>3, <3>2, Zenon DEF Core, Exiting
      <4>2. l \in Writer \ Q
        BY <4>1, Zenon DEF Exits
      <4>3. PICK d \in 1..Len(group[l]) :
              cursor[u] = group[l][d] /\ \A i \in 2..d : ToComplete(u, group[l][i])
        BY <4>1, Zenon DEF Exits
      <4>4. ASSUME NEW i \in 2..d, NEW y, y = group[l][i] PROVE ToComplete(u, y)'
        <5>1. i \in 1..Len(group[l])
          BY <4>2, <4>3 DEF Types
        <5>2. y \in Writer \ Q
          BY <4>2, <4>4, <5>1, OffList, Zenon DEF Core
        <5>3. y # t /\ y # k
          BY <1>2, <1>4, <1>5, <5>2, Zenon
        <5>4. ToComplete(u, y)
          BY <4>3, <4>4, Zenon
        <5> QED BY <1>1, <1>3, <5>2, <5>3, <5>4, Zenon DEF ToComplete
      <4>5. \A i \in 2..d : ToComplete(u, group[l][i])'
        BY <2>1, <4>4, Zenon
      <4> HIDE DEF l
      <4> QED BY <1>3, <3>2, <4>3, <4>5, Zenon
    <3> QED BY <3>1, <3>2, Zenon
  <2>6. group[l]' = group[l]
    BY <2>1, Zenon
  <2> HIDE DEF l
  <2> QED BY <2>1, <2>4, <2>5, <2>6, Zenon DEF Exits, l
<1> QED BY <1>6, <1>9, <1>10, <1>11, Zenon DEF Core
=============================================================================
