-------------------------- MODULE WriteDataProofs --------------------------
(***************************************************************************)
(* Steps of WriteImpl and what is written: each action keeps DataInv of    *)
(* module WriteData, which says which writers are in the log and in the    *)
(* memtable by where their threads are.                                    *)
(***************************************************************************)
EXTENDS WriteData, TLAPS

\* What every step does to the log, the memtable and the answers of callbacks.
Grows ==
  /\ request' = request
  /\ log' = log \/ \E r \in Record : log' = Append(log, r)
  /\ memtable \subseteq memtable'
  /\ callbackFailed \subseteq callbackFailed'

\* What was logged and applied stays so.
LEMMA StaysWritten ==
  ASSUME DataTypes, Grows, NEW x \in Writer
  PROVE  /\ Refuses(x)' <=> Refuses(x)
         /\ Logged(x) => Logged(x)'
         /\ Applied(x) => Applied(x)'
         /\ Asked(x) => Asked(x)'
         /\ Written(x) => Written(x)'
<1>1. Refuses(x)' <=> Refuses(x)
  BY Zenon DEF Refuses, Grows
<1>2. WrittenToLog(x) => WrittenToLog(x)'
  <2>1. \A i \in DOMAIN log : i \in DOMAIN log' /\ log'[i] = log[i]
    BY DEF Grows, DataTypes
  <2>2. request' = request
    BY Zenon DEF Grows
  <2> QED BY <2>1, <2>2, Zenon DEF WrittenToLog, Members
<1>3. Logged(x) => Logged(x)'
  BY <1>1, <1>2, Zenon DEF Logged, Grows
<1>4. Applied(x) => Applied(x)'
  BY <1>1, Zenon DEF Applied, Grows
<1>5. Asked(x) => Asked(x)'
  BY <1>1, Zenon DEF Asked, Grows
<1> QED BY <1>1, <1>3, <1>4, <1>5, Zenon DEF Written

\* A thread that a step leaves alone.
SameThread(x) ==
  /\ pc'[x] = pc[x] /\ group'[x] = group[x] /\ result'[x] = result[x]
  /\ status'[x] = status[x] /\ parallel_group'[x] = parallel_group[x]

\* It is not completed by the step, and no failure of its group reported.
SameState(x) ==
  /\ state'[x] = "COMPLETED" => state[x] = "COMPLETED"
  /\ pgStatus'[x] = pgStatus[x]

\* Its group, too, is left alone.
SameGroup(x) ==
  /\ group'[x] = group[x]
  /\ parallel_group'[x] = parallel_group[x]
  /\ parallel_group[x] # Null => group'[parallel_group[x]] = group[parallel_group[x]]

\* What a writer's thread claims of the log and the memtable stays true while
\* neither the thread nor its group moves.
LEMMA SameData ==
  ASSUME Types, DataTypes, Grows, NEW x \in Writer, SameThread(x), SameGroup(x), DataAt(x)
  PROVE  DataAt(x)'
<1>1. request' = request
  BY Zenon DEF Grows
<1>2. Leads(x)'
  BY <1>1, Zenon DEF SameThread, SameGroup, DataAt, Leads
<1>3. Members(group[x])' = Members(group[x]) /\ Members(group[x]) \subseteq Writer
  BY DEF SameThread, Members, Types
<1>4. Joined(x)'
  BY <1>1, <1>3, Zenon DEF DataAt, Joined
<1>5. GroupLogged(x)'
  <2>1. \A y \in Members(group[x]) : (Logged(y) => Logged(y)') /\ (Asked(y) => Asked(y)')
    BY <1>3, StaysWritten, Zenon
  <2>2. pc'[x] = pc[x] /\ group'[x] = group[x]
    BY Zenon DEF SameThread
  <2> QED BY <1>3, <2>1, <2>2, Zenon DEF DataAt, GroupLogged
<1>6. LeaderWritten(x)'
  <2>1. /\ pc'[x] = pc[x] /\ group'[x] = group[x]
        /\ status'[x] = status[x] /\ result'[x] = result[x]
    BY Zenon DEF SameThread
  <2>2. /\ Refuses(x)' <=> Refuses(x)
        /\ Applied(x) => Applied(x)'
        /\ Written(x) => Written(x)'
    BY StaysWritten, Zenon
  <2> QED BY <1>1, <2>1, <2>2, Zenon DEF DataAt, LeaderWritten
<1> QED BY <1>2, <1>4, <1>5, <1>6, Zenon DEF DataAt

\* A group that is written stays written until its thread moves.
LEMMA SameGroupWritten ==
  ASSUME Types, DataTypes, Grows, NEW x \in Writer, SameGroup(x), Leads(x),
         Finishing(x), GroupWritten(x)
  PROVE  GroupWritten(x)'
<1>1. request' = request
  BY Zenon DEF Grows
<1>2. Led(x) \in Writer /\ Led(x)' = Led(x) /\ group'[Led(x)] = group[Led(x)]
  BY WriterAssumption, Zenon DEF Types, SameGroup, Finishing, Leads, Led, Leader
<1>3. Members(group[Led(x)])' = Members(group[Led(x)])
      /\ Members(group[Led(x)]) \subseteq Writer
  BY <1>2 DEF Members, Types
<1>4. \A y \in Members(group[Led(x)]) : Written(y) => Written(y)'
  BY <1>3, StaysWritten, Zenon
<1> QED BY <1>1, <1>2, <1>3, <1>4, Zenon DEF GroupWritten

\* Without failures so far, what a writer is told stays as it is while its
\* thread does not move.
LEMMA SameHealthy ==
  ASSUME Types, DataTypes, Grows, NEW x \in Writer, SameThread(x), SameState(x), SameGroup(x),
         DataAt(x), HealthyAt(x)
  PROVE  HealthyAt(x)'
<1>1. request' = request
  BY Zenon DEF Grows
<1>2. Healthy(x)'
  BY Zenon DEF SameThread, SameState, Grows, HealthyAt, Healthy
<1>3. GroupWritten(x)'
  <2>1. Finishing(x)' => Finishing(x)
    BY Zenon DEF Finishing, SameThread, SameState
  <2>2. CASE Finishing(x)
    BY <2>2, SameGroupWritten, Zenon DEF DataAt, HealthyAt
  <2> QED BY <2>1, <2>2, Zenon DEF GroupWritten
<1>4. FollowerWritten(x)'
  <2>1. /\ Refuses(x)' <=> Refuses(x)
        /\ Applied(x) => Applied(x)'
        /\ Written(x) => Written(x)'
    BY StaysWritten, Zenon
  <2>2. /\ pc'[x] = pc[x] /\ result'[x] = result[x]
        /\ state'[x] = "COMPLETED" => state[x] = "COMPLETED"
        /\ parallel_group'[x] = parallel_group[x]
    BY Zenon DEF SameThread, SameState
  <2> QED BY <1>1, <2>1, <2>2, Zenon DEF HealthyAt, FollowerWritten
<1> QED BY <1>2, <1>3, <1>4, Zenon DEF HealthyAt

\* A step that changes the threads of D only.
Moves(D) ==
  /\ \A x \in Writer : x \in D \/ (SameThread(x) /\ SameGroup(x))
  /\ \A x \in Writer : x \in D => DataAt(x)'
  /\ failed' = {} =>
       /\ failed = {} /\ ~bg_error'
       /\ \A x \in Writer : x \in D \/ SameState(x)
       /\ \A x \in Writer : x \in D => HealthyAt(x)'

\* A step that moves the threads in D keeps DataInv when it establishes their
\* claims anew.
LEMMA DataMoves ==
  ASSUME Types, DataInv, Grows, DataTypes', NEW D, Moves(D)
  PROVE  DataInv'
<1>1. ASSUME NEW x \in Writer PROVE DataAt(x)'
  <2>1. CASE x \notin D
    <3>1. SameThread(x) /\ SameGroup(x) /\ DataAt(x) /\ DataTypes
      BY <2>1, Zenon DEF DataInv, Moves
    <3> QED BY <3>1, SameData, Zenon
  <2> QED BY <2>1, Zenon DEF Moves
<1>2. ASSUME failed' = {}, NEW x \in Writer PROVE HealthyAt(x)'
  <2>1. CASE x \notin D
    <3>1. SameThread(x) /\ SameState(x) /\ SameGroup(x) /\ DataAt(x) /\ DataTypes /\ HealthyAt(x)
      BY <1>2, <2>1, Zenon DEF DataInv, Moves
    <3> QED BY <3>1, SameHealthy, Zenon
  <2> QED BY <1>2, <2>1, Zenon DEF Moves
<1> QED BY <1>1, <1>2, Zenon DEF DataInv, Moves

\* A step that answers no callback keeps the types.
LEMMA SameTypes ==
  ASSUME DataTypes, UNCHANGED <<request, callbackFailed>>,
         result' \in [Writer -> Status], log' = log
  PROVE  DataTypes'
<1>1. \A x \in Writer : x \in callbackFailed' => Refuses(x)'
  BY Zenon DEF DataTypes, Refuses
<1> QED BY <1>1, Zenon DEF DataTypes

\* JoinBatchGroup links a writer nobody knows.
LEMMA JoinBatchGroupData ==
  ASSUME Places, DataInv, NEW w \in Writer, JoinBatchGroup(w)
  PROVE  DataInv'
<1>1. Types /\ DataTypes /\ DataAt(w) /\ Fresh(w) /\ (failed = {} => ~bg_error /\ HealthyAt(w))
  BY Zenon DEF Places, StartPlaces, DataInv, JoinBatchGroup
<1>2. Grows /\ failed' = failed /\ bg_error' = bg_error
  BY Zenon DEF Grows, JoinBatchGroup, db, shared
<1>3. DataTypes'
  BY <1>1, SameTypes, Zenon DEF JoinBatchGroup, shared, db, DataTypes
<1>4. pc'[w] = "joined" /\ state'[w] # "COMPLETED"
      /\ \A x \in Writer \ {w} : SameThread(x) /\ SameState(x)
  BY <1>1, Zenon DEF JoinBatchGroup, Goto, LinkOne, shared, Types, Fresh, SameThread, SameState
<1>5. \A x \in Writer : SameGroup(x)
  BY Zenon DEF JoinBatchGroup, shared, SameGroup
<1>6. DataAt(w)'
  BY <1>1, <1>4, WriterAssumption DEF JoinBatchGroup, Fresh, shared, DataAt, Leads, Joined,
     Members, GroupLogged, LeaderWritten
<1>7. HealthyAt(w) => HealthyAt(w)'
  BY <1>2, <1>4, Zenon DEF JoinBatchGroup, shared, Grows, HealthyAt, Healthy, GroupWritten,
     Finishing, FollowerWritten
<1>8. Moves({w})
  BY <1>1, <1>2, <1>3, <1>4, <1>5, <1>6, <1>7, Zenon DEF Moves
<1> QED BY <1>1, <1>2, <1>3, <1>4, <1>5, <1>6, <1>8, DataMoves, Zenon

\* An unbatched writer is a group of its own.
LEMMA UnbatchedData ==
  ASSUME Places, DataInv, NEW w \in Writer, Unbatched(w)
  PROVE  DataInv'
<1>1. Types /\ DataTypes /\ DataAt(w) /\ (failed = {} => ~bg_error /\ HealthyAt(w))
  BY Zenon DEF Places, DataInv
<1>2. Grows /\ failed' = failed /\ bg_error' = bg_error
  BY Zenon DEF Grows, Unbatched, db, shared
<1>3. DataTypes'
  BY <1>1, SameTypes, Zenon DEF Unbatched, shared, db, DataTypes
<1>4. group[w] = <<>> /\ group' = [group EXCEPT ![w] = <<w>>]
      /\ pc[w] = "joined" /\ pc' = [pc EXCEPT ![w] = "unlink"]
      /\ UNCHANGED <<parallel_group, state, status, result, pgStatus, request>>
      /\ ~request[w].batch
  BY <1>1, Zenon DEF Unbatched, Goto, shared, DataAt, Leads
<1>5. pc'[w] = "unlink" /\ group'[w] = <<w>>
      /\ \A x \in Writer \ {w} : pc'[x] = pc[x] /\ group'[x] = group[x]
  BY <1>1, <1>4, Zenon DEF Types
<1>6. \A x \in Writer \ {w} : SameThread(x) /\ SameState(x)
  BY <1>4, <1>5, Zenon DEF SameThread, SameState
<1>7. \A x \in Writer : parallel_group[x] # Null =>
        parallel_group[x] \in Writer \ {w} /\ group[parallel_group[x]] # <<>>
  BY <1>1, <1>4, Zenon DEF DataInv, DataAt, Leads, Types
<1>8. \A x \in Writer : SameGroup(x) \/ x \in {w}
  BY <1>4, <1>5, <1>7, Zenon DEF SameGroup
<1>9. DataAt(w)'
  <2>1. Leads(w)'
    BY <1>4, <1>5, <1>7 DEF Leads
  <2>2. Members(group[w])' = {w}
    BY <1>5 DEF Members
  <2>3. Joined(w)' /\ GroupLogged(w)' /\ LeaderWritten(w)'
    BY <1>4, <1>5, <2>2, Zenon DEF Joined, GroupLogged, LeaderWritten
  <2> QED BY <2>1, <2>3, Zenon DEF DataAt
<1>10. HealthyAt(w) => HealthyAt(w)'
  <2>1. Led(w)' = w
    BY <1>5 DEF Led
  <2> QED BY <1>2, <1>4, <1>5, <2>1, Zenon DEF Grows, HealthyAt, Healthy, GroupWritten, FollowerWritten
<1>11. Moves({w})
  BY <1>1, <1>2, <1>3, <1>6, <1>8, <1>9, <1>10, Zenon DEF Moves
<1> QED BY <1>1, <1>2, <1>3, <1>4, <1>5, <1>6, <1>11, DataMoves, Zenon

\* DBImpl::WriteImpl, before the group is formed: an error, or on to the group.
LEMMA PrepareData ==
  ASSUME Places, DataInv, NEW w \in Writer, Prepare(w)
  PROVE  DataInv'
<1>1. Types /\ DataTypes /\ DataAt(w) /\ (failed = {} => ~bg_error /\ HealthyAt(w))
  BY Zenon DEF Places, DataInv
<1>2. PICK r \in Status :
        /\ result' = [result EXCEPT ![w] = r]
        /\ failed' = IF r = "fail" /\ ~bg_error THEN failed \cup {"prepare"} ELSE failed
        /\ bg_error => r = "fail"
  BY Zenon DEF Prepare, Status
<1>3. /\ pc[w] = "joined" /\ pc' = [pc EXCEPT ![w] = "enter"]
      /\ UNCHANGED <<group, parallel_group, state, status, pgStatus, request>>
      /\ request[w].batch
      /\ UNCHANGED <<log, memtable, callbackFailed, bg_error>>
  BY Zenon DEF Prepare, shared, Goto
<1>4. Grows
  BY <1>3, Zenon DEF Grows
<1>5. result' \in [Writer -> Status] /\ result'[w] = r
      /\ \A x \in Writer \ {w} : result'[x] = result[x]
  BY <1>1, <1>2, Zenon DEF DataTypes
<1>6. DataTypes'
  BY <1>1, <1>3, <1>5, SameTypes, Zenon
<1>7. pc'[w] = "enter" /\ \A x \in Writer \ {w} : pc'[x] = pc[x]
  BY <1>1, <1>3, Zenon DEF Types
<1>8. \A x \in Writer \ {w} : SameThread(x) /\ SameState(x)
  BY <1>3, <1>5, <1>7, Zenon DEF SameThread, SameState
<1>9. \A x \in Writer : SameGroup(x)
  BY <1>3, Zenon DEF SameGroup
<1>10. DataAt(w)'
  BY <1>1, <1>3, <1>7 DEF DataAt, Leads, Joined, GroupLogged, LeaderWritten, Members
<1>11. failed' = {} => failed = {} /\ r = "ok"
  BY <1>1, <1>2, Zenon DEF Status
<1>12. HealthyAt(w) /\ r = "ok" => HealthyAt(w)'
  BY <1>3, <1>5, <1>7, Zenon DEF HealthyAt, Healthy, GroupWritten, Finishing, FollowerWritten
<1>13. Moves({w})
  BY <1>1, <1>3, <1>4, <1>6, <1>8, <1>9, <1>10, <1>11, <1>12, Zenon DEF Moves
<1> QED BY <1>1, <1>2, <1>3, <1>4, <1>5, <1>6, <1>13, DataMoves, Zenon

\* EnterAsBatchGroupLeader takes only writers that may join.
LEMMA EnterGroupData ==
  ASSUME Places, DataInv, NEW w \in Writer, EnterGroup(w)
  PROVE  DataInv'
<1>1. Types /\ DataTypes /\ DataAt(w) /\ (failed = {} => ~bg_error /\ HealthyAt(w))
  BY Zenon DEF Places, DataInv
<1>2. PICK g \in UNION {[1..n -> Writer] : n \in 1..Cardinality(Writer)} :
        EnterAsBatchGroupLeader(w, link_newer', g) /\ group' = [group EXCEPT ![w] = g]
  BY Zenon DEF EnterGroup
<1>3. PICK n \in 1..Cardinality(Writer) : g \in [1..n -> Writer]
  BY <1>2, Zenon
<1>4. /\ pc[w] = "enter"
      /\ pc' = [pc EXCEPT ![w] = IF result[w] = "ok" THEN "log" ELSE "report"]
      /\ UNCHANGED <<parallel_group, state, status, result, pgStatus, request>>
      /\ UNCHANGED <<log, memtable, callbackFailed, bg_error, failed>>
  BY Zenon DEF EnterGroup, shared, db, Goto
<1>5. Grows /\ DataTypes'
  BY <1>1, <1>4, SameTypes, Zenon DEF Grows, DataTypes
<1>6. group[w] = <<>> /\ request[w].batch
  BY <1>1, <1>4, Zenon DEF DataAt, Leads
<1>7. /\ group'[w] = g /\ pc'[w] = IF result[w] = "ok" THEN "log" ELSE "report"
      /\ \A x \in Writer \ {w} : pc'[x] = pc[x] /\ group'[x] = group[x]
  BY <1>1, <1>2, <1>4, Zenon DEF Types
<1>8. \A x \in Writer \ {w} : SameThread(x) /\ SameState(x)
  BY <1>4, <1>7, Zenon DEF SameThread, SameState
<1>9. \A x \in Writer : parallel_group[x] # Null =>
        parallel_group[x] \in Writer \ {w} /\ group[parallel_group[x]] # <<>>
  BY <1>1, <1>6 DEF DataInv, DataAt, Leads, Types
<1>10. \A x \in Writer : SameGroup(x) \/ x \in {w}
  BY <1>4, <1>7, <1>9, Zenon DEF SameGroup
<1>11. g # <<>> /\ g[1] = w /\ Len(g) \in Nat
       /\ \A i \in 1..(Len(g) - 1) : \E size : MayJoin(g[i + 1], w, size)
  <2>1. g # <<>> /\ g[1] = w
        /\ \A i \in 1..(Len(g) - 1) : MayJoin(g[i + 1], w, ByteSize(SubSeq(g, 1, i)))
    BY <1>2, Zenon DEF EnterAsBatchGroupLeader
  <2>2. Len(g) \in Nat
    BY <1>3
  <2> QED BY <2>1, <2>2, Zenon
<1>12. Joined(w)'
  <2>1. SUFFICES ASSUME NEW x \in Members(g), x # w
                 PROVE  /\ request[x].batch
                        /\ request[x].sync => request[w].sync
                        /\ request[w].disableWAL => request[x].disableWAL
    BY <1>4, <1>6, <1>7, Zenon DEF Joined
  <2>2. PICK i \in 1..Len(g) : g[i] = x
    BY Zenon DEF Members
  <2>3. i # 1
    BY <1>11, <2>1, <2>2, Zenon
  <2>4. i - 1 \in 1..(Len(g) - 1) /\ (i - 1) + 1 = i
    BY <1>11, <2>2, <2>3
  <2>5. PICK size : MayJoin(x, w, size)
    BY <1>11, <2>2, <2>4, Zenon
  <2> QED BY <2>5, Zenon DEF MayJoin
<1>13. DataAt(w)'
  <2>1. Leads(w)'
    BY <1>4, <1>7, <1>9, <1>11 DEF Leads
  <2>2. GroupLogged(w)' /\ LeaderWritten(w)'
    BY <1>4, <1>7 DEF GroupLogged, LeaderWritten
  <2> QED BY <1>12, <2>1, <2>2, Zenon DEF DataAt
<1>14. HealthyAt(w) => HealthyAt(w)'
  BY <1>4, <1>7 DEF HealthyAt, Healthy, GroupWritten, Finishing, FollowerWritten
<1>15. Moves({w})
  BY <1>1, <1>4, <1>5, <1>8, <1>10, <1>13, <1>14, Zenon DEF Moves
<1> QED BY <1>1, <1>2, <1>3, <1>4, <1>5, <1>6, <1>15, DataMoves, Zenon

\* The leader of a group that is applied has it in the log, and goes on to exit.
LEMMA AfterApplyGoes ==
  ASSUME Types, NEW w \in Writer, AfterApply(w), status' \in [Writer -> Status]
  PROVE  \E label \in {"report", "unlink"} : pc' = [pc EXCEPT ![w] = label]
<1>1. CASE status'[w] = "ok" /\ NeedLogSync(w)
  BY <1>1, Zenon DEF AfterApply, Goto
<1>2. CASE status'[w] = "ok" /\ ~NeedLogSync(w)
  BY <1>2, Zenon DEF AfterApply, Goto
<1>3. CASE status'[w] = "fail"
  BY <1>3, Zenon DEF AfterApply, Goto
<1> QED BY <1>1, <1>2, <1>3, Zenon DEF Status

\* FinalStatus is ok, or the callback has refused or the insert failed.
LEMMA FinalStatusIs ==
  ASSUME Types, NEW w \in Writer
  PROVE  /\ FinalStatus(w) \in Status
         /\ FinalStatus(w) = "ok" => status[w] = "ok" /\ w \notin callbackFailed
         /\ FinalStatus(w) = "fail" /\ status[w] = "ok" => w \in callbackFailed
BY Zenon DEF Types, FinalStatus, Status

\* The leader inserts the whole group (the branch without parallel writers).
LEMMA InsertGroupData ==
  ASSUME Places, DataInv, NEW w \in Writer, InsertGroup(w)
  PROVE  DataInv'
<1>1. /\ Types /\ DataTypes /\ DataAt(w) /\ GroupPlaces
      /\ failed = {} => ~bg_error /\ HealthyAt(w)
  BY Zenon DEF Places, DataInv
<1> DEFINE writers == group[w]
<1>2. writers \in Seq(Writer) /\ writers # <<>> /\ pc[w] = "apply" /\ Len(writers) \in Nat
      /\ writers[1] = w
  BY <1>1 DEF InsertGroup, Types, DataAt, Leads, GroupPlaces
<1>3. \A n : n \in (IF MayFail("insert") THEN 0..Len(writers) ELSE {Len(writers)}) =>
              n \in 0..Len(writers)
  BY <1>2
<1>4. PICK n \in 0..Len(writers) :
        LET done  == {writers[i] : i \in 1..n} \ callbackFailed
            short == n < Len(writers)
        IN  /\ memtable' = memtable \cup done
            /\ status' = IF short THEN [status EXCEPT ![writers[n + 1]] = "fail"]
                         ELSE status
            /\ result' = [result EXCEPT ![w] =
                            IF short THEN "fail" ELSE FinalStatus(w)]
            /\ failed' = IF short THEN failed \cup {"insert"} ELSE failed
  BY <1>3, Zenon DEF InsertGroup
<1> DEFINE short == n < Len(writers)
           done == {writers[i] : i \in 1..n} \ callbackFailed
<1>5. AfterApply(w)
      /\ UNCHANGED <<state, request, group, callbackFailed, parallel_group, pgStatus>>
      /\ UNCHANGED <<log, bg_error>>
  BY Zenon DEF InsertGroup
<1>6. short => writers[n + 1] \in Members(group[w])
  <2>1. short => n + 1 \in 1..Len(writers)
    BY <1>2
  <2> QED BY <2>1, Zenon DEF Members
<1>7. /\ FinalStatus(w) \in Status
      /\ FinalStatus(w) = "ok" => status[w] = "ok" /\ w \notin callbackFailed
      /\ FinalStatus(w) = "fail" /\ status[w] = "ok" => w \in callbackFailed
  BY <1>1, FinalStatusIs, Zenon
<1>8. /\ status' \in [Writer -> Status] /\ result' \in [Writer -> Status]
      /\ \A x \in Writer \ {w} : result'[x] = result[x]
      /\ \A x \in Writer : x \notin Members(group[w]) => status'[x] = status[x]
  BY <1>1, <1>4, <1>6, <1>7, Zenon DEF Types, Status, DataTypes
<1>9. (short => result'[w] = "fail") /\ (~short => result'[w] = FinalStatus(w))
  <2>1. result' = [result EXCEPT ![w] = IF short THEN "fail" ELSE FinalStatus(w)]
    BY <1>4, Zenon
  <2>2. CASE short
    BY <1>1, <2>1, <2>2, Zenon DEF DataTypes
  <2>3. CASE ~short
    BY <1>1, <2>1, <2>3, Zenon DEF DataTypes
  <2> HIDE DEF short
  <2> QED BY <2>2, <2>3, Zenon
<1>10. ~short => FinalStatus(w) = result'[w]
  BY <1>9, Zenon
<1>11. failed' = {} => failed = {} /\ ~short /\ status' = status
  BY <1>4, Zenon
<1> HIDE DEF short
<1>12. PICK label \in {"report", "unlink"} : pc' = [pc EXCEPT ![w] = label]
  BY <1>1, <1>5, <1>8, AfterApplyGoes, Zenon
<1>13. pc'[w] = label /\ \A x \in Writer \ {w} : pc'[x] = pc[x]
  BY <1>1, <1>12, Zenon DEF Types
<1>14. Grows
  BY <1>4, <1>5, Zenon DEF Grows
<1>15. DataTypes'
  BY <1>1, <1>5, <1>8, SameTypes, Zenon
<1>16. ASSUME NEW x \in Writer, x # w
       PROVE  /\ SameGroup(x)
              /\ x \notin Members(group[w]) => SameThread(x)
              /\ x \in Members(group[w]) => DataAt(x)'
  <2>1. SameGroup(x)
    BY <1>5, Zenon DEF SameGroup
  <2>2. x \notin Members(group[w]) => SameThread(x)
    BY <1>5, <1>8, <1>13, <1>16, Zenon DEF SameThread
  <2>3. ASSUME x \in Members(group[w]) PROVE DataAt(x)'
    <3>1. group[x] = <<>> /\ DataAt(x)
      BY <1>1, <1>16, <2>3, Zenon DEF GroupPlaces, DataInv
    <3>2. pc'[x] = pc[x] /\ result'[x] = result[x]
      BY <1>8, <1>13, <1>16, Zenon
    <3> QED BY <1>5, <3>1, <3>2 DEF DataAt, Leads, Joined, GroupLogged, LeaderWritten, Members
  <2> QED BY <2>1, <2>2, <2>3, Zenon
<1>17. \A x \in Members(group[w]) : Logged(x) /\ Asked(x)
  BY <1>1, <1>2, Zenon DEF DataAt, GroupLogged
<1>18. Members(group[w]) \subseteq Writer /\ w \in Members(group[w])
  BY <1>1, <1>2, Zenon DEF GroupPlaces
<1>19. ASSUME ~short, NEW x \in Members(group[w])
       PROVE  Written(x)'
  <2>1. n = Len(writers)
    BY <1>2, <1>19 DEF short
  <2>2. x \in {writers[i] : i \in 1..n}
    BY <2>1, <1>19, Zenon DEF Members
  <2>3. x \in callbackFailed \/ x \in memtable'
    BY <1>4, <2>2, Zenon
  <2>4. x \in callbackFailed => Refuses(x)
    BY <1>1, <1>18, <1>19, Zenon DEF DataTypes
  <2>5. Refuses(x)' <=> Refuses(x)
    BY <1>5, Zenon DEF Refuses
  <2>6. Applied(x)'
    BY <2>3, <2>4, <2>5, Zenon DEF Applied
  <2>7. Logged(x)' /\ Asked(x)'
    BY <1>1, <1>14, <1>17, <1>18, <1>19, StaysWritten, Zenon
  <2> QED BY <2>6, <2>7, Zenon DEF Written
<1>20. DataAt(w)'
  <2>1. Leads(w)'
    BY <1>1, <1>2, <1>5, <1>13, Zenon DEF DataAt, Leads
  <2>2. Joined(w)'
    BY <1>1, <1>5, Zenon DEF DataAt, Joined
  <2>3. GroupLogged(w)'
    BY <1>13, Zenon DEF GroupLogged
  <2>4. ASSUME result'[w] = "ok" PROVE Written(w)' /\ ~Refuses(w)'
    <3>1. ~short /\ w \notin callbackFailed
      BY <1>7, <1>9, <2>4, Zenon
    <3>2. ~Refuses(w)
      BY <1>17, <1>18, <3>1, Zenon DEF Asked
    <3> QED BY <1>5, <1>18, <1>19, <3>1, <3>2, Zenon DEF Refuses
  <2>5. LeaderWritten(w)'
    BY <1>13, <2>4, Zenon DEF LeaderWritten
  <2> QED BY <2>1, <2>2, <2>3, <2>5, Zenon DEF DataAt
<1>21. ASSUME failed' = {} PROVE HealthyAt(w)'
  <2>1. HealthyAt(w) /\ ~short /\ status' = status
    BY <1>1, <1>11, <1>21, Zenon
  <2>2. Healthy(w)'
    <3>1. result'[w] = "fail" => w \in callbackFailed
      BY <1>7, <1>10, <2>1, Zenon DEF HealthyAt, Healthy
    <3> QED BY <1>5, <1>13, <2>1, <3>1, Zenon DEF HealthyAt, Healthy
  <2>3. Led(w)' = w /\ Members(group[w])' = Members(group[w])
    BY <1>2, <1>5, Zenon DEF Led
  <2>4. GroupWritten(w)'
    BY <1>19, <2>1, <2>3, Zenon DEF GroupWritten
  <2>5. FollowerWritten(w)'
    BY <1>13, Zenon DEF FollowerWritten
  <2> QED BY <2>2, <2>4, <2>5, Zenon DEF HealthyAt
<1>22. ASSUME failed' = {}, NEW x \in Writer, x # w
       PROVE  SameState(x) /\ SameThread(x)
  BY <1>5, <1>8, <1>13, <1>11, <1>22, Zenon DEF SameState, SameThread
<1>23. ASSUME failed' = {}, NEW x \in Writer, x # w PROVE HealthyAt(x)'
  <2>1. SameThread(x) /\ SameState(x) /\ SameGroup(x) /\ DataAt(x) /\ HealthyAt(x)
    BY <1>16, <1>11, <1>22, <1>23, Zenon DEF DataInv
  <2> QED BY <1>1, <1>14, <2>1, SameHealthy, Zenon
<1>24. Moves(Members(group[w]))
  <2>1. \A x \in Writer : x \in Members(group[w]) \/ (SameThread(x) /\ SameGroup(x))
    BY <1>16, <1>18, Zenon
  <2>2. \A x \in Writer : x \in Members(group[w]) => DataAt(x)'
    BY <1>16, <1>20, Zenon
  <2>3. failed' = {} => /\ failed = {} /\ ~bg_error'
                        /\ \A x \in Writer : x \in Members(group[w]) \/ SameState(x)
                        /\ \A x \in Writer : x \in Members(group[w]) => HealthyAt(x)'
    BY <1>1, <1>5, <1>18, <1>11, <1>21, <1>22, <1>23, Zenon
  <2> QED BY <2>1, <2>2, <2>3, Zenon DEF Moves
<1> QED BY <1>1, <1>14, <1>15, <1>24, DataMoves, Zenon

\* LaunchParallelFollowers sets up the group's data.
LEMMA LaunchFollowersData ==
  ASSUME Places, DataInv, NEW w \in Writer, LaunchFollowers(w)
  PROVE  DataInv'
<1>1. Types /\ DataTypes /\ DataAt(w) /\ (failed = {} => ~bg_error /\ HealthyAt(w))
  BY Zenon DEF Places, DataInv
<1>2. /\ pc[w] = "launch" /\ parallel_group' = [parallel_group EXCEPT ![w] = w]
      /\ UNCHANGED <<pc, result, group, state, status, pgStatus, request, callbackFailed>>
      /\ UNCHANGED <<log, memtable, bg_error, failed>>
  BY Zenon DEF LaunchFollowers, db
<1>3. Grows /\ DataTypes'
  BY <1>1, <1>2, SameTypes, Zenon DEF Grows, DataTypes
<1>4. parallel_group'[w] = w /\ \A x \in Writer \ {w} : parallel_group'[x] = parallel_group[x]
  BY <1>1, <1>2, Zenon DEF Types
<1>5. \A x \in Writer : x \in {w} \/ (SameThread(x) /\ SameGroup(x) /\ SameState(x))
  BY <1>2, <1>4, Zenon DEF SameThread, SameGroup, SameState
<1>6. DataAt(w)'
  <2>1. Leads(w)'
    BY <1>1, <1>2, <1>4, Zenon DEF DataAt, Leads
  <2>2. Joined(w)' /\ LeaderWritten(w)'
    BY <1>1, <1>2, Zenon DEF DataAt, Joined, LeaderWritten
  <2>3. GroupLogged(w)'
    <3>1. \A x \in Members(group[w]) : (Logged(x) => Logged(x)') /\ (Asked(x) => Asked(x)')
      BY <1>2, Zenon DEF Logged, Asked, WrittenToLog, Refuses
    <3> QED BY <1>1, <1>2, <3>1, Zenon DEF DataAt, GroupLogged
  <2> QED BY <2>1, <2>2, <2>3, Zenon DEF DataAt
<1>7. HealthyAt(w) => HealthyAt(w)'
  BY <1>2, Zenon DEF HealthyAt, Healthy, GroupWritten, Finishing, FollowerWritten
<1>8. Moves({w})
  BY <1>1, <1>2, <1>5, <1>6, <1>7, Zenon DEF Moves
<1> QED BY <1>1, <1>3, <1>8, DataMoves, Zenon

\* A follower is launched while it waits in JoinBatchGroup.
LEMMA LaunchNextData ==
  ASSUME Places, DataInv, NEW w \in Writer, LaunchNext(w)
  PROVE  DataInv'
<1>1. PICK next : next = link_newer[cursor[w]]
  BY Zenon
<1>2. /\ Types /\ DataTypes /\ DataAt(w)
      /\ pc[w] = "launch" /\ next \in Writer /\ next # w /\ pc[next] = "joined"
      /\ parallel_group[w] = w
  <2>1. pc[w] = "launch" /\ cursor[w] # Null
    BY Zenon DEF LaunchNext
  <2> QED BY <1>1, <2>1, Zenon DEF Places, LaunchPlaces, DataInv
<1>3. DataAt(next) /\ (failed = {} => ~bg_error /\ HealthyAt(w) /\ HealthyAt(next))
  BY <1>2, Zenon DEF DataInv
<1>4. /\ parallel_group' = [parallel_group EXCEPT ![next] = w]
      /\ state' = [state EXCEPT ![next] = "PARALLEL_FOLLOWER"]
      /\ UNCHANGED <<result, group, status, pgStatus, request, callbackFailed>>
      /\ UNCHANGED <<log, memtable, bg_error, failed>>
  BY <1>1, Zenon DEF LaunchNext, db
<1>5. PICK label \in {"insert", "launch"} : pc' = [pc EXCEPT ![w] = label]
  BY Zenon DEF LaunchNext, Goto
<1>6. Grows /\ DataTypes'
  BY <1>2, <1>4, SameTypes, Zenon DEF Grows, DataTypes
<1>7. /\ pc'[w] = label /\ pc'[next] = "joined" /\ parallel_group'[w] = w
      /\ parallel_group'[next] = w /\ state'[next] = "PARALLEL_FOLLOWER"
      /\ state'[w] = state[w]
      /\ \A x \in Writer : x # w /\ x # next =>
           /\ pc'[x] = pc[x] /\ parallel_group'[x] = parallel_group[x]
           /\ state'[x] = state[x]
  BY <1>2, <1>4, <1>5, Zenon DEF Types
<1>8. \A x \in Writer : x \in {w, next} \/ (SameThread(x) /\ SameGroup(x) /\ SameState(x))
  BY <1>4, <1>7, Zenon DEF SameThread, SameGroup, SameState
<1>9. DataAt(w)'
  <2>1. Leads(w)'
    BY <1>2, <1>4, <1>7, Zenon DEF DataAt, Leads
  <2>2. Joined(w)' /\ LeaderWritten(w)'
    BY <1>2, <1>4, <1>7, Zenon DEF DataAt, Joined, LeaderWritten
  <2>3. GroupLogged(w)'
    <3>1. \A x \in Members(group[w]) : (Logged(x) => Logged(x)') /\ (Asked(x) => Asked(x)')
      BY <1>4, Zenon DEF Logged, Asked, WrittenToLog, Refuses
    <3> QED BY <1>2, <1>4, <3>1, Zenon DEF DataAt, GroupLogged
  <2> QED BY <2>1, <2>2, <2>3, Zenon DEF DataAt
<1>10. DataAt(next)'
  <2>1. group[next] = <<>> /\ group'[next] = <<>> /\ group[w] # <<>> /\ group' = group
    BY <1>2, <1>3, <1>4, Zenon DEF DataAt, Leads
  <2>2. Leads(next)'
    BY <1>7, <2>1, Zenon DEF Leads
  <2> QED BY <1>7, <2>1, <2>2 DEF DataAt, Joined, LeaderWritten, GroupLogged, Members
<1>11. HealthyAt(w) => HealthyAt(w)'
  BY <1>2, <1>4, <1>7, Zenon DEF HealthyAt, Healthy, GroupWritten, Finishing, FollowerWritten
<1>12. HealthyAt(next) => HealthyAt(next)'
  BY <1>2, <1>4, <1>7, Zenon DEF HealthyAt, Healthy, GroupWritten, Finishing, FollowerWritten
<1>13. Moves({w, next})
  BY <1>3, <1>4, <1>8, <1>9, <1>10, <1>11, <1>12, Zenon DEF Moves
<1> QED BY <1>2, <1>6, <1>13, DataMoves, Zenon

\* A member of a parallel group inserts its batch.
LEMMA InsertBatchData ==
  ASSUME Places, DataInv, NEW w \in Writer, InsertBatch(w)
  PROVE  DataInv'
<1>1. /\ Types /\ DataTypes /\ DataAt(w)
      /\ failed = {} => ~bg_error /\ HealthyAt(w)
  BY Zenon DEF Places, DataInv
<1>2. pc[w] = "insert" => parallel_group[w] = w
  BY Zenon DEF Places, ParallelPlaces, InsertBatch
<1>3. /\ pc[w] \in {"insert", "joined"} /\ pc' = [pc EXCEPT ![w] = "count"]
      /\ UNCHANGED <<result, group, state, parallel_group, request, callbackFailed>>
      /\ UNCHANGED <<log, bg_error>>
  BY Zenon DEF InsertBatch, Inserting, Goto
<1>4. \/ /\ w \in callbackFailed \/ w \in memtable'
         /\ memtable' \in {memtable, memtable \cup {w}}
         /\ UNCHANGED <<status, pgStatus, failed>>
      \/ /\ memtable' = memtable
         /\ status' = [status EXCEPT ![w] = "fail"]
         /\ failed' # {}
  BY Zenon DEF InsertBatch
<1>5. Grows /\ DataTypes'
  <2>1. memtable \subseteq memtable'
    BY <1>4, Zenon
  <2> QED BY <1>1, <1>3, <2>1, SameTypes, Zenon DEF Grows, DataTypes
<1>6. pc'[w] = "count" /\ \A x \in Writer \ {w} : pc'[x] = pc[x] /\ status'[x] = status[x]
  BY <1>1, <1>3, <1>4, Zenon DEF Types
<1>7. \A x \in Writer : x \in {w} \/ (SameThread(x) /\ SameGroup(x))
  BY <1>3, <1>6, Zenon DEF SameThread, SameGroup
<1>8. failed' = {} => /\ failed = {} /\ status' = status /\ pgStatus' = pgStatus
                      /\ \A x \in Writer : SameState(x)
  BY <1>3, <1>4, Zenon DEF SameState
<1>9. status'[w] = "ok" => Applied(w)'
  <2>1. status'[w] = "ok" => w \in callbackFailed \/ w \in memtable'
    BY <1>1, <1>4, Zenon DEF Types
  <2>2. (w \in callbackFailed => Refuses(w)) /\ (Refuses(w)' <=> Refuses(w))
    BY <1>1, <1>3, Zenon DEF DataTypes, Refuses
  <2> QED BY <2>1, <2>2, Zenon DEF Applied
<1>10. DataAt(w)'
  <2>1. Leads(w)'
    BY <1>1, <1>2, <1>3, <1>6, Zenon DEF DataAt, Leads
  <2>2. Joined(w)'
    BY <1>1, <1>3, Zenon DEF DataAt, Joined
  <2>3. GroupLogged(w)'
    <3>1. group[w] # <<>> => pc[w] = "insert"
      BY <1>1, <1>3, Zenon DEF DataAt, Leads
    <3>2. Members(group[w]) \subseteq Writer /\ group' = group
      BY <1>1, <1>3 DEF Members, Types
    <3>3. \A x \in Members(group[w]) : (Logged(x) => Logged(x)') /\ (Asked(x) => Asked(x)')
      BY <1>1, <1>5, <3>2, StaysWritten, Zenon
    <3> QED BY <1>1, <3>1, <3>2, <3>3, Zenon DEF DataAt, GroupLogged
  <2>4. LeaderWritten(w)'
    BY <1>6, <1>9, Zenon DEF LeaderWritten
  <2> QED BY <2>1, <2>2, <2>3, <2>4, Zenon DEF DataAt
<1>11. ASSUME failed' = {} PROVE HealthyAt(w)'
  <2>1. HealthyAt(w) /\ status' = status /\ pgStatus' = pgStatus
    BY <1>1, <1>8, <1>11, Zenon
  <2>2. Healthy(w)'
    BY <1>3, <1>6, <2>1, Zenon DEF HealthyAt, Healthy
  <2>3. Applied(w)'
    BY <1>9, <2>1, Zenon DEF HealthyAt, Healthy
  <2> QED BY <1>6, <2>2, <2>3, Zenon DEF HealthyAt, GroupWritten, Finishing, FollowerWritten
<1>12. Moves({w})
  BY <1>1, <1>3, <1>7, <1>8, <1>10, <1>11, Zenon DEF Moves
<1> QED BY <1>1, <1>5, <1>12, DataMoves, Zenon

\* A member that is not the last waits.
LEMMA CountDownData ==
  ASSUME Places, DataInv, NEW w \in Writer, CountDown(w)
  PROVE  DataInv'
<1>1. /\ Types /\ DataTypes /\ DataAt(w)
      /\ failed = {} => ~bg_error /\ HealthyAt(w)
  BY Zenon DEF Places, DataInv
<1>2. state[w] # "COMPLETED"
  BY Zenon DEF Places, ParallelPlaces, CountDown
<1>3. /\ pc[w] = "count" /\ pc' = [pc EXCEPT ![w] = "wait"]
      /\ UNCHANGED <<result, group, state, status, pgStatus, parallel_group>>
      /\ UNCHANGED <<request, callbackFailed, log, memtable, bg_error, failed>>
  BY Zenon DEF CountDown, Goto, db
<1>4. Grows /\ DataTypes'
  BY <1>1, <1>3, SameTypes, Zenon DEF Grows, DataTypes
<1>5. pc'[w] = "wait" /\ \A x \in Writer \ {w} : pc'[x] = pc[x]
  BY <1>1, <1>3, Zenon DEF Types
<1>6. \A x \in Writer : x \in {w} \/ (SameThread(x) /\ SameGroup(x) /\ SameState(x))
  BY <1>3, <1>5, Zenon DEF SameThread, SameGroup, SameState
<1>7. Members(group[w])' = Members(group[w]) /\ Members(group[w]) \subseteq Writer
  BY <1>1, <1>3 DEF Members, Types
<1>8. \A x \in Writer : /\ Refuses(x)' <=> Refuses(x)
                        /\ (Logged(x) => Logged(x)') /\ (Asked(x) => Asked(x)')
                        /\ (Applied(x) => Applied(x)') /\ (Written(x) => Written(x)')
  BY <1>1, <1>4, StaysWritten, Zenon
<1>9. DataAt(w)'
  <2>1. Leads(w)'
    BY <1>1, <1>3, <1>5, Zenon DEF DataAt, Leads
  <2>2. Joined(w)'
    BY <1>1, <1>3, Zenon DEF DataAt, Joined
  <2>3. GroupLogged(w)' /\ LeaderWritten(w)'
    BY <1>1, <1>3, <1>5, <1>7, <1>8, Zenon DEF DataAt, GroupLogged, LeaderWritten
  <2> QED BY <2>1, <2>2, <2>3, Zenon DEF DataAt
<1>10. HealthyAt(w) => HealthyAt(w)'
  <2>1. Healthy(w) => Healthy(w)'
    BY <1>3, <1>5, Zenon DEF Healthy
  <2>2. GroupWritten(w)'
    BY <1>2, <1>3, <1>5, Zenon DEF GroupWritten, Finishing
  <2>3. FollowerWritten(w) => FollowerWritten(w)'
    BY <1>2, <1>3, <1>5, <1>8, Zenon DEF FollowerWritten
  <2> QED BY <2>1, <2>2, <2>3, Zenon DEF HealthyAt
<1>11. Moves({w})
  BY <1>1, <1>3, <1>6, <1>9, <1>10, Zenon DEF Moves
<1> QED BY <1>1, <1>4, <1>11, DataMoves, Zenon

\* When the last member of a parallel group counts down, all are logged; they are
\* applied, too, unless something has failed.
LEMMA LastOfGroupWritten ==
  ASSUME Places, DataInv, NEW w \in Writer, NEW l \in Writer,
         pc[w] = "count", l = Leader(w), running[l] = 1
  PROVE  /\ w \in Members(group[l]) /\ l \in Members(group[l]) /\ group[l] # <<>>
         /\ Members(group[l]) \subseteq Writer
         /\ w # l => group[w] = <<>> /\ pc[l] = "wait"
         /\ state[w] # "COMPLETED" /\ parallel_group[w] = l
         /\ \A x \in Members(group[l]) : Logged(x) /\ Asked(x)
         /\ failed = {} => \A x \in Members(group[l]) : Written(x)
<1>1. \A y \in Members(group[l]) : parallel_group[y] = l /\ (y # w => pc[y] = "wait")
  BY Zenon DEF Places, LastPlaces
<1>2. w \in Members(group[l]) /\ state[w] # "COMPLETED" /\ parallel_group[w] = l
  BY Zenon DEF Places, ParallelPlaces, Leader
<1>3. group[l] # <<>>
  BY <1>2, WriterAssumption, Zenon DEF DataInv, DataAt, Leads
<1>4. l \in Members(group[l]) /\ Members(group[l]) \subseteq Writer
  BY <1>3, Zenon DEF Places, GroupPlaces
<1>5. w # l => group[w] = <<>>
  BY <1>2, Zenon DEF Places, GroupPlaces
<1>6. \A y \in Members(group[l]) : pc[y] \in {"count", "wait"}
  BY <1>1, Zenon
<1>7. \A x \in Members(group[l]) : Logged(x) /\ Asked(x)
  BY <1>3, <1>4, <1>6, Zenon DEF DataInv, DataAt, GroupLogged
<1>8. failed = {} => \A x \in Members(group[l]) : Written(x)
  <2>1. SUFFICES ASSUME failed = {}, NEW x \in Members(group[l]) PROVE Applied(x)
    BY <1>7, Zenon DEF Written
  <2>2. x \in Writer /\ parallel_group[x] # Null /\ pc[x] \in {"count", "wait"}
    BY <1>1, <1>4, <1>6, WriterAssumption, Zenon
  <2> QED BY <2>1, <2>2, Zenon DEF DataInv, HealthyAt, FollowerWritten
<1> QED BY <1>1, <1>2, <1>3, <1>4, <1>5, <1>7, <1>8, Zenon

\* The leader is the last of its group.
LEMMA LastLeaderData ==
  ASSUME Places, DataInv, NEW w \in Writer, LastLeader(w)
  PROVE  DataInv'
<1>1. /\ Types /\ DataTypes /\ DataAt(w)
      /\ failed = {} => ~bg_error /\ HealthyAt(w)
  BY Zenon DEF Places, DataInv
<1>2. pc[w] = "count" /\ w = Leader(w) /\ running[w] = 1 /\ AfterApply(w)
  BY Zenon DEF LastLeader
<1>3. /\ w \in Members(group[w]) /\ group[w] # <<>> /\ Members(group[w]) \subseteq Writer
      /\ \A x \in Members(group[w]) : Logged(x) /\ Asked(x)
      /\ failed = {} => \A x \in Members(group[w]) : Written(x)
  BY <1>2, LastOfGroupWritten, Zenon
<1>4. /\ UNCHANGED <<state, request, group, callbackFailed, parallel_group, pgStatus>>
      /\ UNCHANGED <<log, memtable, bg_error, failed>>
      /\ status' = [status EXCEPT ![w] = pgStatus[w]]
      /\ result' = [result EXCEPT ![w] = IF pgStatus[w] = "ok" THEN FinalStatus(w) ELSE "fail"]
  BY Zenon DEF LastLeader
<1>5. /\ FinalStatus(w) \in Status
      /\ FinalStatus(w) = "ok" => status[w] = "ok" /\ w \notin callbackFailed
      /\ FinalStatus(w) = "fail" /\ status[w] = "ok" => w \in callbackFailed
  BY <1>1, FinalStatusIs, Zenon
<1>6. /\ status' \in [Writer -> Status] /\ result' \in [Writer -> Status]
      /\ status'[w] = pgStatus[w]
      /\ \A x \in Writer \ {w} : status'[x] = status[x] /\ result'[x] = result[x]
  BY <1>1, <1>4, <1>5, Zenon DEF Types, DataTypes, Status
<1>7. result'[w] = "ok" => FinalStatus(w) = "ok"
  BY <1>1, <1>4, Zenon DEF DataTypes
<1>8. pgStatus[w] = "ok" => result'[w] = FinalStatus(w)
  BY <1>1, <1>4, Zenon DEF DataTypes
<1>9. PICK label \in {"report", "unlink"} : pc' = [pc EXCEPT ![w] = label]
  BY <1>1, <1>2, <1>6, AfterApplyGoes, Zenon
<1>10. pc'[w] = label /\ \A x \in Writer \ {w} : pc'[x] = pc[x]
  BY <1>1, <1>9, Zenon DEF Types
<1>11. Grows /\ DataTypes'
  BY <1>1, <1>4, <1>6, SameTypes, Zenon DEF Grows
<1>12. \A x \in Writer : x \in {w} \/ (SameThread(x) /\ SameGroup(x) /\ SameState(x))
  BY <1>4, <1>6, <1>10, Zenon DEF SameThread, SameGroup, SameState
<1>13. \A x \in Writer : /\ Refuses(x)' <=> Refuses(x)
                        /\ (Logged(x) => Logged(x)') /\ (Asked(x) => Asked(x)')
                        /\ (Applied(x) => Applied(x)') /\ (Written(x) => Written(x)')
  BY <1>1, <1>11, StaysWritten, Zenon
<1>14. DataAt(w)'
  <2>1. Leads(w)'
    BY <1>1, <1>3, <1>4, <1>10, Zenon DEF DataAt, Leads
  <2>2. Joined(w)'
    BY <1>1, <1>4, Zenon DEF DataAt, Joined
  <2>3. GroupLogged(w)'
    BY <1>10, Zenon DEF GroupLogged
  <2>4. LeaderWritten(w)'
    <3>1. SUFFICES ASSUME result'[w] = "ok", request[w].batch
                   PROVE  Written(w)' /\ ~Refuses(w)'
      BY <1>4, <1>10, Zenon DEF LeaderWritten
    <3>2. status[w] = "ok" /\ w \notin callbackFailed
      BY <1>5, <1>7, <3>1, Zenon
    <3>3. Applied(w)
      BY <1>1, <1>2, <1>3, <3>1, <3>2, Zenon DEF DataAt, LeaderWritten
    <3>4. Logged(w) /\ Asked(w)
      BY <1>3, Zenon
    <3>5. ~Refuses(w)
      BY <3>2, <3>4, Zenon DEF Asked
    <3> QED BY <1>13, <3>3, <3>4, <3>5, Zenon DEF Written
  <2> QED BY <2>1, <2>2, <2>3, <2>4, Zenon DEF DataAt
<1>15. ASSUME failed' = {} PROVE HealthyAt(w)'
  <2>1. failed = {} /\ HealthyAt(w)
    BY <1>1, <1>4, <1>15, Zenon
  <2>2. pgStatus[w] = "ok" /\ status[w] = "ok"
    BY <2>1, Zenon DEF HealthyAt, Healthy
  <2>3. result'[w] = "fail" => w \in callbackFailed
    BY <1>5, <1>8, <2>2, Zenon
  <2>4. Healthy(w)'
    BY <1>4, <1>6, <1>10, <2>2, <2>3, Zenon DEF Healthy
  <2>5. Led(w)' = w /\ Members(group[w])' = Members(group[w])
    BY <1>3, <1>4, Zenon DEF Led
  <2>6. GroupWritten(w)'
    BY <1>3, <1>13, <2>1, <2>5, Zenon DEF GroupWritten
  <2>7. FollowerWritten(w)'
    BY <1>10, Zenon DEF FollowerWritten
  <2> QED BY <2>4, <2>6, <2>7, Zenon DEF HealthyAt
<1>16. Moves({w})
  BY <1>1, <1>4, <1>12, <1>14, <1>15, Zenon DEF Moves
<1> QED BY <1>1, <1>11, <1>16, DataMoves, Zenon

\* A follower is the last, and exits for its leader.
LEMMA LastFollowerExitsData ==
  ASSUME Places, DataInv, NEW w \in Writer, LastFollowerExits(w)
  PROVE  DataInv'
<1>1. /\ Types /\ DataTypes /\ DataAt(w)
      /\ failed = {} => ~bg_error /\ HealthyAt(w)
  BY Zenon DEF Places, DataInv
<1>2. PICK l \in Writer : l = Leader(w)
  BY Zenon DEF Places, ParallelPlaces, LastFollowerExits, Leader
<1>3. /\ w # l /\ pc[w] = "count" /\ pc' = [pc EXCEPT ![w] = "unlink"] /\ running[l] = 1
      /\ UNCHANGED <<result, group, state, status, pgStatus, parallel_group>>
      /\ UNCHANGED <<request, callbackFailed, log, memtable, bg_error, failed>>
  BY <1>2, Zenon DEF LastFollowerExits, Goto, shared
<1>4. /\ group[w] = <<>> /\ group[l] # <<>> /\ parallel_group[w] = l
      /\ Members(group[l]) \subseteq Writer
      /\ failed = {} => \A x \in Members(group[l]) : Written(x)
  BY <1>2, <1>3, LastOfGroupWritten, Zenon
<1>5. Grows /\ DataTypes'
  BY <1>1, <1>3, SameTypes, Zenon DEF Grows, DataTypes
<1>6. pc'[w] = "unlink" /\ \A x \in Writer \ {w} : pc'[x] = pc[x]
  BY <1>1, <1>3, Zenon DEF Types
<1>7. \A x \in Writer : x \in {w} \/ (SameThread(x) /\ SameGroup(x) /\ SameState(x))
  BY <1>3, <1>6, Zenon DEF SameThread, SameGroup, SameState
<1>8. DataAt(w)'
  BY <1>3, <1>4, <1>6, WriterAssumption
     DEF DataAt, Leads, Joined, GroupLogged, LeaderWritten, Members
<1>9. failed = {} /\ HealthyAt(w) => HealthyAt(w)'
  <2>1. SUFFICES ASSUME failed = {}, HealthyAt(w) PROVE HealthyAt(w)'
    BY Zenon
  <2>2. Healthy(w)'
    BY <1>3, <1>6, <2>1, Zenon DEF HealthyAt, Healthy
  <2>3. Led(w)' = l /\ Members(group[l])' = Members(group[l])
    BY <1>3, <1>4, Zenon DEF Led, Leader
  <2>4. \A x \in Members(group[l]) : Written(x)'
    BY <1>1, <1>4, <1>5, <2>1, StaysWritten, Zenon
  <2>5. GroupWritten(w)'
    BY <2>3, <2>4, Zenon DEF GroupWritten
  <2> QED BY <1>6, <2>2, <2>5, Zenon DEF HealthyAt, FollowerWritten
<1>10. Moves({w})
  BY <1>1, <1>3, <1>7, <1>8, <1>9, Zenon DEF Moves
<1> QED BY <1>1, <1>5, <1>10, DataMoves, Zenon

\* A follower is the last, and wakes its leader to exit.
LEMMA LastFollowerWakesData ==
  ASSUME Places, DataInv, NEW w \in Writer, LastFollowerWakes(w)
  PROVE  DataInv'
<1>1. /\ Types /\ DataTypes /\ DataAt(w)
      /\ failed = {} => ~bg_error /\ HealthyAt(w)
  BY Zenon DEF Places, DataInv
<1>2. PICK l \in Writer : l = Leader(w)
  BY Zenon DEF Places, ParallelPlaces, LastFollowerWakes, Leader
<1>3. /\ w # l /\ pc[w] = "count" /\ pc' = [pc EXCEPT ![w] = "wait"] /\ running[l] = 1
      /\ state' = [state EXCEPT ![l] = "COMPLETED"]
      /\ UNCHANGED <<result, group, status, pgStatus, parallel_group>>
      /\ UNCHANGED <<request, callbackFailed, log, memtable, bg_error, failed>>
  BY <1>2, Zenon DEF LastFollowerWakes, Goto, shared, db
<1>4. /\ group[w] = <<>> /\ group[l] # <<>> /\ parallel_group[w] = l /\ pc[l] = "wait"
      /\ l \in Members(group[l]) /\ Members(group[l]) \subseteq Writer
      /\ state[w] # "COMPLETED"
      /\ failed = {} => \A x \in Members(group[l]) : Written(x)
  BY <1>2, <1>3, LastOfGroupWritten, Zenon
<1>5. Grows /\ DataTypes'
  BY <1>1, <1>3, SameTypes, Zenon DEF Grows, DataTypes
<1>6. /\ pc'[w] = "wait" /\ \A x \in Writer \ {w} : pc'[x] = pc[x]
      /\ state'[l] = "COMPLETED" /\ \A x \in Writer \ {l} : state'[x] = state[x]
  BY <1>1, <1>3, Zenon DEF Types
<1>7. /\ \A x \in Writer : SameGroup(x)
      /\ \A x \in Writer \ {w} : SameThread(x)
      /\ \A x \in Writer \ {l} : SameState(x)
  BY <1>3, <1>6, Zenon DEF SameThread, SameGroup, SameState
<1>8. DataAt(w)'
  BY <1>3, <1>4, <1>6, WriterAssumption
     DEF DataAt, Leads, Joined, GroupLogged, LeaderWritten, Members
<1>9. DataAt(l)'
  <2>1. DataAt(l) /\ SameThread(l) /\ SameGroup(l)
    BY <1>3, <1>7, Zenon DEF DataInv
  <2> QED BY <1>1, <1>5, <2>1, SameData, Zenon
<1>10. \A x \in Writer : /\ Refuses(x)' <=> Refuses(x)
                        /\ (Applied(x) => Applied(x)') /\ (Written(x) => Written(x)')
  BY <1>1, <1>5, StaysWritten, Zenon
<1>11. HealthyAt(w) => HealthyAt(w)'
  <2>1. state'[w] # "COMPLETED"
    BY <1>3, <1>4, <1>6, Zenon
  <2>2. GroupWritten(w)'
    BY <1>6, <2>1, Zenon DEF GroupWritten, Finishing
  <2>3. Healthy(w) => Healthy(w)'
    BY <1>3, <1>6, Zenon DEF Healthy
  <2>4. FollowerWritten(w) => FollowerWritten(w)'
    BY <1>3, <1>6, <1>10, <2>1, Zenon DEF FollowerWritten
  <2> QED BY <2>2, <2>3, <2>4, Zenon DEF HealthyAt
<1>12. ASSUME failed = {} PROVE HealthyAt(l)'
  <2>1. HealthyAt(l)
    BY <1>12, Zenon DEF DataInv
  <2>2. Healthy(l)'
    BY <1>3, <1>4, <1>6, <2>1 DEF HealthyAt, Healthy
  <2>3. Led(l)' = l /\ Members(group[l])' = Members(group[l])
    BY <1>3, <1>4, Zenon DEF Led
  <2>4. \A x \in Members(group[l]) : Written(x)'
    BY <1>4, <1>10, <1>12, Zenon
  <2>5. GroupWritten(l)'
    BY <2>3, <2>4, Zenon DEF GroupWritten
  <2>6. Written(l)' /\ pc'[l] = "wait"
    BY <1>3, <1>4, <1>6, <2>4, Zenon
  <2>7. FollowerWritten(l)'
    BY <2>6, Zenon DEF FollowerWritten, Written
  <2> QED BY <2>2, <2>5, <2>7, Zenon DEF HealthyAt
<1>13. Moves({w, l})
  BY <1>1, <1>3, <1>7, <1>8, <1>9, <1>11, <1>12, Zenon DEF Moves
<1> QED BY <1>1, <1>5, <1>13, DataMoves, Zenon

\* The leader of a parallel group is woken.
LEMMA LeaderWakesData ==
  ASSUME Places, DataInv, NEW w \in Writer, LeaderWakes(w)
  PROVE  DataInv'
<1>1. /\ Types /\ DataTypes /\ DataAt(w)
      /\ failed = {} => ~bg_error /\ HealthyAt(w)
  BY Zenon DEF Places, DataInv
<1>2. /\ pc[w] = "wait" /\ parallel_group[w] = w /\ state[w] = "COMPLETED"
      /\ result' = [result EXCEPT ![w] = FinalStatus(w)] /\ status' = status
      /\ UNCHANGED <<state, group, pgStatus, parallel_group>>
      /\ UNCHANGED <<request, callbackFailed, log, memtable, bg_error, failed>>
      /\ AfterApply(w) \/ pc' = [pc EXCEPT ![w] = "report"]
  BY Zenon DEF LeaderWakes, Leader, Goto
<1>3. group[w] # <<>>
  BY <1>1, <1>2, WriterAssumption, Zenon DEF DataAt, Leads
<1>4. /\ FinalStatus(w) \in Status
      /\ FinalStatus(w) = "ok" => status[w] = "ok" /\ w \notin callbackFailed
      /\ FinalStatus(w) = "fail" /\ status[w] = "ok" => w \in callbackFailed
  BY <1>1, FinalStatusIs, Zenon
<1>5. PICK label \in {"report", "unlink"} : pc' = [pc EXCEPT ![w] = label]
  <2>1. CASE AfterApply(w)
    <3>1. status' \in [Writer -> Status]
      BY <1>1, <1>2, Zenon DEF Types
    <3> QED BY <1>1, <2>1, <3>1, AfterApplyGoes, Zenon
  <2> QED BY <1>2, <2>1, Zenon
<1>6. /\ result' \in [Writer -> Status] /\ result'[w] = FinalStatus(w)
      /\ \A x \in Writer \ {w} : result'[x] = result[x]
  BY <1>1, <1>2, <1>4, Zenon DEF DataTypes
<1>7. pc'[w] = label /\ \A x \in Writer \ {w} : pc'[x] = pc[x]
  BY <1>1, <1>5, Zenon DEF Types
<1>8. Grows /\ DataTypes'
  BY <1>1, <1>2, <1>6, SameTypes, Zenon DEF Grows
<1>9. \A x \in Writer : /\ SameGroup(x) /\ SameState(x)
                        /\ x \in {w} \/ SameThread(x)
  BY <1>2, <1>6, <1>7, Zenon DEF SameThread, SameGroup, SameState
<1>10. \A x \in Writer : /\ Refuses(x)' <=> Refuses(x)
                         /\ (Written(x) => Written(x)')
  BY <1>1, <1>8, StaysWritten, Zenon
<1>11. DataAt(w)'
  <2>1. Leads(w)'
    BY <1>1, <1>2, <1>3, <1>7, Zenon DEF DataAt, Leads
  <2>2. Joined(w)'
    BY <1>1, <1>2, Zenon DEF DataAt, Joined
  <2>3. GroupLogged(w)'
    BY <1>7, Zenon DEF GroupLogged
  <2>4. LeaderWritten(w)'
    <3>1. SUFFICES ASSUME result'[w] = "ok", request[w].batch
                   PROVE  Written(w)' /\ ~Refuses(w)'
      BY <1>2, <1>7, Zenon DEF LeaderWritten
    <3>2. status[w] = "ok" /\ w \notin callbackFailed
      BY <1>4, <1>6, <3>1, Zenon
    <3>3. Applied(w)
      BY <1>1, <1>2, <1>3, <3>1, <3>2, Zenon DEF DataAt, LeaderWritten
    <3>4. Logged(w) /\ Asked(w)
      <4>1. w \in Members(group[w])
        BY <1>3, Zenon DEF Places, GroupPlaces
      <4> QED BY <1>1, <1>2, <1>3, <4>1, Zenon DEF DataAt, GroupLogged
    <3>5. ~Refuses(w)
      BY <3>2, <3>4, Zenon DEF Asked
    <3> QED BY <1>10, <3>3, <3>4, <3>5, Zenon DEF Written
  <2> QED BY <2>1, <2>2, <2>3, <2>4, Zenon DEF DataAt
<1>12. ASSUME failed' = {} PROVE HealthyAt(w)'
  <2>1. HealthyAt(w) /\ status[w] = "ok"
    BY <1>1, <1>2, <1>12, Zenon DEF HealthyAt, Healthy
  <2>2. Healthy(w)'
    BY <1>2, <1>4, <1>6, <1>7, <2>1, Zenon DEF HealthyAt, Healthy
  <2>3. Finishing(w) /\ GroupWritten(w) /\ Leads(w) /\ SameGroup(w)
    BY <1>1, <1>2, <1>3, <1>9, <2>1, Zenon DEF Finishing, HealthyAt, DataAt
  <2>4. GroupWritten(w)'
    BY <1>1, <1>8, <2>3, SameGroupWritten, Zenon
  <2> QED BY <1>7, <2>2, <2>4, Zenon DEF HealthyAt, FollowerWritten
<1>13. Moves({w})
  BY <1>1, <1>2, <1>9, <1>11, <1>12, Zenon DEF Moves
<1> QED BY <1>1, <1>8, <1>13, DataMoves, Zenon

\* ExitAsBatchGroupLeader takes the group off the list.
LEMMA UnlinkData ==
  ASSUME Places, DataInv, NEW t \in Writer, Unlink(t)
  PROVE  DataInv'
<1>1. /\ Types /\ DataTypes /\ DataAt(t)
      /\ failed = {} => ~bg_error /\ HealthyAt(t)
  BY Zenon DEF Places, DataInv
<1>2. /\ pc[t] = "unlink" /\ pc' = [pc EXCEPT ![t] = "complete"]
      /\ UNCHANGED <<result, group, status, pgStatus, parallel_group>>
      /\ UNCHANGED <<request, callbackFailed, log, memtable, bg_error, failed>>
  BY Zenon DEF Unlink, Goto, shared, db
<1>3. \A x \in Writer : state'[x] = "COMPLETED" => state[x] = "COMPLETED"
  <2>1. state' = state \/ \E next : state' = [state EXCEPT ![next] = "GROUP_LEADER"]
    BY Zenon DEF Unlink, UnlinkGroup
  <2> QED BY <1>1, <2>1, Zenon DEF Types
<1>4. Grows /\ DataTypes'
  BY <1>1, <1>2, SameTypes, Zenon DEF Grows, DataTypes
<1>5. pc'[t] = "complete" /\ \A x \in Writer \ {t} : pc'[x] = pc[x]
  BY <1>1, <1>2, Zenon DEF Types
<1>6. \A x \in Writer : SameGroup(x) /\ SameState(x) /\ (x \in {t} \/ SameThread(x))
  BY <1>2, <1>3, <1>5, Zenon DEF SameThread, SameGroup, SameState
<1>7. \A x \in Writer : /\ Refuses(x)' <=> Refuses(x)
                        /\ (Written(x) => Written(x)')
  BY <1>1, <1>4, StaysWritten, Zenon
<1>8. DataAt(t)'
  <2>1. Leads(t)'
    BY <1>1, <1>2, <1>5, Zenon DEF DataAt, Leads
  <2>2. Joined(t)'
    BY <1>1, <1>2, Zenon DEF DataAt, Joined
  <2>3. GroupLogged(t)' /\ LeaderWritten(t)'
    BY <1>1, <1>2, <1>5, <1>7, Zenon DEF DataAt, GroupLogged, LeaderWritten
  <2> QED BY <2>1, <2>2, <2>3, Zenon DEF DataAt
<1>9. HealthyAt(t) => HealthyAt(t)'
  <2>1. SUFFICES ASSUME HealthyAt(t) PROVE HealthyAt(t)'
    BY Zenon
  <2>2. Healthy(t)' /\ FollowerWritten(t)'
    BY <1>2, <1>5, <2>1, Zenon DEF HealthyAt, Healthy, FollowerWritten
  <2>3. Finishing(t) /\ GroupWritten(t) /\ Leads(t) /\ SameGroup(t)
    BY <1>1, <1>2, <1>6, <2>1, Zenon DEF Finishing, HealthyAt, DataAt
  <2>4. GroupWritten(t)'
    BY <1>1, <1>4, <2>3, SameGroupWritten, Zenon
  <2> QED BY <2>2, <2>4, Zenon DEF HealthyAt
<1>10. Moves({t})
  BY <1>1, <1>2, <1>6, <1>8, <1>9, Zenon DEF Moves
<1> QED BY <1>1, <1>4, <1>10, DataMoves, Zenon

\* A thread that exits a group wakes a member of it.
LEMMA CompleteNextData ==
  ASSUME Places, DataInv, NEW t \in Writer, CompleteNext(t)
  PROVE  DataInv'
<1>1. /\ Types /\ DataTypes /\ DataAt(t)
      /\ failed = {} => ~bg_error /\ HealthyAt(t)
  BY Zenon DEF Places, DataInv
<1>2. PICK l : l = Led(t)
  BY Zenon
<1>3. PICK x : x = cursor[t]
  BY Zenon
<1>4. /\ pc[t] = "complete" /\ x # l
      /\ status' = [status EXCEPT ![x] = ExitStatus(t)]
      /\ state' = [state EXCEPT ![x] = "COMPLETED"]
      /\ UNCHANGED <<pc, result, group, parallel_group, pgStatus>>
      /\ UNCHANGED <<request, callbackFailed, log, memtable, bg_error, failed>>
  BY <1>2, <1>3, Zenon DEF CompleteNext, db
<1>5. l \in Writer /\ x \in Members(group[l])
  BY <1>2, <1>3, <1>4, Zenon DEF Places, ExitPlaces
<1>6. x \in Writer /\ group[x] = <<>> /\ Members(group[l]) \subseteq Writer
  BY <1>4, <1>5, Zenon DEF Places, GroupPlaces
<1>7. Grows /\ DataTypes'
  BY <1>1, <1>4, SameTypes, Zenon DEF Grows, DataTypes
<1>8. /\ state'[x] = "COMPLETED" /\ status'[x] = ExitStatus(t)
      /\ \A y \in Writer \ {x} : state'[y] = state[y] /\ status'[y] = status[y]
  BY <1>1, <1>4, <1>6, Zenon DEF Types
<1>9. \A y \in Writer : y \in {x} \/ (SameThread(y) /\ SameState(y))
  BY <1>4, <1>8, Zenon DEF SameThread, SameState
<1>10. \A y \in Writer : SameGroup(y)
  BY <1>4, Zenon DEF SameGroup
<1>11. DataAt(x) /\ DataAt(l) /\ (failed = {} => HealthyAt(x) /\ HealthyAt(l))
  BY <1>5, <1>6, Zenon DEF DataInv
<1>12. DataAt(x)'
  <2>1. Leads(x)'
    BY <1>4, <1>11, Zenon DEF DataAt, Leads
  <2> QED BY <1>4, <1>6, <2>1 DEF DataAt, Joined, GroupLogged, LeaderWritten, Members
<1>13. \A y \in Writer : /\ Refuses(y)' <=> Refuses(y)
                         /\ (Applied(y) => Applied(y)')
                         /\ (Written(y) => Written(y)')
  BY <1>1, <1>7, StaysWritten, Zenon
<1>14. ASSUME failed = {} PROVE HealthyAt(x)'
  <2>1. HealthyAt(t) /\ HealthyAt(x) /\ HealthyAt(l)
    BY <1>1, <1>11, <1>14, Zenon
  <2>2. status'[x] = "ok"
    BY <1>2, <1>8, <2>1, Zenon DEF ExitStatus, HealthyAt, Healthy
  <2>3. Healthy(x)'
    BY <1>4, <2>1, <2>2, Zenon DEF HealthyAt, Healthy
  <2>4. Written(x)
    <3>1. request[l].batch
      BY <1>4, <1>5, <1>11, Zenon DEF DataAt, Joined
    <3>2. Finishing(t)
      BY <1>4, Zenon DEF Finishing
    <3> QED BY <1>2, <1>5, <2>1, <3>1, <3>2, Zenon DEF HealthyAt, GroupWritten
  <2>5. GroupWritten(x)'
    <3>1. Finishing(x)' => Finishing(x)
      BY <1>4, <1>6, Zenon DEF Finishing
    <3>2. CASE Finishing(x)
      <4>1. Leads(x) /\ SameGroup(x) /\ GroupWritten(x)
        BY <1>6, <1>10, <1>11, <2>1, Zenon DEF DataAt, HealthyAt
      <4> QED BY <1>1, <1>6, <1>7, <3>2, <4>1, SameGroupWritten, Zenon
    <3> QED BY <3>1, <3>2, Zenon DEF GroupWritten
  <2>6. FollowerWritten(x)'
    <3>1. FollowerWritten(x) /\ Written(x)' /\ Applied(x)' /\ (Refuses(x)' <=> Refuses(x))
      BY <1>6, <1>13, <2>1, <2>4, Zenon DEF HealthyAt, Written
    <3> QED BY <1>4, <3>1, Zenon DEF FollowerWritten
  <2> QED BY <2>3, <2>5, <2>6, Zenon DEF HealthyAt
<1>15. Moves({x})
  BY <1>1, <1>4, <1>9, <1>10, <1>12, <1>14, Zenon DEF Moves
<1> QED BY <1>1, <1>7, <1>15, DataMoves, Zenon

\* The leader has completed its group, and goes on or returns.
LEMMA LeaderExitData ==
  ASSUME Places, DataInv, NEW t \in Writer, ExitDone(t), t = Led(t)
  PROVE  DataInv'
<1>1. /\ Types /\ DataTypes /\ DataAt(t)
      /\ failed = {} => ~bg_error /\ HealthyAt(t)
  BY Zenon DEF Places, DataInv
<1>2. PICK label \in {"report", "done"} : pc' = [pc EXCEPT ![t] = label]
  BY Zenon DEF ExitDone, Goto
<1>3. /\ pc[t] = "complete"
      /\ UNCHANGED <<state, result, group, status, pgStatus, parallel_group>>
      /\ UNCHANGED <<request, callbackFailed, log, memtable, bg_error, failed>>
  BY Zenon DEF ExitDone, shared, db
<1>4. group[t] # <<>>
  BY <1>1, <1>3, WriterAssumption, Zenon DEF DataAt, Leads, Led, Leader
<1>5. Grows /\ DataTypes'
  BY <1>1, <1>3, SameTypes, Zenon DEF Grows, DataTypes
<1>6. pc'[t] = label /\ \A x \in Writer \ {t} : pc'[x] = pc[x]
  BY <1>1, <1>2, Zenon DEF Types
<1>7. \A x \in Writer : SameGroup(x) /\ SameState(x) /\ (x \in {t} \/ SameThread(x))
  BY <1>3, <1>6, Zenon DEF SameThread, SameGroup, SameState
<1>8. \A x \in Writer : /\ Refuses(x)' <=> Refuses(x)
                        /\ (Written(x) => Written(x)')
  BY <1>1, <1>5, StaysWritten, Zenon
<1>9. Leads(t)' /\ LeaderWritten(t)'
  BY <1>1, <1>3, <1>4, <1>6, <1>8, Zenon DEF DataAt, Leads, LeaderWritten
<1>10. DataAt(t)'
  <2>1. Joined(t)'
    BY <1>1, <1>3, Zenon DEF DataAt, Joined
  <2> QED BY <1>6, <1>9, <2>1, Zenon DEF DataAt, GroupLogged
<1>11. HealthyAt(t) => HealthyAt(t)'
  <2>1. SUFFICES ASSUME HealthyAt(t) PROVE HealthyAt(t)'
    BY Zenon
  <2>2. Healthy(t)'
    BY <1>3, <1>6, <2>1, Zenon DEF HealthyAt, Healthy
  <2>3. FollowerWritten(t)'
    BY <1>3, <1>4, <1>6, <1>9, Zenon DEF LeaderWritten, FollowerWritten
  <2>4. Finishing(t) /\ GroupWritten(t) /\ Leads(t) /\ SameGroup(t)
    BY <1>1, <1>3, <1>7, <2>1, Zenon DEF Finishing, HealthyAt, DataAt
  <2>5. GroupWritten(t)'
    BY <1>1, <1>5, <2>4, SameGroupWritten, Zenon
  <2> QED BY <2>2, <2>3, <2>5, Zenon DEF HealthyAt
<1>12. Moves({t})
  BY <1>1, <1>3, <1>7, <1>10, <1>11, Zenon DEF Moves
<1> QED BY <1>1, <1>5, <1>12, DataMoves, Zenon

\* The follower that exits for its leader wakes it last, and returns.
LEMMA FollowerExitData ==
  ASSUME Places, DataInv, NEW t \in Writer, ExitDone(t), t # Led(t)
  PROVE  DataInv'
<1>1. /\ Types /\ DataTypes /\ DataAt(t)
      /\ failed = {} => ~bg_error /\ HealthyAt(t)
  BY Zenon DEF Places, DataInv
<1>2. PICK l : l = Led(t)
  BY Zenon
<1>3. /\ pc[t] = "complete" /\ pc' = [pc EXCEPT ![t] = "done"] /\ t # l
      /\ state' = [state EXCEPT ![l] = "COMPLETED"]
      /\ result' = [result EXCEPT ![t] = FinalStatus(t)]
      /\ UNCHANGED <<group, status, pgStatus, parallel_group>>
      /\ UNCHANGED <<request, callbackFailed, log, memtable, bg_error, failed>>
  BY <1>2, Zenon DEF ExitDone, shared, db, Goto
<1>4. l \in Writer /\ t \in Members(group[l]) /\ pc[l] = "wait" /\ group[t] = <<>>
  BY <1>2, <1>3, Zenon DEF Places, ExitPlaces
<1>5. parallel_group[t] = l /\ group[l] # <<>>
  <2>1. parallel_group[t] = l
    BY <1>2, <1>4, Zenon DEF Led, Leader
  <2> QED BY <1>1, <1>4, <2>1, WriterAssumption, Zenon DEF DataAt, Leads
<1>6. l \in Members(group[l]) /\ Members(group[l]) \subseteq Writer
  BY <1>4, <1>5, Zenon DEF Places, GroupPlaces
<1>7. /\ FinalStatus(t) \in Status
      /\ FinalStatus(t) = "ok" => status[t] = "ok" /\ t \notin callbackFailed
      /\ FinalStatus(t) = "fail" /\ status[t] = "ok" => t \in callbackFailed
  BY <1>1, FinalStatusIs, Zenon
<1>8. /\ result' \in [Writer -> Status] /\ result'[t] = FinalStatus(t)
      /\ \A x \in Writer \ {t} : result'[x] = result[x]
  BY <1>1, <1>3, <1>7, Zenon DEF DataTypes
<1>9. /\ pc'[t] = "done" /\ \A x \in Writer \ {t} : pc'[x] = pc[x]
      /\ state'[l] = "COMPLETED" /\ \A x \in Writer \ {l} : state'[x] = state[x]
  BY <1>1, <1>3, <1>4, Zenon DEF Types
<1>10. Grows /\ DataTypes'
  BY <1>1, <1>3, <1>8, SameTypes, Zenon DEF Grows
<1>11. /\ \A x \in Writer : SameGroup(x)
       /\ \A x \in Writer \ {t} : SameThread(x)
       /\ \A x \in Writer \ {l} : SameState(x)
  BY <1>3, <1>8, <1>9, Zenon DEF SameThread, SameGroup, SameState
<1>12. DataAt(t)'
  BY <1>3, <1>4, <1>5, <1>9, SMTT(30) DEF DataAt, Leads, Joined, GroupLogged, LeaderWritten, Members
<1>13. DataAt(l) /\ DataAt(l)'
  <2>1. DataAt(l) /\ SameThread(l) /\ SameGroup(l)
    BY <1>3, <1>4, <1>11, Zenon DEF DataInv
  <2> QED BY <1>1, <1>4, <1>10, <2>1, SameData, Zenon
<1>14. request[l].batch
  BY <1>3, <1>4, <1>13, Zenon DEF DataAt, Joined
<1>15. \A x \in Writer : /\ Refuses(x)' <=> Refuses(x)
                        /\ (Asked(x) => Asked(x)') /\ (Written(x) => Written(x)')
  BY <1>1, <1>10, StaysWritten, Zenon
<1>16. ASSUME failed = {}, NEW x \in Members(group[l]) PROVE Written(x) /\ Written(x)'
  <2>1. GroupWritten(t) /\ Finishing(t)
    BY <1>1, <1>3, <1>16, Zenon DEF HealthyAt, Finishing
  <2>2. Written(x)
    BY <1>2, <1>14, <1>16, <2>1, Zenon DEF GroupWritten
  <2> QED BY <1>6, <1>15, <1>16, <2>2, Zenon
<1>17. ASSUME failed = {} PROVE HealthyAt(t)'
  <2>1. HealthyAt(t) /\ status[t] = "ok"
    BY <1>1, <1>17, Zenon DEF HealthyAt, Healthy
  <2>2. Healthy(t)'
    BY <1>3, <1>7, <1>8, <1>9, <2>1, Zenon DEF HealthyAt, Healthy
  <2>3. GroupWritten(t)'
    BY <1>9, Zenon DEF GroupWritten, Finishing
  <2>4. result'[t] = "ok" => ~Refuses(t)'
    <3>1. result'[t] = "ok" => t \notin callbackFailed'
      BY <1>3, <1>7, <1>8, Zenon
    <3>2. Asked(t)'
      BY <1>4, <1>16, <1>17, Zenon DEF Written
    <3> QED BY <3>1, <3>2, Zenon DEF Asked
  <2>5. Written(t)'
    BY <1>4, <1>16, <1>17, Zenon
  <2>6. FollowerWritten(t)'
    BY <1>9, <2>4, <2>5, Zenon DEF FollowerWritten
  <2> QED BY <2>2, <2>3, <2>6, Zenon DEF HealthyAt
<1>18. ASSUME failed = {} PROVE HealthyAt(l)'
  <2>1. HealthyAt(l)
    BY <1>4, <1>18, Zenon DEF DataInv
  <2>2. pc'[l] = "wait" /\ result'[l] = result[l]
    BY <1>3, <1>4, <1>8, <1>9, Zenon
  <2>3. Healthy(l)'
    BY <1>3, <2>1, <2>2, Zenon DEF HealthyAt, Healthy
  <2>4. Led(l)' = l /\ Members(group[l])' = Members(group[l])
    BY <1>3, <1>5, Zenon DEF Led
  <2>5. \A x \in Members(group[l]) : Written(x)'
    BY <1>16, <1>18, Zenon
  <2>6. GroupWritten(l)'
    BY <2>4, <2>5, Zenon DEF GroupWritten
  <2>7. Written(l)'
    BY <1>6, <2>5, Zenon
  <2>8. FollowerWritten(l)'
    BY <2>2, <2>7, Zenon DEF FollowerWritten, Written
  <2> QED BY <2>3, <2>6, <2>8, Zenon DEF HealthyAt
<1>19. Moves({t, l})
  BY <1>1, <1>3, <1>11, <1>12, <1>13, <1>17, <1>18, Zenon DEF Moves
<1> QED BY <1>1, <1>10, <1>19, DataMoves, Zenon

\* The end of WriteImpl for a leader.
LEMMA ReportData ==
  ASSUME Places, DataInv, NEW w \in Writer, Report(w)
  PROVE  DataInv'
<1>1. /\ Types /\ DataTypes /\ DataAt(w)
      /\ failed = {} => ~bg_error /\ HealthyAt(w)
  BY Zenon DEF Places, DataInv
<1>2. PICK label \in {"unlink", "done"} : pc' = [pc EXCEPT ![w] = label]
  BY Zenon DEF Report, Goto
<1>3. /\ pc[w] = "report"
      /\ bg_error' = (bg_error \/ (result[w] = "fail" /\ w \notin callbackFailed))
      /\ UNCHANGED <<state, result, group, status, pgStatus, parallel_group>>
      /\ UNCHANGED <<request, callbackFailed, log, memtable, failed>>
  BY Zenon DEF Report, shared
<1>4. group[w] # <<>>
  BY <1>1, <1>3, Zenon DEF DataAt, Leads
<1>5. Grows /\ DataTypes'
  BY <1>1, <1>3, SameTypes, Zenon DEF Grows, DataTypes
<1>6. pc'[w] = label /\ \A x \in Writer \ {w} : pc'[x] = pc[x]
  BY <1>1, <1>2, Zenon DEF Types
<1>7. \A x \in Writer : SameGroup(x) /\ SameState(x) /\ (x \in {w} \/ SameThread(x))
  BY <1>3, <1>6, Zenon DEF SameThread, SameGroup, SameState
<1>8. \A x \in Writer : /\ Refuses(x)' <=> Refuses(x)
                        /\ (Written(x) => Written(x)')
  BY <1>1, <1>5, StaysWritten, Zenon
<1>9. Leads(w)' /\ LeaderWritten(w)'
  BY <1>1, <1>3, <1>4, <1>6, <1>8, Zenon DEF DataAt, Leads, LeaderWritten
<1>10. DataAt(w)'
  <2>1. Joined(w)'
    BY <1>1, <1>3, Zenon DEF DataAt, Joined
  <2> QED BY <1>6, <1>9, <2>1, Zenon DEF DataAt, GroupLogged
<1>11. ASSUME failed = {} PROVE HealthyAt(w)' /\ ~bg_error'
  <2>1. HealthyAt(w) /\ ~bg_error
    BY <1>1, <1>11, Zenon
  <2>2. Healthy(w)' /\ ~bg_error'
    BY <1>3, <1>6, <2>1, Zenon DEF HealthyAt, Healthy
  <2>3. FollowerWritten(w)'
    BY <1>3, <1>4, <1>6, <1>9, Zenon DEF LeaderWritten, FollowerWritten
  <2>4. Finishing(w) /\ GroupWritten(w) /\ Leads(w) /\ SameGroup(w)
    BY <1>1, <1>3, <1>7, <2>1, Zenon DEF Finishing, HealthyAt, DataAt
  <2>5. GroupWritten(w)'
    BY <1>1, <1>5, <2>4, SameGroupWritten, Zenon
  <2> QED BY <2>2, <2>3, <2>5, Zenon DEF HealthyAt
<1>12. Moves({w})
  BY <1>3, <1>7, <1>10, <1>11, Zenon DEF Moves
<1> QED BY <1>1, <1>5, <1>12, DataMoves, Zenon

\* A follower returns.
LEMMA FollowerReturnsData ==
  ASSUME Places, DataInv, NEW w \in Writer, FollowerReturns(w)
  PROVE  DataInv'
<1>1. /\ Types /\ DataTypes /\ DataAt(w)
      /\ failed = {} => ~bg_error /\ HealthyAt(w)
  BY Zenon DEF Places, DataInv
<1>2. /\ pc[w] = "joined" \/ (pc[w] = "wait" /\ w # parallel_group[w])
      /\ state[w] = "COMPLETED" /\ pc' = [pc EXCEPT ![w] = "done"]
      /\ result' = [result EXCEPT ![w] = FinalStatus(w)]
      /\ UNCHANGED <<state, group, status, pgStatus, parallel_group>>
      /\ UNCHANGED <<request, callbackFailed, log, memtable, bg_error, failed>>
  BY Zenon DEF FollowerReturns, Goto, shared, db, Leader
<1>3. group[w] = <<>>
  BY <1>1, <1>2, Zenon DEF DataAt, Leads
<1>4. /\ FinalStatus(w) \in Status
      /\ FinalStatus(w) = "ok" => status[w] = "ok" /\ w \notin callbackFailed
      /\ FinalStatus(w) = "fail" /\ status[w] = "ok" => w \in callbackFailed
  BY <1>1, FinalStatusIs, Zenon
<1>5. /\ result' \in [Writer -> Status] /\ result'[w] = FinalStatus(w)
      /\ \A x \in Writer \ {w} : result'[x] = result[x]
  BY <1>1, <1>2, <1>4, Zenon DEF DataTypes
<1>6. pc'[w] = "done" /\ \A x \in Writer \ {w} : pc'[x] = pc[x]
  BY <1>1, <1>2, Zenon DEF Types
<1>7. Grows /\ DataTypes'
  BY <1>1, <1>2, <1>5, SameTypes, Zenon DEF Grows
<1>8. \A x \in Writer : SameGroup(x) /\ SameState(x) /\ (x \in {w} \/ SameThread(x))
  BY <1>2, <1>5, <1>6, Zenon DEF SameThread, SameGroup, SameState
<1>9. DataAt(w)'
  BY <1>1, <1>2, <1>3, <1>6 DEF DataAt, Leads, Joined, GroupLogged, LeaderWritten, Members
<1>10. ASSUME failed = {} PROVE HealthyAt(w)'
  <2>1. HealthyAt(w) /\ status[w] = "ok"
    BY <1>1, <1>10, Zenon DEF HealthyAt, Healthy
  <2>2. Healthy(w)'
    BY <1>2, <1>4, <1>5, <1>6, <2>1, Zenon DEF HealthyAt, Healthy
  <2>3. GroupWritten(w)'
    BY <1>6, Zenon DEF GroupWritten, Finishing
  <2>4. ASSUME request[w].batch, result'[w] = "ok" PROVE Written(w)' /\ ~Refuses(w)'
    <3>1. Written(w)
      BY <1>2, <2>1, <2>4, Zenon DEF HealthyAt, FollowerWritten
    <3>2. w \notin callbackFailed
      BY <1>4, <1>5, <2>4, Zenon
    <3>3. ~Refuses(w)
      BY <3>1, <3>2, Zenon DEF Written, Asked
    <3> QED BY <1>1, <1>7, <3>1, <3>3, StaysWritten, Zenon
  <2>5. FollowerWritten(w)'
    BY <1>2, <1>6, <2>4, Zenon DEF FollowerWritten
  <2> QED BY <2>2, <2>3, <2>5, Zenon DEF HealthyAt
<1>11. Moves({w})
  BY <1>1, <1>2, <1>8, <1>9, <1>10, Zenon DEF Moves
<1> QED BY <1>1, <1>7, <1>11, DataMoves, Zenon

\* A step of nobody.
LEMMA StutterData ==
  ASSUME Places, DataInv, UNCHANGED vars
  PROVE  DataInv'
<1>1. /\ UNCHANGED <<pc, result, state, group, status, pgStatus, parallel_group>>
      /\ UNCHANGED <<request, callbackFailed, log, memtable, bg_error, failed>>
  BY Zenon DEF vars, locals, shared, db
<1>2. Types /\ DataTypes
  BY Zenon DEF Places, DataInv
<1>3. Grows /\ DataTypes'
  BY <1>1, <1>2, SameTypes, Zenon DEF Grows, DataTypes
<1>4. \A x \in Writer : SameThread(x) /\ SameGroup(x) /\ SameState(x)
  BY <1>1, Zenon DEF SameThread, SameGroup, SameState
<1>5. failed = {} => ~bg_error
  BY Zenon DEF DataInv
<1>6. Moves({})
  BY <1>1, <1>4, <1>5, Zenon DEF Moves
<1> QED BY <1>2, <1>3, <1>6, DataMoves, Zenon

\* Nothing is written at first.
LEMMA InitData ==
  ASSUME Init
  PROVE  DataInv
<1>1. /\ pc = [w \in Writer |-> "start"] /\ status = [w \in Writer |-> "ok"]
      /\ result = [w \in Writer |-> "ok"] /\ group = [w \in Writer |-> <<>>]
      /\ parallel_group = [w \in Writer |-> Null] /\ pgStatus = [w \in Writer |-> "ok"]
      /\ callbackFailed = {} /\ log = <<>> /\ bg_error = FALSE
  BY Zenon DEF Init
<1>2. DataTypes
  BY <1>1 DEF DataTypes, Status
<1>3. ASSUME NEW x \in Writer PROVE DataAt(x)
  BY <1>1 DEF DataAt, Leads, Joined, GroupLogged, LeaderWritten, Members
<1>4. ASSUME NEW x \in Writer PROVE HealthyAt(x)
  BY <1>1, Zenon DEF HealthyAt, Healthy, GroupWritten, Finishing, FollowerWritten
<1> QED BY <1>1, <1>2, <1>3, <1>4, Zenon DEF DataInv

\* What Allowed leaves of a group: the batches whose callbacks do not refuse.
\* Lemma AllowedMembers of WriteSequenceProofs says that it does.
AllowedIs ==
  \A g \in Seq(Writer) : /\ Allowed(g) \in Seq(Writer)
                         /\ Members(Allowed(g)) = {x \in Members(g) : ~Refuses(x)}

\* The record that LogGroup appends has every batch that is allowed.
LEMMA RecordLogs ==
  ASSUME AllowedIs, DataTypes, NEW w \in Writer, group[w] \in Seq(Writer), Joined(w),
         NEW r \in Record, r.batches = Allowed(group[w]), r.synced = NeedLogSync(w),
         request' = request, log' = Append(log, r), NEW x \in Members(group[w])
  PROVE  Logged(x)'
<1>1. CASE Refuses(x)
  BY <1>1, Zenon DEF Logged, Refuses
<1>2. CASE request[x].disableWAL
  BY <1>2, Zenon DEF Logged
<1>3. CASE ~Refuses(x) /\ ~request[x].disableWAL
  <2>1. x \in Members(Allowed(group[w]))
    BY <1>3, Zenon DEF AllowedIs
  <2>2. log \in Seq(Record)
    BY Zenon DEF DataTypes
  <2>3. Len(log) + 1 \in DOMAIN log' /\ log'[Len(log) + 1] = r
    BY <2>2
  <2>4. request[x].sync => NeedLogSync(w)
    BY <1>3, Zenon DEF Joined, NeedLogSync
  <2>5. WrittenToLog(x)'
    BY <2>1, <2>3, <2>4, Zenon DEF WrittenToLog, Members
  <2> QED BY <2>5, Zenon DEF Logged
<1> QED BY <1>1, <1>2, <1>3, Zenon

\* The leader logs the batches of its group that are allowed.
LEMMA LogGroupData ==
  ASSUME AllowedIs, Places, DataInv, Numbers, NEW w \in Writer, LogGroup(w)
  PROVE  DataInv'
<1>1. Types /\ DataTypes /\ DataAt(w) /\ (failed = {} => ~bg_error /\ HealthyAt(w))
  BY Zenon DEF Places, DataInv
<1> DEFINE record == [seq |-> lastSequence + 1, batches |-> Allowed(group[w]),
                      synced |-> NeedLogSync(w)]
           lost == [record EXCEPT !.synced = FALSE]
<1>2. group[w] \in Seq(Writer) /\ group[w] # <<>> /\ pc[w] = "log"
  BY <1>1, Zenon DEF LogGroup, Types, DataAt, Leads
<1>3. record \in Record /\ lost \in Record
  <2>1. lastSequence + 1 \in Nat /\ Allowed(group[w]) \in Seq(Writer)
    BY <1>2 DEF Numbers, AllowedIs
  <2>2. NeedLogSync(w) \in BOOLEAN
    BY Zenon DEF NeedLogSync
  <2> QED BY <2>1, <2>2, Zenon DEF Record
<1>4. \/ /\ request[w].disableWAL
         /\ UNCHANGED <<log, result, failed>>
      \/ /\ log' = Append(log, record)
         /\ UNCHANGED <<result, failed>>
      \/ /\ log' \in {log, Append(log, lost)}
         /\ result' = [result EXCEPT ![w] = "fail"]
         /\ failed' = failed \cup {"log"}
  BY Zenon DEF LogGroup
<1>5. /\ callbackFailed' = callbackFailed
           \cup {x \in Members(group[w]) : request[x].callback = "refuses"}
      /\ \/ result'[w] = "fail" /\ pc' = [pc EXCEPT ![w] = "report"]
         \/ result'[w] # "fail" /\ \E label \in {"launch", "apply"} : pc' = [pc EXCEPT ![w] = label]
      /\ UNCHANGED <<group, parallel_group, state, status, pgStatus, request>>
      /\ UNCHANGED <<memtable, bg_error>>
  <2>1. pc' = [pc EXCEPT ![w] = IF result'[w] = "fail" THEN "report"
             ELSE IF Parallel(w) THEN "launch" ELSE "apply"]
    BY Zenon DEF LogGroup, Goto
  <2>2. /\ callbackFailed' = callbackFailed
           \cup {x \in Members(group[w]) : request[x].callback = "refuses"}
        /\ UNCHANGED <<group, parallel_group, state, status, pgStatus, request>>
        /\ UNCHANGED <<memtable, bg_error>>
    BY Zenon DEF LogGroup
  <2>3. CASE result'[w] = "fail"
    BY <2>1, <2>2, <2>3, Zenon
  <2>4. CASE result'[w] # "fail" /\ Parallel(w)
    BY <2>1, <2>2, <2>4, Zenon
  <2>5. CASE result'[w] # "fail" /\ ~Parallel(w)
    BY <2>1, <2>2, <2>5, Zenon
  <2> QED BY <2>3, <2>4, <2>5, Zenon
<1> HIDE DEF record, lost
<1>6. Grows
  BY <1>3, <1>4, <1>5, Zenon DEF Grows
<1>7. DataTypes'
  <2>1. result' \in [Writer -> Status]
    BY <1>1, <1>4, Zenon DEF DataTypes, Status
  <2>2. log' \in Seq(Record)
    BY <1>1, <1>3, <1>4 DEF DataTypes
  <2>3. \A x \in Writer : x \in callbackFailed' => Refuses(x)'
    BY <1>1, <1>5, Zenon DEF DataTypes, Refuses
  <2> QED BY <2>1, <2>2, <2>3, Zenon DEF DataTypes
<1>8. /\ pc'[w] \in {"report", "launch", "apply"}
      /\ \A x \in Writer \ {w} : pc'[x] = pc[x]
  BY <1>1, <1>5, Zenon DEF Types
<1>9. \A x \in Writer \ {w} : pc'[x] = pc[x] /\ result'[x] = result[x]
  BY <1>1, <1>4, <1>5, Zenon DEF Types, DataTypes
<1>10. \A x \in Writer : x \in {w} \/ (SameThread(x) /\ SameGroup(x) /\ SameState(x))
  BY <1>5, <1>9, Zenon DEF SameThread, SameGroup, SameState
<1>11. result[w] = "ok"
  BY <1>1, <1>2, Zenon DEF DataAt, Leads
<1>12. pc'[w] \in {"launch", "apply"} => result'[w] # "fail"
  BY <1>1, <1>5, Zenon DEF Types
<1>13. pc'[w] = "report" => result'[w] = "fail"
  BY <1>1, <1>5, Zenon DEF Types
<1>14. DataAt(w)'
  <2>1. Leads(w)'
    BY <1>1, <1>2, <1>5, <1>8, Zenon DEF DataAt, Leads
  <2>2. Joined(w)'
    BY <1>1, <1>5, Zenon DEF DataAt, Joined
  <2>3. GroupLogged(w)'
    <3>1. SUFFICES ASSUME pc'[w] # "report", NEW x \in Members(group[w])
                   PROVE  Logged(x)' /\ Asked(x)'
      BY <1>5, Zenon DEF GroupLogged
    <3>2. Asked(x)'
      BY <1>5, <3>1, Zenon DEF Asked, Refuses
    <3>3. result'[w] # "fail"
      BY <1>8, <1>12, <3>1, Zenon
    <3>4. CASE request[w].disableWAL /\ UNCHANGED <<log, result, failed>>
      <4>1. request[x].disableWAL
        BY <1>1, <3>1, <3>4, Zenon DEF DataAt, Joined
      <4> QED BY <1>5, <3>2, <4>1, Zenon DEF Logged
    <3>5. CASE log' = Append(log, record)
      <4>1. record.batches = Allowed(group[w]) /\ record.synced = NeedLogSync(w)
        BY Zenon DEF record
      <4>2. Joined(w) /\ request' = request
        BY <1>1, <1>5, Zenon DEF DataAt
      <4> QED BY <1>1, <1>2, <1>3, <3>1, <3>2, <3>5, <4>1, <4>2, RecordLogs, Zenon
    <3>6. CASE result' = [result EXCEPT ![w] = "fail"]
      BY <1>1, <3>3, <3>6, Zenon DEF DataTypes
    <3> QED BY <1>4, <3>4, <3>5, <3>6, Zenon
  <2>4. LeaderWritten(w)'
    BY <1>8, <1>13, Zenon DEF LeaderWritten
  <2> QED BY <2>1, <2>2, <2>3, <2>4, Zenon DEF DataAt
<1>15. failed' = {} => failed = {} /\ result' = result
  BY <1>4, Zenon
<1>16. HealthyAt(w) /\ failed' = {} => HealthyAt(w)'
  <2>1. SUFFICES ASSUME HealthyAt(w), failed' = {} PROVE HealthyAt(w)'
    BY Zenon
  <2> QED
    BY <1>5, <1>8, <1>11, <1>13, <1>15, <2>1, Zenon
       DEF HealthyAt, Healthy, GroupWritten, Finishing, FollowerWritten
<1>17. Moves({w})
  BY <1>1, <1>5, <1>10, <1>14, <1>15, <1>16, Zenon DEF Moves
<1> QED BY <1>1, <1>6, <1>7, <1>17, DataMoves, Zenon

\* A step of a thread keeps what is written in its place.
LEMMA DataStep ==
  ASSUME AllowedIs, Places, DataInv, Numbers, NEW w \in Writer, Step(w)
  PROVE  DataInv'
<1>1. CASE JoinBatchGroup(w) \/ Unbatched(w) \/ Prepare(w) \/ EnterGroup(w)
  BY <1>1, JoinBatchGroupData, UnbatchedData, PrepareData, EnterGroupData, Zenon
<1>2. CASE LogGroup(w) \/ InsertGroup(w) \/ LaunchFollowers(w) \/ LaunchNext(w)
  BY <1>2, LogGroupData, InsertGroupData, LaunchFollowersData, LaunchNextData, Zenon
<1>3. CASE InsertBatch(w) \/ CountDown(w) \/ LastLeader(w) \/ LastFollowerExits(w)
  BY <1>3, InsertBatchData, CountDownData, LastLeaderData, LastFollowerExitsData, Zenon
<1>4. CASE LastFollowerWakes(w) \/ LeaderWakes(w) \/ Unlink(w) \/ CompleteNext(w)
  BY <1>4, LastFollowerWakesData, LeaderWakesData, UnlinkData, CompleteNextData, Zenon
<1>5. CASE ExitDone(w) \/ Report(w) \/ FollowerReturns(w)
  BY <1>5, LeaderExitData, FollowerExitData, ReportData, FollowerReturnsData, Zenon
<1> QED BY <1>1, <1>2, <1>3, <1>4, <1>5, Zenon DEF Step
=============================================================================
