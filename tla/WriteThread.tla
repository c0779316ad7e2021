---------------------------- MODULE WriteThread ----------------------------
(***************************************************************************)
(* The queue of writers of db/write_thread.cc: a list that threads push    *)
(* themselves on without a lock, and from which only the leader of the     *)
(* current batch group removes.  A Writer lives on the stack of the thread *)
(* that waits on it; writer and thread are identified here.                *)
(*                                                                         *)
(* The handshake inside AwaitState and SetState (spinning, then a mutex    *)
(* and condition variable made on demand) is module WriterState; here a    *)
(* state change is one step and a waiter sees it.                          *)
(***************************************************************************)
EXTENDS Naturals, Sequences, FiniteSets

CONSTANTS Writer,        \* the writers, each of one call of Write
          Null,          \* nullptr
          SmallBatch,    \* 128 << 10: a small leader limits its group's growth
          MaxGroup       \* 1 << 20: size limit of any other group

ASSUME WriterAssumption == Null \notin Writer

VARIABLES
  newest_writer,   \* the newest pending writer, or Null
  link_older,      \* towards the leader
  link_newer,      \* away from the leader, made lazily by the leader
  state,           \* state of each writer
  request          \* what each writer asks for; constant in a behaviour

queue == <<newest_writer, link_older, link_newer>>

\* A request is a record: batch (none: an unbatched writer that wants the queue
\* to itself), its size, count (of keys) and whether it has a merge, the options
\* sync and disableWAL, and a callback ("none", or whether it "allows" the
\* write or "refuses" it) with its answer to AllowWriteBatching.
WriterState == {"INIT", "GROUP_LEADER", "PARALLEL_FOLLOWER", "COMPLETED"}

InitQueue ==
  /\ newest_writer = Null
  /\ link_older = [w \in Writer |-> Null]
  /\ link_newer = [w \in Writer |-> Null]
  /\ state = [w \in Writer |-> "INIT"]

\* The compare-and-swap that succeeds: the loads and swaps that fail before it
\* change nothing another thread can see.
LinkOne(w) ==
  /\ link_older' = [link_older EXCEPT ![w] = newest_writer]
  /\ newest_writer' = w
  /\ state' = IF newest_writer = Null
              THEN [state EXCEPT ![w] = "GROUP_LEADER"] ELSE state
  /\ UNCHANGED link_newer

\* The writers met on the way from head, a step being given by next.
Reached(head, next) ==
  {w \in Writer : \A S \in SUBSET Writer :
     head \in S /\ (\A x \in S : next[x] \in S \cup {Null}) => w \in S}

\* The writers whose older neighbour CreateMissingNewerLinks looks at: it stops
\* at a link that is there.
Unlinked(head, newer) ==
  Reached(head, [x \in Writer |->
    IF link_older[x] # Null /\ newer[link_older[x]] = Null
    THEN link_older[x] ELSE Null])

\* (Faulty variant: every writer is linked to the newest one.)
LinksToNewest(head, newer) ==
  [w \in Writer |->
     IF newer[w] = Null /\ \E x \in Unlinked(head, newer) : link_older[x] = w
     THEN newest_writer ELSE newer[w]]

\* link_newer with the links completed that a walk from head finds missing.
CreateMissingNewerLinks(head, newer) ==
  [w \in Writer |->
     IF newer[w] = Null /\ \E x \in Unlinked(head, newer) : link_older[x] = w
     THEN CHOOSE x \in Unlinked(head, newer) : link_older[x] = w ELSE newer[w]]

-----------------------------------------------------------------------------
MaxSize(leader) ==
  IF request[leader].size <= SmallBatch
  THEN request[leader].size + SmallBatch ELSE MaxGroup

\* (Faulty variant: a synchronous write joins any group.)
MayJoinIgnoresSync(w, leader, size) ==
  /\ ~(~request[w].disableWAL /\ request[leader].disableWAL)
  /\ request[w].batch
  /\ ~(request[w].callback # "none" /\ ~request[w].batching)
  /\ size + request[w].size <= MaxSize(leader)

\* (Faulty variant: an unbatched writer is taken for a write.)
MayJoinUnbatched(w, leader, size) ==
  /\ ~(request[w].sync /\ ~request[leader].sync)
  /\ ~(~request[w].disableWAL /\ request[leader].disableWAL)
  /\ ~(request[w].callback # "none" /\ ~request[w].batching)
  /\ size + request[w].size <= MaxSize(leader)

\* Conditions on a writer to be taken into a group of the given size so far.
MayJoin(w, leader, size) ==
  /\ ~(request[w].sync /\ ~request[leader].sync)
  /\ ~(~request[w].disableWAL /\ request[leader].disableWAL)
  /\ request[w].batch
  /\ ~(request[w].callback # "none" /\ ~request[w].batching)
  /\ size + request[w].size <= MaxSize(leader)

\* The writers of a group.
Members(writers) == {writers[i] : i \in 1..Len(writers)}

\* Size of the batches of a sequence of writers.
ByteSize(writers) ==
  LET sum[i \in 0..Len(writers)] ==
        IF i = 0 THEN 0 ELSE sum[i - 1] + request[writers[i]].size
  IN  sum[Len(writers)]

\* The group is the leader and the writers after it, up to the newest writer or
\* to the first that may not join.
EnterAsBatchGroupLeader(leader, newer, group) ==
  /\ group # <<>> /\ group[1] = leader
  /\ \A i \in 1..(Len(group) - 1) :
       /\ group[i] # newest_writer
       /\ group[i + 1] = newer[group[i]]
       /\ MayJoin(group[i + 1], leader, ByteSize(SubSeq(group, 1, i)))
  /\ LET last_writer == group[Len(group)] IN
     last_writer # newest_writer =>
       ~MayJoin(newer[last_writer], leader, ByteSize(group))

-----------------------------------------------------------------------------
\* (Faulty variant: the departing leader empties the list whoever is on it.)
UnlinkGroupAlways(last_writer) ==
  /\ newest_writer' = Null
  /\ UNCHANGED <<link_older, link_newer, state>>

\* First part of ExitAsBatchGroupLeader: the list is emptied, or the writer
\* behind the group becomes leader.
UnlinkGroup(last_writer) ==
  \/ /\ newest_writer = last_writer
     /\ newest_writer' = Null
     /\ UNCHANGED <<link_older, link_newer, state>>
  \/ /\ newest_writer # last_writer
     /\ LET newer == CreateMissingNewerLinks(newest_writer, link_newer)
            next  == newer[last_writer]
        IN  /\ link_newer' = newer
            /\ link_older' = [link_older EXCEPT ![next] = Null]
            /\ state' = [state EXCEPT ![next] = "GROUP_LEADER"]
     /\ UNCHANGED newest_writer

\* Writers on the list.
Queued ==
  IF newest_writer = Null THEN {} ELSE Reached(newest_writer, link_older)
=============================================================================
