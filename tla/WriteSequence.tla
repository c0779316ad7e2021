--------------------------- MODULE WriteSequence ---------------------------
(***************************************************************************)
(* The inductive invariant of WriteImpl on sequence numbers.  It is stated *)
(* over a quantity that no variable holds:                                 *)
(*   base   last_sequence when a leader logs its group.                    *)
(***************************************************************************)
EXTENDS WriteData

\* A writer of a parallel group that has yet to count down.
Busy(x) == Inserting(x) \/ pc[x] = "count"

\* A leader that has logged its group and has yet to publish its sequence.
Publishing(l) ==
  /\ group[l] # <<>>
  /\ \/ pc[l] \in {"apply", "launch", "insert", "count"}
     \/ /\ pc[l] = "wait"
        /\ \/ \E x \in Members(group[l]) : Busy(x)
           \/ state[l] = "COMPLETED" /\ NeedLogSync(l)

\* The writer has its sequence number.
Numbered(x) == x \in memtable \/ parallel_group[x] # Null
Entered(l) == \E x \in Members(group[l]) : x \in memtable
Upper(base, l) == base[l] + Keys(Allowed(group[l]))
\* Keys of the allowed writers before the k-th of a group.
Offset(g, k) == Keys(Allowed(SubSeq(g, 1, k - 1)))

\* Records and memtable agree on the numbers of a group.
Recorded(base) ==
  \A i \in DOMAIN log : \E l \in Writer :
    /\ group[l] # <<>> /\ pc[l] # "log"
    /\ log[i].batches = Allowed(group[l]) /\ log[i].seq = base[l] + 1
Allotted(base) ==
  \A l \in Writer : \A k \in 1..Len(group[l]) :
    Numbered(group[l][k]) =>
      /\ pc[l] # "log"
      /\ sequence[group[l][k]] = base[l] + 1 + Offset(group[l], k)
Grouping ==
  /\ memtable \subseteq Writer
  /\ \A x \in memtable : ~Refuses(x)
  /\ \A x \in Writer : Numbered(x) => \E l \in Writer : x \in Members(group[l])
Based(base) == \A l \in Writer : Publishing(l) => base[l] = lastSequence

\* Until an insert fails, what is published is in the memtable, and groups
\* have sequence numbers of their own.
Inserted == \A x \in Writer :
  parallel_group[x] # Null /\ pc[x] \in {"count", "wait"} => Applied(x)
Behind(base) == \A l \in Writer :
  Entered(l) => Publishing(l) \/ Upper(base, l) <= lastSequence
Apart(base) == \A l, k \in Writer :
  l # k /\ Entered(l) /\ Entered(k) => Upper(base, l) <= base[k] \/ Upper(base, k) <= base[l]
Holds(base, l, s) ==
  /\ group[l] # <<>> /\ pc[l] # "log"
  /\ base[l] < s /\ s <= Upper(base, l)
  /\ \A x \in Members(group[l]) : Applied(x)
Covered(base) == \A s \in 1..lastSequence : \E l \in Writer : Holds(base, l, s)
InOrder(base) == Inserted /\ Behind(base) /\ Apart(base) /\ Covered(base)

Sequenced(base) ==
  /\ Recorded(base) /\ Allotted(base) /\ Based(base)
  /\ "insert" \notin failed => InOrder(base)
SequenceInv ==
  Numbers /\ Grouping /\ \E base \in [Writer -> Nat] : Sequenced(base)

\* More of what the invariant of WriteGroups says of the variables alone.
DistinctPlaces ==
  \A l \in Writer : \A i, j \in 1..Len(group[l]) : group[l][i] = group[l][j] => i = j
PublishPlaces ==
  /\ \A l, k \in Writer : Publishing(l) /\ Publishing(k) => l = k
  /\ \A t \in Writer : pc[t] = "unlink" => \A l \in Writer : ~Publishing(l)
  /\ \A t \in Writer : pc[t] = "complete" => ~Publishing(Led(t))
  /\ \A t \in Writer : pc[t] = "complete" /\ t # Led(t) => ~NeedLogSync(Led(t))
CursorPlaces ==
  \A w \in Writer : pc[w] = "launch" /\ cursor[w] # Null =>
    \E c \in 1..(Len(group[w]) - 1) :
      /\ cursor[w] = group[w][c] /\ link_newer[cursor[w]] = group[w][c + 1]
      /\ parallel_group[cursor[w]] = w
StatusPlaces ==
  \A x \in Writer :
    /\ pc[x] = "apply" => status[x] = "ok"
    /\ pgStatus[x] = "fail" => "insert" \in failed
    /\ pc[x] = "wait" /\ parallel_group[x] = x /\ pgStatus[x] = "ok" => status[x] = "ok"
WakePlaces ==
  /\ \A x \in Writer : Busy(x) =>
       /\ state[parallel_group[x]] # "COMPLETED"
       /\ pc[parallel_group[x]] \in {"launch", "insert", "count", "wait"}
  /\ \A w \in Writer :
       pc[w] = "wait" /\ parallel_group[w] = w /\ state[w] = "COMPLETED" /\ NeedLogSync(w) =>
         \A y \in Members(group[w]) : parallel_group[y] = w /\ pc[y] = "wait"
CountPlaces ==
  \A w \in Writer : pc[w] = "count" /\ running[Leader(w)] > 1 =>
    \E y \in Members(group[Leader(w)]) \ {w} :
      Busy(y) \/ (y = Leader(w) /\ pc[y] = "launch")
MorePlaces ==
  /\ DistinctPlaces /\ PublishPlaces /\ CursorPlaces /\ StatusPlaces /\ WakePlaces
  /\ CountPlaces
=============================================================================
