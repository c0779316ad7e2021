--------------------------- MODULE WriteImplProofs ---------------------------
(***************************************************************************)
(* The list of pending writers, what CreateMissingNewerLinks and           *)
(* EnterAsBatchGroupLeader do to it, and what follows: steps of WriteImpl  *)
(* keep the invariant of module WriteGroups, which implies                 *)
(* ExclusiveWriters, LinksAgree and NoDanglingWriter.  The theorems are in *)
(* module WriteProofs.                                                     *)
(***************************************************************************)
EXTENDS WriteGroupProofs, WriteSequence

\* The writers that Queued finds are on the list.
LEMMA QueuedOnList ==
  ASSUME NEW s \in Seq(Writer), Shape(s)
  PROVE  \A x \in Queued : \E i \in 1..Len(s) : x = s[i]
<1>1. CASE s = <<>>
  BY <1>1, Zenon DEF Shape, Queued
<1>2. CASE s # <<>>
  <2> DEFINE S == {s[i] : i \in 1..Len(s)}
  <2>1. Len(s) \in Nat \ {0} /\ S \in SUBSET Writer /\ newest_writer \in S
    BY <1>2 DEF Shape
  <2>2. ASSUME NEW x \in S PROVE link_older[x] \in S \cup {Null}
    <3>1. PICK i \in 1..Len(s) : x = s[i]
      BY Zenon
    <3>2. i # 1 => i - 1 \in 1..Len(s)
      BY <2>1
    <3> QED BY <3>1, <3>2 DEF Shape
  <2> HIDE DEF S
  <2>3. Queued \subseteq S
    BY <2>1, <2>2, Zenon DEF Queued, Reached
  <2> QED BY <2>3, Zenon DEF S
<1> QED BY <1>1, <1>2, Zenon

\* Where CreateMissingNewerLinks looks: at the writers of the list after the
\* last one with a link, and at all of them.
LEMMA UnlinkedOnList ==
  ASSUME Induction, NEW s \in Seq(Writer), s # <<>>, Shape(s)
  PROVE  /\ \A x \in Unlinked(newest_writer, link_newer) :
              \E i \in 1..Len(s) : x = s[i]
         /\ \A i \in 1..(Len(s) - 1) :
              link_newer[s[i]] = Null => s[i + 1] \in Unlinked(newest_writer, link_newer)
<1> DEFINE next == [x \in Writer |->
              IF link_older[x] # Null /\ link_newer[link_older[x]] = Null
              THEN link_older[x] ELSE Null]
<1>1. /\ Len(s) \in Nat \ {0} /\ newest_writer = s[Len(s)]
      /\ \A i \in 1..Len(s) : s[i] \in Writer
  BY DEF Shape
<1>2. Unlinked(newest_writer, link_newer) = Reached(newest_writer, next)
  BY Zenon DEF Unlinked
<1>3. \A i \in 1..Len(s) : next[s[i]] = Null \/ (i # 1 /\ next[s[i]] = s[i - 1])
  BY <1>1, Zenon DEF Shape
<1>4. ASSUME NEW i \in 1..(Len(s) - 1), link_newer[s[i]] = Null
      PROVE  next[s[i + 1]] = s[i]
  <2>1. i + 1 \in 1..Len(s) /\ i \in 1..Len(s) /\ i + 1 # 1 /\ (i + 1) - 1 = i
    BY <1>1
  <2>2. link_older[s[i + 1]] = s[i] /\ s[i] # Null
    BY <1>1, <2>1, WriterAssumption, Zenon DEF Shape
  <2> QED BY <1>1, <1>4, <2>1, <2>2, Zenon
<1> HIDE DEF next
<1>5. \A x \in Reached(newest_writer, next) : \E i \in 1..Len(s) : x = s[i]
  <2> DEFINE S == {s[i] : i \in 1..Len(s)}
  <2>1. S \in SUBSET Writer /\ newest_writer \in S
    BY <1>1
  <2>2. ASSUME NEW x \in S PROVE next[x] \in S \cup {Null}
    <3>1. PICK i \in 1..Len(s) : x = s[i]
      BY Zenon
    <3>2. i # 1 => i - 1 \in 1..Len(s)
      BY <1>1
    <3> QED BY <1>3, <3>1, <3>2, Zenon
  <2> HIDE DEF S
  <2>3. Reached(newest_writer, next) \subseteq S
    BY <2>1, <2>2, Zenon DEF Reached
  <2> QED BY <2>3, Zenon DEF S
<1>6. ASSUME NEW i \in 1..(Len(s) - 1), link_newer[s[i]] = Null,
             NEW S \in SUBSET Writer, newest_writer \in S,
             \A x \in S : next[x] \in S \cup {Null}
      PROVE  s[i + 1] \in S
  <2> DEFINE T == {n \in Nat : n < Len(s) - i => s[Len(s) - n] \in S}
  <2>1. 0 \in T
    BY <1>1, <1>6
  <2>2. ASSUME NEW n \in Nat, n \in T, n + 1 < Len(s) - i
        PROVE  s[Len(s) - (n + 1)] \in S
    <3> DEFINE j == Len(s) - (n + 1)
    <3>1. j \in 1..(Len(s) - 1) /\ j + 1 = Len(s) - n /\ i < j
      BY <1>1, <2>2
    <3>2. s[j + 1] \in S
      BY <1>1, <2>2, <3>1
    <3>3. link_newer[s[j]] = Null
      <4>1. i \in 1..Len(s) /\ j \in 1..Len(s)
        BY <1>1, <3>1
      <4> QED BY <1>6, <3>1, <4>1, Zenon DEF Shape
    <3>4. next[s[j + 1]] = s[j] /\ s[j] \in Writer
      BY <1>1, <1>4, <3>1, <3>3, SMTT(30)
    <3> QED BY <1>6, <3>1, <3>2, <3>4, WriterAssumption, Zenon
  <2>3. \A n \in Nat : n \in T => n + 1 \in T
    BY <1>1, <2>2, SMTT(30)
  <2> HIDE DEF T
  <2>4. Nat \subseteq T
    BY <2>1, <2>3, Zenon DEF Induction
  <2>5. /\ Len(s) - i - 1 \in Nat /\ Len(s) - i - 1 < Len(s) - i
        /\ Len(s) - (Len(s) - i - 1) = i + 1
    BY <1>1
  <2>6. Len(s) - i - 1 \in T
    BY <2>4, <2>5, Zenon
  <2> QED BY <2>5, <2>6, Zenon DEF T
<1>7. ASSUME NEW i \in 1..(Len(s) - 1), link_newer[s[i]] = Null
      PROVE  s[i + 1] \in Reached(newest_writer, next)
  <2>1. s[i + 1] \in Writer
    BY <1>1
  <2> QED BY <1>6, <1>7, <2>1, Zenon DEF Reached
<1> QED BY <1>2, <1>5, <1>7, Zenon

\* What CreateMissingNewerLinks does for the list: every writer on it but the
\* newest is linked to the next one, and nothing else changes.
LEMMA LinksCreated ==
  ASSUME Induction, NEW s \in Seq(Writer), s # <<>>, Shape(s),
         link_newer \in [Writer -> Writer \cup {Null}],
         NEW newer, newer = CreateMissingNewerLinks(newest_writer, link_newer)
  PROVE  /\ newer \in [Writer -> Writer \cup {Null}]
         /\ \A i \in 1..(Len(s) - 1) : newer[s[i]] = s[i + 1]
         /\ \A x \in Writer : (\A i \in 1..(Len(s) - 1) : x # s[i])
                                 => newer[x] = link_newer[x]
<1> DEFINE Heads == Unlinked(newest_writer, link_newer)
           Missing(w) == link_newer[w] = Null /\ \E x \in Heads : link_older[x] = w
<1>1. /\ Len(s) \in Nat \ {0}
      /\ \A i \in 1..Len(s) : s[i] \in Writer
  OBVIOUS
<1>2. \A w \in Writer : newer[w] = IF Missing(w) THEN CHOOSE x \in Heads : link_older[x] = w
                                   ELSE link_newer[w]
  BY Zenon DEF CreateMissingNewerLinks
<1>3. ASSUME NEW w \in Writer, NEW x \in Heads, link_older[x] = w
      PROVE  \E i \in 1..(Len(s) - 1) : w = s[i] /\ x = s[i + 1]
  <2>1. PICK j \in 1..Len(s) : x = s[j]
    BY UnlinkedOnList, Zenon
  <2>2. j # 1 /\ w = s[j - 1]
    BY <1>3, <2>1, WriterAssumption, Zenon DEF Shape
  <2>3. j - 1 \in 1..(Len(s) - 1) /\ (j - 1) + 1 = j
    BY <1>1, <2>2
  <2> QED BY <2>1, <2>2, <2>3, Zenon
<1>4. ASSUME NEW w \in Writer, Missing(w)
      PROVE  \E i \in 1..(Len(s) - 1) : w = s[i] /\ newer[w] = s[i + 1]
  <2>1. newer[w] \in Heads /\ link_older[newer[w]] = w
    BY <1>2, <1>4, Zenon
  <2> QED BY <1>3, <2>1, Zenon
<1>5. ASSUME NEW i \in 1..(Len(s) - 1) PROVE newer[s[i]] = s[i + 1]
  <2>1. /\ i \in 1..Len(s) /\ i + 1 \in 1..Len(s) /\ s[i] \in Writer
        /\ i + 1 # 1 /\ (i + 1) - 1 = i
    BY <1>1
  <2>2. CASE Missing(s[i])
    <3>1. PICK j \in 1..(Len(s) - 1) : s[i] = s[j] /\ newer[s[i]] = s[j + 1]
      BY <1>4, <2>1, <2>2, Zenon
    <3>2. i = j
      <4>1. j \in 1..Len(s)
        BY <1>1
      <4> QED BY <2>1, <3>1, <4>1, Zenon DEF Shape
    <3> QED BY <3>1, <3>2, Zenon
  <2>3. CASE ~Missing(s[i])
    <3>1. link_newer[s[i]] # Null
      <4>1. link_newer[s[i]] = Null => s[i + 1] \in Heads
        BY UnlinkedOnList, Zenon
      <4>2. link_older[s[i + 1]] = s[i]
        BY <2>1, Zenon DEF Shape
      <4> QED BY <2>3, <4>1, <4>2, Zenon
    <3>2. newer[s[i]] = link_newer[s[i]]
      BY <1>2, <2>1, <2>3, Zenon
    <3> QED BY <2>1, <3>1, <3>2, Zenon DEF Shape
  <2> QED BY <2>2, <2>3, Zenon
<1>6. ASSUME NEW x \in Writer, \A i \in 1..(Len(s) - 1) : x # s[i]
      PROVE  newer[x] = link_newer[x]
  BY <1>2, <1>4, <1>6, Zenon
<1> HIDE DEF Heads, Missing
<1>7. newer \in [Writer -> Writer \cup {Null}]
  <2>1. newer = [x \in Writer |-> newer[x]]
    BY Zenon DEF CreateMissingNewerLinks
  <2>2. ASSUME NEW x \in Writer PROVE newer[x] \in Writer \cup {Null}
    <3>1. CASE Missing(x)
      <4>1. PICK i \in 1..(Len(s) - 1) : newer[x] = s[i + 1]
        BY <1>4, <3>1, Zenon
      <4>2. i + 1 \in 1..Len(s)
        BY <1>1
      <4> QED BY <1>1, <4>1, <4>2, Zenon
    <3>2. CASE ~Missing(x)
      BY <1>2, <3>2, Zenon
    <3> QED BY <3>1, <3>2, Zenon
  <2> QED BY <2>1, <2>2, Zenon
<1> QED BY <1>5, <1>6, <1>7, Zenon

\* g: the first writers of the list s, of which the ones after the leader have a batch.
FrontOf(g, s) ==
  /\ g \in Seq(Writer) /\ Len(g) \in 1..Len(s)
  /\ \A i \in 1..Len(g) : g[i] = s[i]
  /\ \A i \in 2..Len(g) : request[g[i]].batch

\* The group that EnterAsBatchGroupLeader collects is the front of the list,
\* and all but the leader may join it.
LEMMA GroupIsFront ==
  ASSUME Induction, NEW s \in Seq(Writer), s # <<>>, Shape(s),
         NEW newer, \A i \in 1..(Len(s) - 1) : newer[s[i]] = s[i + 1],
         NEW g \in Seq(Writer), EnterAsBatchGroupLeader(s[1], newer, g)
  PROVE  FrontOf(g, s)
<1>1. /\ Len(s) \in Nat \ {0} /\ Len(g) \in Nat \ {0} /\ g[1] = s[1]
      /\ newest_writer = s[Len(s)]
      /\ \A i \in 1..(Len(g) - 1) : /\ g[i] # newest_writer
                                    /\ g[i + 1] = newer[g[i]]
                                    /\ request[g[i + 1]].batch
  BY SMTT(30) DEF EnterAsBatchGroupLeader, MayJoin, Shape
<1> DEFINE S == {n \in Nat : n < Len(g) => n < Len(s) /\ g[n + 1] = s[n + 1]}
<1>2. 0 \in S
  BY <1>1
<1>3. ASSUME NEW n \in Nat, n \in S, n + 1 < Len(g)
      PROVE  n + 1 < Len(s) /\ g[(n + 1) + 1] = s[(n + 1) + 1]
  <2>1. n + 1 \in 1..(Len(g) - 1) /\ n < Len(s) /\ g[n + 1] = s[n + 1]
    BY <1>1, <1>3
  <2>2. n + 1 # Len(s)
    BY <1>1, <2>1, Zenon
  <2>3. n + 1 \in 1..(Len(s) - 1)
    BY <1>1, <2>1, <2>2
  <2>4. g[(n + 1) + 1] = newer[g[n + 1]]
    BY <1>1, <2>1, Zenon
  <2>5. newer[s[n + 1]] = s[(n + 1) + 1]
    BY <2>3, Zenon
  <2>6. n + 1 < Len(s)
    BY <1>1, <2>3
  <2> QED BY <2>1, <2>4, <2>5, <2>6, Zenon
<1>4. \A n \in Nat : n \in S => n + 1 \in S
  BY <1>3
<1> HIDE DEF S
<1>5. Nat \subseteq S
  BY <1>2, <1>4, Zenon DEF Induction
<1>6. ASSUME NEW i \in 1..Len(g)
      PROVE  i - 1 < Len(s) /\ g[i] = s[i]
  <2>1. i - 1 \in Nat /\ i - 1 < Len(g) /\ (i - 1) + 1 = i
    BY <1>1, SMTT(30)
  <2> QED BY <1>5, <2>1, Zenon DEF S
<1>7. Len(g) \in 1..Len(s)
  BY <1>1, <1>6
<1>8. ASSUME NEW i \in 2..Len(g) PROVE request[g[i]].batch
  <2>1. i - 1 \in 1..(Len(g) - 1) /\ (i - 1) + 1 = i
    BY <1>1
  <2> QED BY <1>1, <2>1, Zenon
<1> QED BY <1>6, <1>7, <1>8, Zenon DEF FrontOf

\* The first writer of a list is on it.
LEMMA ListEnds ==
  ASSUME NEW s \in Seq(Writer)
  PROVE  /\ Ends(OnList(s), Lead(s))
         /\ s # <<>> => Lead(s) = s[1] /\ Lead(s) \in OnList(s) /\ Lead(s) \in Writer
<1>1. OnList(s) \subseteq Writer
  BY DEF OnList
<1>2. CASE s = <<>>
  <2>1. OnList(s) = {}
    BY <1>2 DEF OnList
  <2> QED BY <1>2, <2>1, Zenon DEF Ends, Lead
<1>3. CASE s # <<>>
  <2>1. 1 \in 1..Len(s) /\ s[1] \in Writer
    BY <1>3
  <2> QED BY <1>1, <1>3, <2>1, Zenon DEF Ends, Lead, OnList
<1> QED BY <1>2, <1>3, Zenon

\* JoinBatchGroup appends to the list.
LEMMA JoinBatchGroupListed ==
  ASSUME Types, NEW s \in Seq(Writer), NEW M, Listed(s, M),
         NEW w \in Writer, JoinBatchGroup(w)
  PROVE  Listed(Append(s, w), M)'
<1> DEFINE r == Append(s, w)
           Q == OnList(s)
           h == Lead(s)
<1>1. /\ r \in Seq(Writer) /\ Len(s) \in Nat /\ Len(r) = Len(s) + 1 /\ r # <<>>
      /\ \A i \in 1..Len(s) : r[i] = s[i] /\ s[i] \in Writer
      /\ r[Len(s) + 1] = w
  OBVIOUS
<1>2. /\ OnList(r) = Q \cup {w}
      /\ Q = {} <=> s = <<>>
      /\ Lead(r) = IF Q = {} THEN w ELSE h
  <2>1. OnList(r) = Q \cup {w}
    <3>1. OnList(r) \subseteq Q \cup {w}
      BY <1>1 DEF OnList
    <3>2. Q \subseteq OnList(r)
      BY <1>1 DEF OnList
    <3>3. w \in OnList(r)
      BY <1>1 DEF OnList
    <3> QED BY <3>1, <3>2, <3>3, Zenon
  <2>2. Q = {} <=> s = <<>>
    BY <1>1 DEF OnList
  <2>3. s = <<>> => r[1] = w
    BY <1>1
  <2>4. s # <<>> => r[1] = s[1]
    BY <1>1
  <2> QED BY <1>1, <2>1, <2>2, <2>3, <2>4, Zenon DEF Lead
<1>3. Ends(Q, h)
  BY ListEnds, Zenon
<1>4. /\ Shape(s) /\ Fronts(s) /\ Core(Q, h, M) /\ Batched(h, M)
  BY Zenon DEF Listed
<1> HIDE DEF r, Q, h
<1>5. newest_writer = Null <=> Q = {}
  BY <1>1, <1>2, <1>4, WriterAssumption, SMTT(30) DEF Shape
<1>6. Core(OnList(r), Lead(r), M)'
  BY <1>2, <1>3, <1>4, <1>5, JoinBatchGroupCore, SMTT(30)
<1>7. /\ w \notin Q /\ Fresh(w) /\ link_newer[w] = Null
      /\ \A l \in Writer : <<w, l>> \notin M
  BY <1>4, Zenon DEF JoinBatchGroup, Core, Role, Starting
<1>8. \A i \in 1..Len(s) : s[i] # w
  BY <1>7, Zenon DEF OnList, Q
<1>9. /\ newest_writer' = w /\ link_newer' = link_newer /\ group' = group
      /\ link_older'[w] = newest_writer
      /\ \A x \in Writer : x # w => link_older'[x] = link_older[x]
      /\ request' = request /\ parallel_group' = parallel_group
      /\ callbackFailed' = callbackFailed
      /\ pc'[w] = "joined" /\ \A x \in Writer : x # w => pc'[x] = pc[x]
  BY Zenon DEF JoinBatchGroup, LinkOne, Types, Goto, shared
<1>10. Shape(r)'
  <2>1. \A i, j \in 1..Len(r) : r[i] = r[j] => i = j
    <3>1. \A i, j \in 1..Len(s) : s[i] = s[j] => i = j
      BY <1>4, Zenon DEF Shape
    <3>2. \A i \in 1..Len(r) : i \in 1..Len(s) \/ (i = Len(s) + 1 /\ r[i] = w)
      BY <1>1
    <3> QED BY <1>1, <1>8, <3>1, <3>2, Zenon
  <2>2. newest_writer' = r[Len(r)]
    BY <1>1, <1>9, Zenon
  <2>3. ASSUME NEW i \in 1..Len(r)
        PROVE  link_older'[r[i]] = IF i = 1 THEN Null ELSE r[i - 1]
    <3>1. CASE i = Len(s) + 1
      <4>1. link_older'[r[i]] = newest_writer
        BY <1>1, <1>9, <3>1, Zenon
      <4>2. CASE s = <<>>
        BY <1>4, <3>1, <4>1, <4>2, SMTT(30) DEF Shape
      <4>3. CASE s # <<>>
        <5>1. i # 1 /\ i - 1 = Len(s) /\ i - 1 \in 1..Len(s)
          BY <1>1, <3>1, <4>3, SMTT(30)
        <5> QED BY <1>1, <1>4, <4>1, <4>3, <5>1, Zenon DEF Shape
      <4> QED BY <4>2, <4>3, Zenon
    <3>2. CASE i # Len(s) + 1
      <4>1. i \in 1..Len(s) /\ (i # 1 => i - 1 \in 1..Len(s))
        BY <1>1, <3>2
      <4> QED BY <1>1, <1>4, <1>8, <1>9, <4>1, SMTT(30) DEF Shape
    <3> QED BY <3>1, <3>2, Zenon
  <2>4. ASSUME NEW i \in 1..Len(r)
        PROVE  link_newer'[r[i]] = Null \/ (i < Len(r) /\ link_newer'[r[i]] = r[i + 1])
    <3>1. CASE i = Len(s) + 1
      BY <1>1, <1>7, <1>9, <3>1, Zenon
    <3>2. CASE i # Len(s) + 1
      <4>1. i \in 1..Len(s) /\ i < Len(r) /\ (i < Len(s) => i + 1 \in 1..Len(s))
        BY <1>1, <3>2
      <4> QED BY <1>1, <1>4, <1>9, <4>1, SMTT(30) DEF Shape
    <3> QED BY <3>1, <3>2, Zenon
  <2>5. ASSUME NEW i \in 1..Len(r), NEW j \in 1..Len(r), i < j, link_newer'[r[j]] # Null
        PROVE  link_newer'[r[i]] # Null
    <3>1. j # Len(s) + 1
      BY <1>1, <1>7, <1>9, <2>5, Zenon
    <3>2. i \in 1..Len(s) /\ j \in 1..Len(s)
      BY <1>1, <2>5, <3>1, SMTT(30)
    <3> QED BY <1>1, <1>4, <1>9, <2>5, <3>2, Zenon DEF Shape
  <2> QED BY <1>1, <2>1, <2>2, <2>3, <2>4, <2>5, Zenon DEF Shape
<1>11. Fronts(r)'
  <2>1. CASE s = <<>>
    <3>1. r[1] = w
      BY <1>1, <2>1, SMTT(30)
    <3> QED BY <1>1, <1>7, <1>9, <3>1, SMTT(30) DEF Fronts, Fresh
  <2>2. CASE s # <<>>
    <3>1. r[1] = s[1] /\ s[1] \in Writer /\ group[s[1]] \in Seq(Writer)
      BY <1>1, <2>2, SMTT(30) DEF Types
    <3> QED BY <1>1, <1>4, <1>9, <2>2, <3>1, SMTT(30) DEF Fronts
  <2> QED BY <2>1, <2>2, Zenon
<1>12. Batched(Lead(r), M)'
  <2>1. CASE Q = {}
    <3>1. \A x \in Writer : <<x, w>> \notin M
      BY <1>4, <1>7, SMTT(30) DEF Core, Grouped, Fresh
    <3> QED BY <1>2, <1>9, <2>1, <3>1, Zenon DEF Batched, Batching
  <2>2. CASE Q # {}
    <3>1. h \in Writer /\ h # w
      BY <1>3, <1>7, <2>2, Zenon DEF Ends
    <3> QED BY <1>2, <1>4, <1>9, <2>2, <3>1, Zenon DEF Batched
  <2> QED BY <2>1, <2>2, Zenon
<1> QED BY <1>6, <1>10, <1>11, <1>12, Zenon DEF Listed, r

\* What is known of the thread that leads without a group yet.
LEMMA LeadsAlone ==
  ASSUME Types, NEW Q, NEW h, NEW M, Ends(Q, h), Core(Q, h, M), NEW w \in Writer,
         pc[w] = "enter" \/ (pc[w] = "joined" /\ state[w] = "GROUP_LEADER")
  PROVE  /\ w = h /\ h \in Q /\ group[h] = <<>> /\ parallel_group[h] = Null
         /\ Leading(h) /\ cursor[h] = Null
<1>1. w \in Q
  BY Zenon DEF Core, Role, Gone
<1>2. w = h
  BY <1>1, Zenon DEF Core, Role, Waiting, Following, Fresh
<1>3. Leading(w)
  BY <1>2, Zenon DEF Core, Role
<1>4. group[w] = <<>> /\ parallel_group[w] = Null
  BY <1>3, Zenon DEF Leading
<1>5. cursor[w] = Null
  BY <1>3, Zenon DEF Leading
<1> QED BY <1>1, <1>2, <1>3, <1>4, <1>5, Zenon

\* The step creates the missing links of the list s.
LinkedList(s) ==
  /\ \A i \in 1..(Len(s) - 1) : link_newer'[s[i]] = s[i + 1]
  /\ \A x \in Writer : (\A i \in 1..(Len(s) - 1) : x # s[i])
                          => link_newer'[x] = link_newer[x]

\* The list after the links of its writers are created.
LEMMA LinkedShape ==
  ASSUME NEW s \in Seq(Writer), s # <<>>, Shape(s), LinkedList(s),
         UNCHANGED <<newest_writer, link_older>>
  PROVE  Shape(s)'
<1>1. /\ \A i \in 1..Len(s) :
           link_newer[s[i]] = Null \/ (i < Len(s) /\ link_newer[s[i]] = s[i + 1])
      /\ \A i, j \in 1..Len(s) : s[i] = s[j] => i = j
      /\ newest_writer = IF s = <<>> THEN Null ELSE s[Len(s)]
      /\ \A i \in 1..Len(s) : link_older[s[i]] = IF i = 1 THEN Null ELSE s[i - 1]
  BY Zenon DEF Shape
<1>2. Len(s) \in Nat \ {0} /\ \A i \in 1..Len(s) : s[i] \in Writer
  OBVIOUS
<1>3. \A i \in 1..Len(s) : i \in 1..(Len(s) - 1) \/ i = Len(s)
  BY <1>2
<1>4. /\ Len(s) \in 1..Len(s)
      /\ \A i \in 1..(Len(s) - 1) : i \in 1..Len(s) /\ i # Len(s) /\ i < Len(s)
  BY <1>2
<1>5. link_newer'[s[Len(s)]] = Null
  <2>1. \A i \in 1..(Len(s) - 1) : s[Len(s)] # s[i]
    BY <1>1, <1>4, Zenon
  <2>2. link_newer[s[Len(s)]] = Null
    BY <1>1, <1>4, SMTT(30)
  <2> QED BY <1>2, <1>4, <2>1, <2>2, Zenon DEF LinkedList
<1>6. \A i \in 1..(Len(s) - 1) : link_newer'[s[i]] # Null
  BY <1>2, WriterAssumption DEF LinkedList
<1>7. \A i \in 1..Len(s) :
         link_newer'[s[i]] = Null \/ (i < Len(s) /\ link_newer'[s[i]] = s[i + 1])
  BY <1>3, <1>4, <1>5, Zenon DEF LinkedList
<1>8. \A i, j \in 1..Len(s) :
         i < j /\ link_newer'[s[j]] # Null => link_newer'[s[i]] # Null
  BY <1>2, <1>3, <1>5, <1>6, SMTT(30)
<1> QED BY <1>1, <1>7, <1>8, Zenon DEF Shape

\* The first writers of the list are chosen, and linked.
LEMMA FrontChosen ==
  ASSUME Types, NEW s \in Seq(Writer), Shape(s), s # <<>>, NEW g, FrontOf(g, s),
         (link_newer' = link_newer /\ Len(g) = 1) \/ LinkedList(s)
  PROVE  Chosen(g, OnList(s), s[1]) /\ Linked(g, OnList(s))
<1>1. /\ Len(s) \in Nat \ {0} /\ Len(g) \in Nat \ {0} /\ Len(g) <= Len(s)
      /\ \A i \in 1..Len(s) : s[i] \in OnList(s) /\ s[i] \in Writer
      /\ g \in Seq(Writer) /\ g # <<>> /\ 1 \in 1..Len(g)
      /\ \A i \in 1..Len(g) : i \in 1..Len(s) /\ g[i] = s[i]
  BY DEF FrontOf, OnList
<1>2. \A i, j \in 1..Len(s) : s[i] = s[j] => i = j
  BY Zenon DEF Shape
<1>3. Chosen(g, OnList(s), s[1])
  BY <1>1, <1>2, Zenon DEF Chosen
<1>4. \A x \in Writer \ OnList(s) : link_newer'[x] = link_newer[x]
  <2>1. \A i \in 1..(Len(s) - 1) : i \in 1..Len(s)
    BY <1>1
  <2> QED BY <1>1, <2>1, Zenon DEF LinkedList
<1>5. ASSUME NEW i \in 1..(Len(g) - 1)
      PROVE  link_newer'[g[i]] = g[i + 1] /\ link_older[g[i + 1]] = g[i]
  <2>1. /\ i \in 1..Len(g) /\ i + 1 \in 1..Len(g) /\ i \in 1..(Len(s) - 1)
        /\ i + 1 \in 1..Len(s) /\ i + 1 # 1 /\ (i + 1) - 1 = i /\ Len(g) # 1
    BY <1>1
  <2>2. link_newer'[s[i]] = s[i + 1]
    BY <2>1, Zenon DEF LinkedList
  <2>3. link_older[s[i + 1]] = s[i]
    <3>1. link_older[s[i + 1]] = IF i + 1 = 1 THEN Null ELSE s[(i + 1) - 1]
      BY <2>1, Zenon DEF Shape
    <3> QED BY <2>1, <3>1, Zenon
  <2> QED BY <1>1, <2>1, <2>2, <2>3, Zenon
<1> QED BY <1>3, <1>4, <1>5, Zenon DEF Linked

\* The first writer of the list takes a group: the list and the invariant are kept.
LEMMA FormedListed ==
  ASSUME Types, NEW s \in Seq(Writer), NEW M, Listed(s, M), NEW w \in Writer,
         s # <<>>, w = s[1], group[w] = <<>>, parallel_group[w] = Null,
         Leading(w), cursor[w] = Null,
         NEW g, FrontOf(g, s),
         (link_newer' = link_newer /\ Len(g) = 1) \/ LinkedList(s),
         NEW label \in {"log", "report", "unlink"},
         label = "log" => request[w].batch,
         group' = [group EXCEPT ![w] = g], pc' = [pc EXCEPT ![w] = label],
         UNCHANGED <<newest_writer, link_older, state, request, exited, cursor, status,
                     parallel_group, pgStatus, running, failed, callbackFailed>>,
         NEW N, Formed(N, M, g, w)
  PROVE  Listed(s, N)'
<1>1. PICK Q, h : Q = OnList(s) /\ h = Lead(s)
  BY Zenon
<1>2. /\ Shape(s) /\ Core(Q, w, M) /\ Batched(w, M) /\ Ends(Q, w)
      /\ h = w /\ w \in Q
  BY <1>1, ListEnds, Zenon DEF Listed
<1>3. /\ Len(g) \in Nat \ {0} /\ Len(g) <= Len(s) /\ 1 \in 1..Len(g)
      /\ g \in Seq(Writer) /\ g # <<>> /\ g[1] = w
  BY DEF FrontOf
<1>4. Chosen(g, Q, w) /\ Linked(g, Q)
  BY <1>1, <1>2, FrontChosen, Zenon
<1>5. Core(Q, w, N)'
  <2>1. UNCHANGED <<link_older, state, request, exited, cursor, status,
                     parallel_group, pgStatus, running, failed>>
    BY Zenon
  <2> QED BY <1>2, <1>4, <2>1, GroupFormedCore, Zenon
<1>6. Shape(s)'
  <2>1. CASE link_newer' = link_newer
    BY <1>2, <2>1, Zenon DEF Shape
  <2>2. CASE LinkedList(s)
    BY <1>2, <2>2, LinkedShape, Zenon
  <2> QED BY <2>1, <2>2, Zenon
<1>7. group'[w] = g /\ pc'[w] = label
  BY Zenon DEF Types
<1>8. Fronts(s)'
  BY <1>3, <1>7 DEF Fronts, FrontOf
<1>9. Batched(w, N)'
  <2>1. \A x \in Writer : <<x, w>> \in N => \E i \in 1..Len(g) : g[i] = x
    <3>1. Grouped(Q, w, M)
      BY <1>2, Zenon DEF Core
    <3>2. NewPairs(Q, w, M, g, N)
      BY <1>2, <1>4, <3>1, FormedPairs, Zenon
    <3> QED BY <3>2, Zenon DEF NewPairs
  <2>2. \A i \in 1..Len(g) : i = 1 \/ i \in 2..Len(g)
    BY <1>3
  <2>3. \A x \in Writer : <<x, w>> \in N /\ x # w => request[x].batch
    BY <1>3, <2>1, <2>2, Zenon DEF FrontOf
  <2> QED BY <1>7, <2>3, WriterAssumption, Zenon DEF Batched, Batching
<1> QED BY <1>1, <1>2, <1>5, <1>6, <1>8, <1>9, Zenon DEF Listed

\* An unbatched writer that reaches the front is a group of its own.
LEMMA UnbatchedListed ==
  ASSUME Types, NEW s \in Seq(Writer), NEW M, Listed(s, M),
         NEW w \in Writer, Unbatched(w)
  PROVE  \E N : Listed(s, N)'
<1>1. /\ Core(OnList(s), Lead(s), M) /\ Ends(OnList(s), Lead(s))
      /\ s # <<>> => Lead(s) = s[1]
  BY ListEnds, Zenon DEF Listed
<1>2. /\ w = Lead(s) /\ group[w] = <<>> /\ parallel_group[w] = Null
      /\ Leading(w) /\ cursor[w] = Null
  BY <1>1, LeadsAlone, Zenon DEF Unbatched
<1>3. s # <<>> /\ w = s[1]
  BY <1>1, <1>2, WriterAssumption, Zenon DEF Lead
<1> DEFINE g == <<w>>
<1>4. /\ g \in Seq(Writer) /\ Len(g) = 1 /\ Len(g) \in 1..Len(s) /\ g[1] = w
      /\ \A i \in 1..Len(g) : g[i] = s[i]
      /\ \A i \in 2..Len(g) : request[g[i]].batch
  BY <1>3
<1>5. /\ group' = [group EXCEPT ![w] = g] /\ pc' = [pc EXCEPT ![w] = "unlink"]
      /\ link_newer' = link_newer
      /\ UNCHANGED <<newest_writer, link_older, state, request, exited, cursor, status,
                     parallel_group, pgStatus, running, failed, callbackFailed>>
  BY Zenon DEF Unbatched, Goto, queue, shared, db
<1> HIDE DEF g
<1>6. PICK N : Formed(N, M, g, w)
  BY Zenon DEF Formed
<1>7. Listed(s, N)'
  <2>1. FrontOf(g, s)
    BY <1>4, Zenon DEF FrontOf
  <2>2. "unlink" \in {"log", "report", "unlink"} /\ "unlink" # "log"
    BY Zenon
  <2> QED BY <1>2, <1>3, <1>4, <1>5, <1>6, <2>1, <2>2, FormedListed, Zenon
<1> QED BY <1>7, Zenon

\* EnterAsBatchGroupLeader's group is the front of the list.
LEMMA EnterGroupListed ==
  ASSUME Induction, Types, NEW s \in Seq(Writer), NEW M, Listed(s, M),
         NEW w \in Writer, EnterGroup(w)
  PROVE  \E N : Listed(s, N)'
<1>1. /\ Core(OnList(s), Lead(s), M) /\ Ends(OnList(s), Lead(s)) /\ Shape(s)
      /\ s # <<>> => Lead(s) = s[1]
      /\ Batched(Lead(s), M)
  BY ListEnds, Zenon DEF Listed
<1>2. /\ w = Lead(s) /\ group[w] = <<>> /\ parallel_group[w] = Null
      /\ Leading(w) /\ cursor[w] = Null
  BY <1>1, LeadsAlone DEF EnterGroup
<1>3. s # <<>> /\ w = s[1]
  BY <1>1, <1>2, WriterAssumption, Zenon DEF Lead
<1>4. /\ \A i \in 1..(Len(s) - 1) : link_newer'[s[i]] = s[i + 1]
      /\ \A x \in Writer : (\A i \in 1..(Len(s) - 1) : x # s[i])
                              => link_newer'[x] = link_newer[x]
  <2>1. link_newer' = CreateMissingNewerLinks(newest_writer, link_newer)
    BY Zenon DEF EnterGroup
  <2>2. link_newer \in [Writer -> Writer \cup {Null}]
    BY Zenon DEF Types
  <2> QED BY <1>1, <1>3, <2>1, <2>2, LinksCreated, SMTT(30)
<1>5. PICK g \in UNION {[1..n -> Writer] : n \in 1..Cardinality(Writer)} :
           EnterAsBatchGroupLeader(w, link_newer', g) /\ group' = [group EXCEPT ![w] = g]
  BY Zenon DEF EnterGroup
<1>6. g \in Seq(Writer)
  BY <1>5
<1>7. FrontOf(g, s)
  <2>1. EnterAsBatchGroupLeader(s[1], link_newer', g)
    BY <1>3, <1>5, Zenon
  <2> QED BY <1>1, <1>3, <1>4, <1>6, <2>1, GroupIsFront, Zenon
<1>8. PICK label \in {"log", "report"} : pc' = [pc EXCEPT ![w] = label]
  BY Zenon DEF EnterGroup, Goto
<1>9. request[w].batch
  BY <1>1, <1>2, Zenon DEF EnterGroup, Batched, Batching
<1>10. UNCHANGED <<newest_writer, link_older, state, request, exited, cursor, status,
                     parallel_group, pgStatus, running, failed, callbackFailed>>
  BY Zenon DEF EnterGroup, shared, db
<1>11. PICK N : Formed(N, M, g, w)
  BY Zenon DEF Formed
<1>12. Listed(s, N)'
  <2>1. LinkedList(s)
    BY <1>4, Zenon DEF LinkedList
  <2>2. label \in {"log", "report", "unlink"}
    BY Zenon
  <2> QED BY <1>2, <1>3, <1>5, <1>7, <1>8, <1>9, <1>10, <1>11, <2>1, <2>2, FormedListed, Zenon
<1> QED BY <1>12, Zenon

\* What is left of the list when its first m writers are taken off.
LEMMA ListRest ==
  ASSUME NEW s \in Seq(Writer), NEW m \in 1..Len(s)
  PROVE  /\ SubSeq(s, m + 1, Len(s)) \in Seq(Writer)
         /\ Len(SubSeq(s, m + 1, Len(s))) = Len(s) - m
         /\ \A i \in 1..(Len(s) - m) :
              SubSeq(s, m + 1, Len(s))[i] = s[m + i] /\ m + i \in 1..Len(s)
         /\ SubSeq(s, m + 1, Len(s)) = <<>> <=> m = Len(s)
         /\ m = Len(s) => SubSeq(s, m + 1, Len(s)) = <<>>
<1> DEFINE r == SubSeq(s, m + 1, Len(s))
<1>1. r \in Seq(Writer) /\ Len(r) = Len(s) - m
  OBVIOUS
<1>2. \A i \in 1..(Len(s) - m) : r[i] = s[m + i] /\ m + i \in 1..Len(s)
  OBVIOUS
<1>3. r = <<>> <=> Len(r) = 0
  BY <1>1, SMTT(30)
<1> QED BY <1>1, <1>2, <1>3, SMTT(30)

\* ExitAsBatchGroupLeader takes the front off the list.
LEMMA UnlinkListed ==
  ASSUME Induction, Types, NEW s \in Seq(Writer), NEW M, Listed(s, M),
         NEW t \in Writer, Unlink(t)
  PROVE  \E r \in Seq(Writer) : Listed(r, M)'
<1>1. PICK Q, h : Q = OnList(s) /\ h = Lead(s)
  BY Zenon
<1>2. /\ Shape(s) /\ Fronts(s) /\ Core(Q, h, M) /\ Batched(h, M) /\ Ends(Q, h)
      /\ s # <<>> => h = s[1]
  BY <1>1, ListEnds, Zenon DEF Listed
<1>3. /\ pc[t] = "unlink" /\ pc' = [pc EXCEPT ![t] = "complete"]
      /\ UNCHANGED <<request, group, exited, status, parallel_group, pgStatus,
                     running, failed, callbackFailed>>
  BY Zenon DEF Unlink, Goto, shared, db
<1>4. /\ h \in Q /\ h \in Writer /\ group[h] # <<>> /\ Led(t) = h
      /\ t \in Q /\ <<t, h>> \in M /\ <<h, h>> \in M
  BY <1>2, <1>3, Unlinks, SMTT(30)
<1>5. PICK m : m = Len(group[h])
  BY Zenon
<1>6. PICK r : r = SubSeq(s, m + 1, Len(s))
  BY Zenon
<1>7. /\ s # <<>> /\ h = s[1] /\ group[h] \in Seq(Writer)
      /\ Len(s) \in Nat \ {0} /\ m \in 1..Len(s)
      /\ \A i \in 1..m : group[h][i] = s[i]
      /\ \A i \in 1..Len(s) : s[i] \in Writer /\ s[i] \in Q
  <2>1. s # <<>>
    BY <1>1, <1>4, WriterAssumption, Zenon DEF Lead
  <2>2. h = s[1] /\ group[h] \in Seq(Writer)
    BY <1>2, <1>4, <2>1, Zenon DEF Types
  <2>3. m <= Len(s) /\ \A i \in 1..m : group[h][i] = s[i]
    BY <1>2, <1>5, <2>1, <2>2, Zenon DEF Fronts
  <2>4. m \in Nat \ {0} /\ Len(s) \in Nat \ {0}
    BY <1>5, <1>4, <2>1, <2>2, SMTT(30)
  <2>5. \A i \in 1..Len(s) : s[i] \in Writer /\ s[i] \in Q
    BY <1>1, SMTT(30) DEF OnList
  <2> QED BY <2>1, <2>2, <2>3, <2>4, <2>5, SMTT(30)
<1>8. LastWriter(h) = s[m] /\ group[h][Len(group[h])] = s[m] /\ m \in 1..m
  BY <1>7, <1>5, SMTT(30) DEF LastWriter
<1>9. /\ r \in Seq(Writer) /\ Len(r) = Len(s) - m
      /\ \A i \in 1..(Len(s) - m) : r[i] = s[m + i] /\ m + i \in 1..Len(s)
      /\ r = <<>> <=> m = Len(s)
  BY <1>7, <1>6, ListRest, SMTT(30)
<1>10. \A i, j \in 1..Len(s) : s[i] = s[j] => i = j
  BY <1>2, Zenon DEF Shape
<1>11. \A x \in Writer : <<x, h>> \in M <=> \E i \in 1..m : x = s[i]
  <2>1. h \in Writer
    BY <1>7
  <2>2. \A x \in Writer : <<x, h>> \in M <=> \E i \in 1..Len(group[h]) : group[h][i] = x
    <3>1. \A x, l \in Writer : <<x, l>> \in M <=> \E i \in 1..Len(group[l]) : group[l][i] = x
      BY <1>2, Zenon DEF Core, Grouped
    <3> QED BY <2>1, <3>1, Zenon
  <2> QED BY <1>7, <1>5, <2>2, SMTT(30)
<1>12. OnList(r) = {x \in Q : <<x, h>> \notin M}
  <2>1. ASSUME NEW x \in OnList(r) PROVE x \in Q /\ <<x, h>> \notin M
    <3>1. PICK i \in 1..(Len(s) - m) : x = s[m + i] /\ m + i \in 1..Len(s)
      BY <1>9, <2>1, Zenon DEF OnList
    <3>2. \A j \in 1..m : j \in 1..Len(s) /\ j # m + i
      BY <1>7
    <3> QED BY <1>7, <1>10, <1>11, <3>1, <3>2, SMTT(30)
  <2>2. ASSUME NEW x \in Q, <<x, h>> \notin M PROVE x \in OnList(r)
    <3>1. PICK j \in 1..Len(s) : x = s[j]
      BY <1>1, Zenon DEF OnList
    <3>2. j \notin 1..m
      BY <1>7, <1>11, <2>2, <3>1, Zenon
    <3>3. j - m \in 1..(Len(s) - m) /\ m + (j - m) = j
      BY <1>7, <3>2
    <3>4. x = r[j - m]
      BY <1>9, <3>1, <3>3, Zenon
    <3> QED BY <1>9, <3>3, <3>4, Zenon DEF OnList
  <2> QED BY <2>1, <2>2, Zenon
<1>13. PICK R, k : R = OnList(r) /\ k = Lead(r)
  BY Zenon
<1>14. /\ Ends(R, k) /\ R = {x \in Q : <<x, h>> \notin M} /\ Remain(R, Q, h, M)
       /\ r # <<>> => k = r[1] /\ k \in Writer /\ k \in R
  BY <1>9, <1>12, <1>13, ListEnds, Zenon DEF Remain
<1>15. /\ newest_writer' = IF r = <<>> THEN Null ELSE newest_writer
       /\ \A x \in Writer : x # k => link_older'[x] = link_older[x] /\ state'[x] = state[x]
       /\ k # Null => state'[k] = "GROUP_LEADER" /\ link_older'[k] = Null
       /\ r # <<>> => /\ \A i \in 1..(Len(s) - 1) : link_newer'[s[i]] = s[i + 1]
                      /\ \A x \in Writer : (\A i \in 1..(Len(s) - 1) : x # s[i])
                                              => link_newer'[x] = link_newer[x]
       /\ r = <<>> => link_newer' = link_newer /\ k = Null
  <2>1. newest_writer = s[Len(s)] /\ UnlinkGroup(s[m]) /\ Len(s) \in 1..Len(s)
    BY <1>2, <1>4, <1>7, <1>8, SMTT(30) DEF Unlink, Shape
  <2>2. CASE m = Len(s)
    BY <1>9, <1>13, <2>1, <2>2, Zenon DEF UnlinkGroup, Lead
  <2>3. CASE m # Len(s)
    <3>1. newest_writer # s[m]
      BY <1>7, <1>10, <2>1, <2>3, Zenon
    <3>2. PICK newer : newer = CreateMissingNewerLinks(newest_writer, link_newer)
      BY Zenon
    <3>3. /\ link_newer' = newer
          /\ link_older' = [link_older EXCEPT ![newer[s[m]]] = Null]
          /\ state' = [state EXCEPT ![newer[s[m]]] = "GROUP_LEADER"]
          /\ newest_writer' = newest_writer
      BY <2>1, <3>1, <3>2, Zenon DEF UnlinkGroup
    <3>4. /\ \A i \in 1..(Len(s) - 1) : newer[s[i]] = s[i + 1]
          /\ \A x \in Writer : (\A i \in 1..(Len(s) - 1) : x # s[i])
                                 => newer[x] = link_newer[x]
      <4>1. link_newer \in [Writer -> Writer \cup {Null}]
        BY Zenon DEF Types
      <4> QED BY <1>2, <1>7, <3>2, <4>1, LinksCreated, SMTT(30)
    <3>5. m \in 1..(Len(s) - 1) /\ 1 \in 1..(Len(s) - m)
      BY <1>7, <2>3, SMTT(30)
    <3>6. r # <<>> /\ k = s[m + 1] /\ newer[s[m]] = k /\ k \in Writer
      BY <1>9, <1>14, <2>3, <3>4, <3>5, Zenon
    <3>7. /\ link_older'[k] = Null /\ state'[k] = "GROUP_LEADER"
          /\ \A x \in Writer : x # k => link_older'[x] = link_older[x] /\ state'[x] = state[x]
      BY <3>3, <3>6, Zenon DEF Types
    <3> QED BY <3>3, <3>4, <3>6, <3>7, Zenon
  <2> QED BY <2>2, <2>3, Zenon
<1>16. \A x \in Writer \ Q : link_newer'[x] = link_newer[x]
  <2>1. \A i \in 1..(Len(s) - 1) : i \in 1..Len(s)
    BY <1>7, SMTT(30)
  <2> QED BY <1>7, <1>15, <2>1, Zenon
<1>17. ASSUME NEW i \in 1..(Len(group[h]) - 1)
       PROVE  link_newer'[group[h][i]] = link_newer[group[h][i]]
  <2>1. i \in 1..m /\ i + 1 \in 1..m /\ i \in 1..(Len(s) - 1) /\ Len(group[h]) = m
    BY <1>7, <1>5, SMTT(30)
  <2>2. Grouped(Q, h, M) /\ h \in Writer
    BY <1>2, <1>4, Zenon DEF Core
  <2>3. link_newer[group[h][i]] = group[h][i + 1]
    BY <2>2, ZenonT(40) DEF Grouped
  <2> QED BY <1>7, <1>15, <2>1, <2>3, SMTT(30)
<1>18. cursor' = [cursor EXCEPT ![t] = group[h][Len(group[h])]]
  BY <1>4, <1>8, Zenon DEF Unlink
<1>19. Core(R, k, M)'
  <2>1. UNCHANGED <<request, group, exited, status, parallel_group, pgStatus,
                     running, failed>>
    BY <1>3, Zenon
  <2>2. Relinked(Q, h, k)
    BY <1>15, <1>16, <1>17, Zenon DEF Relinked
  <2> QED BY <1>2, <1>3, <1>14, <1>18, <2>1, <2>2, UnlinkCore, Zenon
<1>20. r # <<>> => /\ k \in Q /\ k # h /\ <<k, h>> \notin M /\ k # t
                   /\ pc[k] = "joined" /\ group[k] = <<>> /\ parallel_group[k] = Null
                   /\ \A x \in Writer : <<x, k>> \notin M
  <2>1. r # <<>> => k \in Q /\ k # h /\ <<k, h>> \notin M /\ k # t /\ k \in Writer
    BY <1>4, <1>14, Zenon
  <2>2. r # <<>> => pc[k] = "joined" /\ Fresh(k)
    BY <1>2, <2>1, Zenon DEF Core, Role, Waiting
  <2>3. r # <<>> => group[k] = <<>> /\ parallel_group[k] = Null
    BY <2>2, Zenon DEF Fresh
  <2>4. r # <<>> => \A x \in Writer : <<x, k>> \notin M
    BY <1>2, <2>1, <2>3, SMTT(30) DEF Core, Grouped
  <2> QED BY <2>1, <2>2, <2>3, <2>4, Zenon
<1>21. Fronts(r)'
  BY <1>3, <1>14, <1>20, SMTT(30) DEF Fronts
<1>22. Batched(k, M)'
  <2>1. CASE r = <<>>
    <3>1. k = Null /\ k \notin Writer /\ M \subseteq Writer \X Writer
      BY <1>2, <1>15, <2>1, WriterAssumption, Zenon DEF Core, Grouped
    <3> QED BY <3>1, Zenon DEF Batched
  <2>2. CASE r # <<>>
    <3>1. pc'[k] = "joined"
      BY <1>3, <1>14, <1>20, <2>2, Zenon DEF Types
    <3> QED BY <1>3, <1>14, <1>20, <2>2, <3>1, Zenon DEF Batched, Batching
  <2> QED BY <2>1, <2>2, Zenon
<1>23. Shape(r)'
  <2>1. CASE r = <<>>
    BY <1>15, <2>1, SMTT(30) DEF Shape
  <2>2. CASE r # <<>>
    <3>1. /\ Len(r) \in Nat \ {0} /\ Len(r) = Len(s) - m /\ m + Len(r) = Len(s)
          /\ m \in Nat /\ r[Len(r)] = s[Len(s)]
          /\ \A i \in 1..Len(r) : r[i] = s[m + i] /\ m + i \in 1..Len(s) /\ r[i] \in Writer
          /\ k = r[1]
      <4>1. Len(r) \in Nat \ {0} /\ Len(r) = Len(s) - m /\ m + Len(r) = Len(s) /\ m \in Nat
        BY <1>7, <1>9, <2>2, SMTT(30)
      <4>2. Len(r) \in 1..(Len(s) - m)
        BY <4>1, SMTT(30)
      <4> QED BY <1>7, <1>9, <1>14, <2>2, <4>1, <4>2, Zenon
    <3>2. \A i, j \in 1..Len(r) : r[i] = r[j] => i = j
      BY <1>10, <3>1, SMTT(30)
    <3>3. newest_writer' = r[Len(r)]
      BY <1>2, <1>7, <1>15, <2>2, <3>1, Zenon DEF Shape
    <3>4. ASSUME NEW i \in 1..Len(r)
          PROVE  link_older'[r[i]] = IF i = 1 THEN Null ELSE r[i - 1]
      <4>1. CASE i = 1
        BY <1>14, <1>15, <2>2, <3>1, <4>1, WriterAssumption, Zenon
      <4>2. CASE i # 1
        <5>1. i - 1 \in 1..Len(r) /\ m + i # 1 /\ (m + i) - 1 = m + (i - 1) /\ 1 \in 1..Len(r)
          BY <3>1, <4>2
        <5>2. r[i] # k
          BY <3>1, <3>2, <4>2, <5>1, Zenon
        <5>3. link_older[s[m + i]] = s[m + (i - 1)]
          BY <1>2, <3>1, <5>1, SMTT(30) DEF Shape
        <5> QED BY <1>15, <3>1, <4>2, <5>1, <5>2, <5>3, Zenon
      <4> QED BY <4>1, <4>2, Zenon
    <3>5. ASSUME NEW i \in 1..Len(r), i # Len(r)
          PROVE  i < Len(r) /\ link_newer'[r[i]] = r[i + 1] /\ link_newer'[r[i]] # Null
      <4>1. i < Len(r) /\ m + i \in 1..(Len(s) - 1) /\ i + 1 \in 1..Len(r) /\ (m + i) + 1 = m + (i + 1)
        <5>1. Len(r) \in Nat /\ m \in Nat /\ m + Len(r) = Len(s) /\ Len(s) \in Nat
          BY <1>7, <3>1, Zenon
        <5> QED BY <3>5, <5>1, SMTT(30)
      <4>2. link_newer'[s[m + i]] = s[(m + i) + 1]
        BY <1>15, <2>2, <4>1, Zenon
      <4>3. r[i] = s[m + i] /\ r[i + 1] = s[(m + i) + 1] /\ r[i + 1] \in Writer
        BY <3>1, <4>1, SMTT(30)
      <4> QED BY <4>1, <4>2, <4>3, WriterAssumption, Zenon
    <3>6. link_newer'[r[Len(r)]] = Null
      <4>1. Len(s) \in 1..Len(s) /\ \A i \in 1..(Len(s) - 1) : i \in 1..Len(s) /\ i # Len(s)
        BY <1>7
      <4>2. \A i \in 1..(Len(s) - 1) : s[Len(s)] # s[i]
        BY <1>10, <4>1, Zenon
      <4>3. link_newer[s[Len(s)]] = Null
        BY <1>2, <1>7, <4>1, SMTT(30) DEF Shape
      <4> QED BY <1>7, <1>15, <2>2, <3>1, <4>1, <4>2, <4>3, Zenon
    <3>7. \A i \in 1..Len(r) :
            link_newer'[r[i]] = Null \/ (i < Len(r) /\ link_newer'[r[i]] = r[i + 1])
      BY <3>5, <3>6, Zenon
    <3>8. \A i, j \in 1..Len(r) :
            i < j /\ link_newer'[r[j]] # Null => link_newer'[r[i]] # Null
      <4>1. \A i, j \in 1..Len(r) : i < j => i # Len(r)
        BY <3>1
      <4> QED BY <3>5, <3>6, <4>1, Zenon
    <3> QED BY <2>2, <3>2, <3>3, <3>4, <3>7, <3>8, Zenon DEF Shape
  <2> QED BY <2>1, <2>2, Zenon
<1>24. Listed(r, M)'
  BY <1>13, <1>19, <1>21, <1>22, <1>23, Zenon DEF Listed
<1> QED BY <1>9, <1>24, Zenon

\* Types are kept by the steps of joining.
LEMMA JoinTypes ==
  ASSUME Types, NEW w \in Writer, JoinBatchGroup(w) \/ Unbatched(w) \/ Prepare(w)
  PROVE  Types'
<1>1. <<w>> \in Seq(Writer)
  OBVIOUS
<1>2. CASE JoinBatchGroup(w)
  BY <1>2, Zenon DEF JoinBatchGroup, LinkOne, Goto, shared, db, Types, Labels, WriterState
<1>3. CASE Unbatched(w)
  BY <1>1, <1>3, Zenon DEF Unbatched, Goto, queue, shared, db, Types, Labels
<1>4. CASE Prepare(w)
  BY <1>4, Zenon DEF Prepare, Goto, queue, shared, Types, Labels
<1> QED BY <1>2, <1>3, <1>4, Zenon

\* Types are kept by EnterAsBatchGroupLeader.
LEMMA EnterGroupTypes ==
  ASSUME Induction, Types, NEW s \in Seq(Writer), NEW M, Listed(s, M),
         NEW w \in Writer, EnterGroup(w)
  PROVE  Types'
<1>1. /\ Core(OnList(s), Lead(s), M) /\ Ends(OnList(s), Lead(s)) /\ Shape(s)
  BY ListEnds, Zenon DEF Listed
<1>2. s # <<>>
  BY <1>1, LeadsAlone, WriterAssumption DEF EnterGroup, Lead
<1>3. link_newer' \in [Writer -> Writer \cup {Null}]
  <2>1. link_newer' = CreateMissingNewerLinks(newest_writer, link_newer)
    BY Zenon DEF EnterGroup
  <2>2. link_newer \in [Writer -> Writer \cup {Null}]
    BY Zenon DEF Types
  <2> QED BY <1>1, <1>2, <2>1, <2>2, LinksCreated, Zenon
<1>4. group' \in [Writer -> Seq(Writer)]
  <2>1. PICK g \in UNION {[1..n -> Writer] : n \in 1..Cardinality(Writer)} : group' = [group EXCEPT ![w] = g]
    BY Zenon DEF EnterGroup
  <2>2. g \in Seq(Writer)
    BY SMTT(30)
  <2> QED BY <2>1, <2>2, Zenon DEF Types
<1> QED BY <1>3, <1>4, Zenon DEF EnterGroup, Goto, shared, db, Types, Labels

\* Types are kept by logging and inserting.
LEMMA ApplyTypes ==
  ASSUME Types, NEW w \in Writer, LogGroup(w) \/ InsertGroup(w) \/ InsertBatch(w)
  PROVE  Types'
<1>1. CASE LogGroup(w)
  <2>1. PICK label \in Labels : pc' = [pc EXCEPT ![w] = label]
    BY <1>1, Zenon DEF LogGroup, Goto, Labels
  <2> QED BY <1>1, <2>1, Zenon DEF LogGroup, queue, Types
<1>2. CASE InsertGroup(w)
  <2>1. PICK label \in Labels : pc' = [pc EXCEPT ![w] = label]
    BY <1>2, Zenon DEF InsertGroup, AfterApply, Goto, Labels
  <2>2. \E x : status' = status \/ status' = [status EXCEPT ![x] = "fail"]
    BY <1>2, Zenon DEF InsertGroup
  <2>3. status' \in [Writer -> Status]
    BY <2>2, Zenon DEF Types, Status
  <2> QED BY <1>2, <2>1, <2>3, Zenon DEF InsertGroup, queue, Types
<1>3. CASE InsertBatch(w)
  BY <1>3, Zenon DEF InsertBatch, Goto, queue, Types, Labels, Status
<1> QED BY <1>1, <1>2, <1>3, Zenon

\* Types are kept by LaunchParallelFollowers.
LEMMA LaunchTypes ==
  ASSUME Types, NEW w \in Writer, LaunchFollowers(w) \/ LaunchNext(w)
  PROVE  Types'
<1>1. CASE LaunchFollowers(w)
  <2>1. Len(group[w]) \in Nat
    BY DEF Types
  <2> QED BY <1>1, <2>1, Zenon DEF LaunchFollowers, queue, db, Types
<1>2. CASE LaunchNext(w)
  <2>1. /\ pc' = [pc EXCEPT ![w] = "insert"] \/ pc' = [pc EXCEPT ![w] = "launch"]
        /\ \E next \in Writer \cup {Null} :
             /\ parallel_group' = [parallel_group EXCEPT ![next] = w]
             /\ state' = [state EXCEPT ![next] = "PARALLEL_FOLLOWER"]
             /\ cursor' = [cursor EXCEPT ![w] = Null] \/ cursor' = [cursor EXCEPT ![w] = next]
    <3>1. link_newer[cursor[w]] \in Writer \cup {Null}
      BY <1>2, Zenon DEF LaunchNext, Types
    <3> QED BY <1>2, <3>1, Zenon DEF LaunchNext, Goto
  <2> QED BY <1>2, <2>1, Zenon DEF LaunchNext, queue, db, Types, Labels, WriterState
<1> QED BY <1>1, <1>2, Zenon

\* Types are kept by CompleteParallelWorker.
LEMMA CountTypes ==
  ASSUME Types, NEW w \in Writer,
         \/ CountDown(w) \/ LastLeader(w) \/ LastFollowerExits(w)
         \/ LastFollowerWakes(w) \/ LeaderWakes(w)
  PROVE  Types'
<1>1. CASE CountDown(w)
  <2>1. running' \in [Writer -> Nat]
    <3>1. CASE Leader(w) \in Writer
      BY <1>1, <3>1, SMTT(30) DEF CountDown, Types
    <3>2. CASE Leader(w) \notin Writer
      BY <1>1, <3>2, Zenon DEF CountDown, Types
    <3> QED BY <3>1, <3>2, Zenon
  <2> QED BY <1>1, <2>1, Zenon DEF CountDown, Goto, queue, db, Types, Labels
<1>2. CASE LastLeader(w)
  BY <1>2, Zenon DEF LastLeader, AfterApply, Goto, queue, Types, Labels
<1>3. CASE LastFollowerExits(w)
  BY <1>3, Zenon DEF LastFollowerExits, Goto, queue, shared, Types, Labels
<1>4. CASE LastFollowerWakes(w)
  BY <1>4, Zenon DEF LastFollowerWakes, Goto, queue, shared, db, Types, Labels, WriterState
<1>5. CASE LeaderWakes(w)
  BY <1>5, Zenon DEF LeaderWakes, AfterApply, Goto, queue, Types, Labels
<1> QED BY <1>1, <1>2, <1>3, <1>4, <1>5, Zenon

\* Types are kept by the steps after a group has left the list.
LEMMA ExitTypes ==
  ASSUME Types, NEW Q, NEW h, NEW M, Ends(Q, h), Core(Q, h, M),
         NEW t \in Writer,
         CompleteNext(t) \/ ExitDone(t) \/ Report(t) \/ FollowerReturns(t)
  PROVE  Types'
<1>1. CASE CompleteNext(t)
  <2>1. Exits(t, Q, M)
    BY <1>1, Zenon DEF CompleteNext, Core, Exiting
  <2>2. Led(t) \in Writer \ Q
    BY <2>1, Zenon DEF Exits
  <2>3. ExitStatus(t) \in Status
    BY <2>2, Zenon DEF ExitStatus, Types
  <2>4. cursor[t] \in Writer
    <3>1. \A i \in 1..Len(group[Led(t)]) : group[Led(t)][i] \in Writer
      BY <2>2, SMTT(30) DEF Types
    <3> QED BY <2>1, <3>1, Zenon DEF Exits
  <2> QED BY <1>1, <2>3, <2>4, Zenon DEF CompleteNext, queue, db, Types, WriterState
<1>2. CASE ExitDone(t)
  <2>1. PICK label \in Labels : pc' = [pc EXCEPT ![t] = label]
    BY <1>2, Zenon DEF ExitDone, Goto, Labels
  <2>2. state' = state \/ state' = [state EXCEPT ![Led(t)] = "COMPLETED"]
    BY <1>2, Zenon DEF ExitDone
  <2> QED BY <1>2, <2>1, <2>2, Zenon DEF ExitDone, queue, shared, Types, WriterState
<1>3. CASE Report(t)
  BY <1>3, Zenon DEF Report, Goto, queue, shared, Types, Labels
<1>4. CASE FollowerReturns(t)
  BY <1>4, Zenon DEF FollowerReturns, Goto, queue, shared, db, Types, Labels
<1> QED BY <1>1, <1>2, <1>3, <1>4, Zenon

\* Types are kept when a group leaves the list.
LEMMA UnlinkTypes ==
  ASSUME Induction, Types, NEW s \in Seq(Writer), NEW M, Listed(s, M),
         NEW t \in Writer, Unlink(t)
  PROVE  Types'
<1>1. /\ Core(OnList(s), Lead(s), M) /\ Ends(OnList(s), Lead(s)) /\ Shape(s)
  BY ListEnds, Zenon DEF Listed
<1>2. /\ Led(t) \in Writer /\ group[Led(t)] # <<>> /\ s # <<>>
  <2>1. Led(t) = Lead(s) /\ Lead(s) \in Writer /\ group[Lead(s)] # <<>>
    BY <1>1, Unlinks, Zenon DEF Unlink
  <2>2. s # <<>>
    BY <2>1, WriterAssumption, Zenon DEF Lead
  <2> QED BY <2>1, <2>2, Zenon
<1>3. LastWriter(Led(t)) \in Writer
  <2>1. group[Led(t)] \in Seq(Writer)
    BY <1>2, Zenon DEF Types
  <2> QED BY <1>2, <2>1 DEF LastWriter
<1>4. UnlinkGroup(LastWriter(Led(t)))
  BY Zenon DEF Unlink
<1>5. /\ newest_writer' \in Writer \cup {Null}
      /\ link_older' \in [Writer -> Writer \cup {Null}]
      /\ link_newer' \in [Writer -> Writer \cup {Null}]
      /\ state' \in [Writer -> WriterState]
  <2>1. CASE newest_writer = LastWriter(Led(t))
    BY <1>4, <2>1, Zenon DEF UnlinkGroup, Types
  <2>2. CASE newest_writer # LastWriter(Led(t))
    <3>1. PICK newer : newer = CreateMissingNewerLinks(newest_writer, link_newer)
      BY Zenon
    <3>2. link_newer \in [Writer -> Writer \cup {Null}]
      BY Zenon DEF Types
    <3>3. newer \in [Writer -> Writer \cup {Null}]
      BY <1>1, <1>2, <3>1, <3>2, LinksCreated, Zenon
    <3>4. \E next : /\ link_older' = [link_older EXCEPT ![next] = Null]
                    /\ state' = [state EXCEPT ![next] = "GROUP_LEADER"]
                    /\ link_newer' = newer /\ newest_writer' = newest_writer
      BY <1>4, <2>2, <3>1, Zenon DEF UnlinkGroup
    <3> QED BY <3>3, <3>4, Zenon DEF Types, WriterState
  <2> QED BY <2>1, <2>2, Zenon
<1> QED BY <1>3, <1>5, Zenon DEF Unlink, Goto, shared, db, Types, Labels

\* The thread that launches its followers is the first of the list.
LEMMA LauncherLeads ==
  ASSUME NEW Q, NEW h, NEW M, Ends(Q, h), Core(Q, h, M), NEW w \in Writer,
         pc[w] \in {"log", "apply", "launch"}
  PROVE  w = h /\ group[h] # <<>>
<1>1. w \in Q
  BY Zenon DEF Core, Role, Gone
<1>2. w = h
  BY <1>1, Zenon DEF Core, Role, Waiting, Following
<1> QED BY <1>2, Zenon DEF Core, Role, Leading

\* What a step must not do to keep unbatched writers and merges apart.
LEMMA BatchedFrame ==
  ASSUME NEW h, NEW M, Batched(h, M),
         request' = request, callbackFailed \subseteq callbackFailed',
         h \in Writer => (pc'[h] \in Batching => pc[h] \in Batching),
         h \in Writer => (pc'[h] = "launch" \/ parallel_group'[h] = h
                            => pc[h] = "launch" \/ parallel_group[h] = h)
  PROVE  Batched(h, M)'
BY Zenon DEF Batched

\* The steps that leave the list, the links and the groups alone.
InPlace(w) ==
  \/ Prepare(w) \/ LogGroup(w) \/ InsertGroup(w) \/ LaunchFollowers(w) \/ LaunchNext(w)
  \/ InsertBatch(w) \/ CountDown(w) \/ LastLeader(w) \/ LastFollowerExits(w)
  \/ LastFollowerWakes(w) \/ LeaderWakes(w) \/ CompleteNext(w) \/ ExitDone(w)
  \/ Report(w) \/ FollowerReturns(w)

\* The steps that leave the list alone keep the invariant.
LEMMA InPlaceCore ==
  ASSUME Types, NEW Q, NEW h, NEW M, Ends(Q, h), Core(Q, h, M),
         NEW w \in Writer, InPlace(w)
  PROVE  Core(Q, h, M)' /\ Types' /\ UNCHANGED <<queue, group>>
<1>1. Core(Q, h, M)'
  BY PrepareCore, LogGroupCore, InsertGroupCore, LaunchFollowersCore, LaunchNextCore,
     InsertBatchCore, CountDownCore, LastLeaderCore, LastFollowerExitsCore,
     LastFollowerWakesCore, LeaderWakesCore, CompleteNextCore, ExitDoneCore,
     ReportCore, FollowerReturnsCore, SMTT(30) DEF InPlace
<1>2. Types'
  BY JoinTypes, ApplyTypes, LaunchTypes, CountTypes, ExitTypes, Zenon DEF InPlace
<1>3. UNCHANGED <<queue, group>>
  BY Zenon DEF InPlace, Prepare, LogGroup, InsertGroup, LaunchFollowers, LaunchNext,
         InsertBatch, CountDown, LastLeader, LastFollowerExits, LastFollowerWakes,
         LeaderWakes, CompleteNext, ExitDone, Report, FollowerReturns
<1> QED BY <1>1, <1>2, <1>3, Zenon

\* The steps that leave the list alone keep unbatched writers and merges apart: a
\* group is launched only after Parallel has found no merge in it.
LEMMA InPlaceBatched ==
  ASSUME Types, NEW Q, NEW h, NEW M, Ends(Q, h), Core(Q, h, M), Batched(h, M),
         NEW w \in Writer, InPlace(w)
  PROVE  Batched(h, M)'
<1>1. CASE Prepare(w)
  <2>1. /\ pc'[w] = "enter" /\ request[w].batch
        /\ \A x \in Writer : x # w => pc'[x] = pc[x]
        /\ request' = request /\ callbackFailed' = callbackFailed
        /\ parallel_group' = parallel_group
    BY <1>1, Zenon DEF Prepare, Goto, Types, shared
  <2> QED BY <2>1, Zenon DEF Batched, Batching
<1>2. CASE LogGroup(w)
  <2>1. /\ pc'[w] \in {"report", "launch", "apply"} /\ pc[w] = "log"
        /\ pc'[w] = "launch" => Parallel(w)
        /\ \A x \in Writer : x # w => pc'[x] = pc[x]
        /\ request' = request /\ parallel_group' = parallel_group
        /\ callbackFailed' = callbackFailed
             \cup {x \in Members(group[w]) : request[x].callback = "refuses"}
    BY <1>2, Zenon DEF LogGroup, Goto, Types
  <2>2. w = h
    BY <2>1, LauncherLeads, Zenon
  <2>3. parallel_group[w] = Null
    BY <2>1, <2>2, Zenon DEF Core, Role, Leading
  <2>4. \A x \in Writer : <<x, h>> \in M => x \in Members(group[w])
    <3>1. DOMAIN group[w] = 1..Len(group[w])
      BY DEF Types
    <3> QED BY <2>2, <3>1, SMTT(30) DEF Core, Grouped, Members
  <2>5. pc'[w] = "launch" => \A x \in Writer : <<x, h>> \in M =>
          x \in callbackFailed' \/ ~request[x].merge
    BY <2>1, <2>4, Zenon DEF Parallel
  <2> QED BY <2>1, <2>2, <2>3, <2>5, WriterAssumption, Zenon DEF Batched, Batching
<1>3. CASE LaunchNext(w)
  <2>1. pc[w] = "launch" /\ w = h
    BY <1>3, LauncherLeads, Zenon DEF LaunchNext
  <2>2. request' = request /\ callbackFailed' = callbackFailed
    BY <1>3, Zenon DEF LaunchNext
  <2> QED BY <2>1, <2>2, BatchedFrame, Zenon DEF Batching
<1>4. CASE LaunchFollowers(w)
  <2>1. pc[w] = "launch" /\ w = h
    BY <1>4, LauncherLeads, Zenon DEF LaunchFollowers
  <2>2. request' = request /\ callbackFailed' = callbackFailed
    BY <1>4, Zenon DEF LaunchFollowers
  <2> QED BY <2>1, <2>2, BatchedFrame, Zenon DEF Batching
<1>5. CASE InsertGroup(w) \/ InsertBatch(w) \/ CountDown(w) \/ LastLeader(w)
           \/ LastFollowerExits(w) \/ LastFollowerWakes(w) \/ LeaderWakes(w)
  <2>1. /\ request' = request /\ callbackFailed' = callbackFailed
        /\ parallel_group' = parallel_group
        /\ \E label \in {"report", "unlink", "count", "wait"} : pc' = [pc EXCEPT ![w] = label]
    BY <1>5, Zenon DEF InsertGroup, InsertBatch, CountDown, LastLeader, LastFollowerExits,
                LastFollowerWakes, LeaderWakes, AfterApply, Goto, shared
  <2>2. pc'[w] \in {"report", "unlink", "count", "wait"} /\ \A x \in Writer : x # w => pc'[x] = pc[x]
    BY <2>1, Zenon DEF Types
  <2> QED BY <2>1, <2>2, BatchedFrame, Zenon DEF Batching
<1>6. CASE CompleteNext(w) \/ ExitDone(w) \/ Report(w) \/ FollowerReturns(w)
  <2>1. /\ request' = request /\ callbackFailed' = callbackFailed
        /\ parallel_group' = parallel_group
        /\ \/ pc' = pc
           \/ \E label \in {"report", "done", "unlink"} : pc' = [pc EXCEPT ![w] = label]
    BY <1>6, Zenon DEF CompleteNext, ExitDone, Report, FollowerReturns, Goto, shared
  <2>2. \A x \in Writer : pc'[x] = pc[x] \/ pc'[x] \in {"report", "done", "unlink"}
    BY <2>1, Zenon DEF Types
  <2> QED BY <2>1, <2>2, BatchedFrame, Zenon DEF Batching
<1> QED BY <1>1, <1>2, <1>3, <1>4, <1>5, <1>6, SMTT(30) DEF InPlace

\* The steps that leave the list alone keep all of the invariant.
LEMMA InPlaceListed ==
  ASSUME Types, NEW s \in Seq(Writer), NEW M, Listed(s, M), NEW w \in Writer, InPlace(w)
  PROVE  Types' /\ Listed(s, M)'
<1>1. PICK Q, h : Q = OnList(s) /\ h = Lead(s)
  BY Zenon
<1>2. Ends(Q, h) /\ Core(Q, h, M) /\ Batched(h, M) /\ Shape(s) /\ Fronts(s)
  BY <1>1, ListEnds, Zenon DEF Listed
<1>3. Core(Q, h, M)' /\ Types' /\ UNCHANGED <<queue, group>>
  BY <1>2, InPlaceCore, Zenon
<1>4. Batched(h, M)'
  BY <1>2, InPlaceBatched, Zenon
<1>5. Shape(s)' /\ Fronts(s)'
  BY <1>2, <1>3, Zenon DEF Shape, Fronts, queue
<1> QED BY <1>1, <1>3, <1>4, <1>5, Zenon DEF Listed

\* Every step of WriteImpl keeps the invariant.
LEMMA StepInv ==
  ASSUME Induction, WriteInv, NEW w \in Writer, Step(w)
  PROVE  WriteInv'
<1>1. Types
  BY Zenon DEF WriteInv
<1>2. PICK s \in Seq(Writer) : \E M : Listed(s, M)
  BY Zenon DEF WriteInv
<1>3. PICK M : Listed(s, M)
  BY <1>2, Zenon
<1>4. CASE InPlace(w)
  BY <1>1, <1>3, <1>4, InPlaceListed, Zenon DEF WriteInv
<1>5. CASE JoinBatchGroup(w)
  <2>1. Append(s, w) \in Seq(Writer)
    OBVIOUS
  <2>2. Listed(Append(s, w), M)'
    BY <1>1, <1>3, <1>5, JoinBatchGroupListed, Zenon
  <2>3. Types'
    BY <1>1, <1>5, JoinTypes, Zenon
  <2> QED BY <2>1, <2>2, <2>3, Zenon DEF WriteInv
<1>6. CASE Unbatched(w)
  BY <1>1, <1>3, <1>6, UnbatchedListed, JoinTypes, Zenon DEF WriteInv
<1>7. CASE EnterGroup(w)
  BY <1>1, <1>3, <1>7, EnterGroupListed, EnterGroupTypes, Zenon DEF WriteInv
<1>8. CASE Unlink(w)
  BY <1>1, <1>3, <1>8, UnlinkListed, UnlinkTypes, Zenon DEF WriteInv
<1> QED BY <1>4, <1>5, <1>6, <1>7, <1>8, Zenon DEF Step, InPlace

\* The invariant depends on the variables only.
LEMMA StutterInv ==
  ASSUME WriteInv, UNCHANGED vars
  PROVE  WriteInv'
<1>1. UNCHANGED <<newest_writer, link_older, link_newer, state, request, pc, status, group,
                  exited, parallel_group, running, pgStatus, cursor, callbackFailed, failed>>
  BY Zenon DEF vars, queue, locals, shared, db
<1>2. Types'
  BY <1>1, Zenon DEF WriteInv, Types
<1>3. PICK s \in Seq(Writer) : \E M : Listed(s, M)
  BY Zenon DEF WriteInv
<1>4. PICK M : Listed(s, M)
  BY <1>3, Zenon
<1>5. Listed(s, M)'
  <2>1. PICK Q, h : Q = OnList(s) /\ h = Lead(s)
    BY Zenon
  <2>2. Shape(s)' /\ Fronts(s)' /\ Batched(h, M)'
    BY <1>1, <1>4, <2>1, Zenon DEF Listed, Shape, Fronts, Batched
  <2>3. Core(Q, h, M)
    BY <1>4, <2>1, Zenon DEF Listed
  <2>4. Grouped(Q, h, M)'
    BY <1>1, <2>3, GroupedSame, Zenon DEF Core
  <2>5. ASSUME NEW x \in Writer PROVE Role(x, Q, h, M)'
    <3>1. Role(x, Q, h, M)
      BY <2>3, Zenon DEF Core
    <3>2. Starting(x, Q, M)' <=> Starting(x, Q, M)
      BY <1>1, Zenon DEF Starting, Fresh
    <3>3. Waiting(x, Q, h, M)' <=> Waiting(x, Q, h, M)
      BY <1>1, Zenon DEF Waiting, Fresh
    <3>4. Leading(x)' <=> Leading(x)
      BY <1>1, Zenon DEF Leading, NeedLogSync
    <3>5. Following(x, h, M)' <=> Following(x, h, M)
      BY <1>1, Zenon DEF Following, NeedLogSync
    <3>6. Gone(x)' <=> Gone(x)
      BY <1>1, Zenon DEF Gone, NeedLogSync
    <3> QED BY <1>1, <3>1, <3>2, <3>3, <3>4, <3>5, <3>6, Zenon DEF Role
  <2>6. Counting(h, M)' /\ Launching(h)'
    BY <1>1, <2>3, Zenon DEF Core, Counting, Launching, Pending
  <2>7. Exiting(Q, M)'
    <3>1. Exiting(Q, M)
      BY <2>3, Zenon DEF Core
    <3>2. \A t \in Writer : Led(t)' = Led(t)
      BY <1>1, Zenon DEF Led, Leader
    <3>3. \A t, y \in Writer : ToComplete(t, y)' <=> ToComplete(t, y)
      BY <1>1, Zenon DEF ToComplete
    <3>4. ASSUME NEW t \in Writer, pc'[t] = "complete"
          PROVE  Exits(t, Q, M)'
      <4>1. Exits(t, Q, M)
        BY <1>1, <3>1, <3>4, Zenon DEF Exiting
      <4>2. PICK l \in Writer \ Q : l = Led(t) /\ l = Led(t)'
        BY <3>2, <4>1, Zenon DEF Exits
      <4>3. PICK c \in 1..Len(group[l]) :
              cursor[t] = group[l][c] /\ \A i \in 2..c : ToComplete(t, group[l][i])
        BY <4>1, <4>2, Zenon DEF Exits
      <4>4. \A i \in 2..c : ToComplete(t, group[l][i])'
        BY <1>1, <4>3, Zenon DEF ToComplete
      <4>5. /\ <<t, l>> \in M
            /\ t # l => /\ pc[l] = "wait" /\ state[l] = "GROUP_LEADER"
                       /\ parallel_group[l] = l
            /\ \A u \in Writer : pc[u] = "complete" /\ Led(u) = l => u = t
        BY <4>1, <4>2, Zenon DEF Exits
      <4> QED BY <1>1, <3>2, <4>2, <4>3, <4>4, <4>5, SMTT(30) DEF Exits
    <3> QED BY <3>4, Zenon DEF Exiting
  <2>8. Core(Q, h, M)'
    BY <2>4, <2>5, <2>6, <2>7, Zenon DEF Core
  <2> QED BY <2>1, <2>2, <2>8, Zenon DEF Listed
<1> QED BY <1>2, <1>5, Zenon DEF WriteInv

\* The invariant holds at the start.
LEMMA InitInv ==
  ASSUME Init
  PROVE  WriteInv
<1>1. Types
  <2>1. <<>> \in Seq(Writer) /\ 0 \in Nat
    OBVIOUS
  <2> QED BY <2>1, Zenon DEF Init, InitQueue, Types, Labels, Status, WriterState
<1>2. OnList(<<>>) = {} /\ Lead(<<>>) = Null /\ <<>> \in Seq(Writer)
  BY DEF OnList, Lead
<1>3. /\ newest_writer = Null
      /\ \A x \in Writer : /\ pc[x] = "start" /\ group[x] = <<>> /\ state[x] = "INIT"
                           /\ parallel_group[x] = Null /\ status[x] = "ok"
                           /\ cursor[x] = Null /\ link_newer[x] = Null
                           /\ pgStatus[x] = "ok" /\ x \notin exited
  BY Zenon DEF Init, InitQueue
<1>4. Shape(<<>>) /\ Fronts(<<>>)
  BY <1>3 DEF Shape, Fronts
<1>5. Core({}, Null, {})
  <2>1. Grouped({}, Null, {})
    BY <1>3 DEF Grouped
  <2>2. \A x \in Writer : Role(x, {}, Null, {})
    BY <1>3, WriterAssumption, Zenon DEF Role, Starting, Waiting, Gone, Fresh
  <2>3. Counting(Null, {}) /\ Launching(Null)
    BY WriterAssumption, Zenon DEF Counting, Launching
  <2>4. Exiting({}, {})
    BY <1>3, Zenon DEF Exiting
  <2> QED BY <2>1, <2>2, <2>3, <2>4, Zenon DEF Core
<1>6. Batched(Null, {})
  BY WriterAssumption, Zenon DEF Batched
<1>7. Listed(<<>>, {})
  BY <1>2, <1>4, <1>5, <1>6, Zenon DEF Listed
<1> QED BY <1>1, <1>2, <1>7, Zenon DEF WriteInv

\* A step of WriteImpl keeps the invariant.
LEMMA NextInv ==
  ASSUME Induction, WriteInv, [Next]_vars
  PROVE  WriteInv'
BY StepInv, StutterInv, Zenon DEF Next, Terminated

\* Threads that insert are of the group that is on the list, which has no merges.
LEMMA InsertersShareGroup ==
  ASSUME Types, NEW Q, NEW h, NEW M, Ends(Q, h), Core(Q, h, M), Batched(h, M),
         NEW w \in Writer, Inserting(w)
  PROVE  /\ parallel_group[w] = h /\ parallel_group[h] = h /\ <<w, h>> \in M
         /\ h \in Writer
         /\ w \in callbackFailed \/ ~request[w].merge
         /\ request[w].batch
<1>1. pc[w] = "insert" \/ (pc[w] = "joined" /\ state[w] = "PARALLEL_FOLLOWER")
  BY Zenon DEF Inserting
<1>2. /\ h \in Writer /\ parallel_group[w] = h /\ parallel_group[h] = h /\ <<w, h>> \in M
      /\ w = h => pc[h] # "launch"
  <2>1. \/ pc[w] \in {"insert", "count"}
        \/ pc[w] = "joined" /\ state[w] = "PARALLEL_FOLLOWER"
    BY <1>1, Zenon
  <2>2. InParallelGroup(w, Q, h, M)
    BY <2>1, InParallel, Zenon
  <2> QED BY <2>2, Zenon DEF InParallelGroup
<1>3. w = h => pc[h] = "insert"
  BY <1>1, <1>2, Zenon DEF Core, Role, Leading
<1> QED BY <1>2, <1>3, Zenon DEF Batched, Batching

\* A thread that writes alone is the first on the list.
LEMMA AloneLeads ==
  ASSUME NEW Q, NEW h, NEW M, Ends(Q, h), Core(Q, h, M), Batched(h, M),
         NEW w \in Writer, Alone(w)
  PROVE  w = h
<1>1. w \in Q
  BY Zenon DEF Alone, Core, Role, Gone
<1> QED BY <1>1, Zenon DEF Alone, Core, Role, Waiting, Following, Batched

\* ExclusiveWriters: the write path is used by one leader at a time, or by the
\* followers of one group without merges.
LEMMA WritersAreExclusive == WriteInv => ExclusiveWriters
<1>1. SUFFICES ASSUME WriteInv PROVE ExclusiveWriters
  BY Zenon
<1>2. PICK s \in Seq(Writer) : \E M : Listed(s, M)
  BY <1>1, Zenon DEF WriteInv
<1>3. PICK M : Listed(s, M)
  BY <1>2, Zenon
<1>4. PICK Q, h : Q = OnList(s) /\ h = Lead(s)
  BY Zenon
<1>5. Types /\ Ends(Q, h) /\ Core(Q, h, M) /\ Batched(h, M)
  BY <1>1, <1>3, <1>4, ListEnds, Zenon DEF Listed, WriteInv
<1>6. \A w \in Writer : Alone(w) => w = h
  BY <1>5, AloneLeads, Zenon
<1>7. \A w \in Writer : Inserting(w) =>
        /\ parallel_group[w] = h
        /\ w \in callbackFailed \/ ~request[w].merge
        /\ request[w].batch
  BY <1>5, InsertersShareGroup, Zenon
<1> QED BY <1>6, <1>7, Zenon DEF ExclusiveWriters

\* LinksAgree: link_newer is Null or points back along link_older (the assertions
\* of CreateMissingNewerLinks and ExitAsBatchGroupLeader), and the oldest writer
\* leads.
LEMMA LinksAreInOrder == WriteInv => LinksAgree
<1>1. SUFFICES ASSUME WriteInv, NEW w \in Queued
               PROVE  /\ link_older[w] # Null => link_newer[link_older[w]] \in {Null, w}
                      /\ link_older[w] = Null => state[w] \in {"GROUP_LEADER", "COMPLETED"}
  BY Zenon DEF LinksAgree
<1>2. PICK s \in Seq(Writer) : \E M : Listed(s, M)
  BY <1>1, Zenon DEF WriteInv
<1>3. PICK M : Listed(s, M)
  BY <1>2, Zenon
<1>4. Shape(s) /\ Core(OnList(s), Lead(s), M)
  BY <1>3, Zenon DEF Listed
<1>5. PICK i \in 1..Len(s) : w = s[i]
  BY <1>1, <1>4, QueuedOnList, Zenon
<1>6. link_older[w] = IF i = 1 THEN Null ELSE s[i - 1]
  BY <1>4, <1>5, Zenon DEF Shape
<1>7. CASE i = 1
  <2>1. w = Lead(s) /\ w \in Writer
    BY <1>5, <1>7 DEF Lead
  <2>2. Leading(w)
    BY <1>4, <2>1, Zenon DEF Core, Role
  <2> QED BY <1>6, <1>7, <2>2, Zenon DEF Leading
<1>8. CASE i # 1
  <2>1. i - 1 \in 1..Len(s) /\ (i - 1) + 1 = i /\ s[i - 1] \in Writer
    BY <1>8
  <2>2. link_newer[s[i - 1]] = Null \/ link_newer[s[i - 1]] = s[(i - 1) + 1]
    BY <1>4, <2>1, Zenon DEF Shape
  <2> QED BY <1>5, <1>6, <1>8, <2>1, <2>2, WriterAssumption, Zenon
<1> QED BY <1>7, <1>8, Zenon

\* NoDanglingWriter: a Writer or ParallelGroup on the stack of a call of WriteImpl
\* is not touched after the call has returned.
LEMMA WritersAreThere == WriteInv => NoDanglingWriter
<1>1. SUFFICES ASSUME WriteInv PROVE NoDanglingWriter
  BY Zenon
<1>2. PICK s \in Seq(Writer) : \E M : Listed(s, M)
  BY <1>1, Zenon DEF WriteInv
<1>3. PICK M : Listed(s, M)
  BY <1>2, Zenon
<1>4. PICK Q, h : Q = OnList(s) /\ h = Lead(s)
  BY Zenon
<1>5. Types /\ Shape(s) /\ Ends(Q, h) /\ Core(Q, h, M)
  BY <1>1, <1>3, <1>4, ListEnds, SMTT(30) DEF Listed, WriteInv
<1>6. "insert" \notin failed => \A w \in Queued : pc[w] # "done"
  <2>1. SUFFICES ASSUME "insert" \notin failed, NEW w \in Queued PROVE pc[w] # "done"
    BY Zenon
  <2>2. w \in Q /\ w \in Writer
    BY <1>4, <1>5, <2>1, QueuedOnList, SMTT(30) DEF OnList
  <2> QED BY <1>5, <2>1, <2>2, Zenon DEF Core, Role, Waiting, Leading, Following
<1>7. ASSUME NEW t \in Writer, pc[t] = "complete"
      PROVE  pc[cursor[t]] # "done" /\ pc[Led(t)] # "done"
  <2>1. Exits(t, Q, M)
    BY <1>5, <1>7, Zenon DEF Core, Exiting
  <2>2. pc[Led(t)] # "done"
    BY <1>7, <2>1, Zenon DEF Exits
  <2>3. PICK c \in 1..Len(group[Led(t)]) :
          /\ cursor[t] = group[Led(t)][c]
          /\ \A i \in 2..c : ToComplete(t, group[Led(t)][i])
    BY <2>1, Zenon DEF Exits
  <2>4. CASE c = 1
    <3>1. Led(t) \in Writer /\ group[Led(t)] # <<>>
      BY <2>1, <2>3, SMTT(30) DEF Exits
    <3>2. group[Led(t)][1] = Led(t)
      BY <1>5, <3>1, SMTT(30) DEF Core, Grouped
    <3> QED BY <2>2, <2>3, <2>4, <3>2, Zenon
  <2>5. CASE c # 1
    <3>1. c \in 2..c
      BY <2>3, <2>5
    <3>2. ToComplete(t, cursor[t])
      BY <2>3, <3>1, Zenon
    <3> QED BY <1>7, <2>2, <3>2, Zenon DEF ToComplete
  <2> QED BY <2>4, <2>5, Zenon
<1>8. ASSUME NEW t \in Writer, pc[t] = "launch", cursor[t] # Null
      PROVE  pc[cursor[t]] # "done" /\ pc[Led(t)] # "done"
  <2>1. t = h /\ group[h] # <<>> /\ Led(t) = t
    BY <1>5, <1>8, LauncherLeads, Zenon DEF Led
  <2>2. parallel_group[h] = h
    BY <1>5, <1>8, <2>1, Zenon DEF Core, Role, Leading, Launching
  <2>3. PICK c \in 1..(Len(group[h]) - 1) : cursor[h] = group[h][c]
    BY <1>5, <1>8, <2>1, <2>2, Zenon DEF Core, Launching
  <2>4. c \in 1..Len(group[h]) /\ group[h][c] \in Writer
    BY <2>1, <2>3, <1>5, SMTT(30) DEF Types
  <2>5. <<cursor[h], h>> \in M
    BY <1>5, <2>1, <2>3, <2>4, Zenon DEF Core, Grouped
  <2> QED BY <1>5, <1>8, <2>1, <2>3, <2>4, <2>5, Zenon DEF Core, Role, Following
<1>9. ASSUME NEW t \in Writer, pc[t] \in {"insert", "count", "unlink"}
      PROVE  pc[Led(t)] # "done"
  <2>1. CASE pc[t] = "unlink"
    <3>1. Led(t) = h /\ (t = h \/ Following(t, h, M))
      BY <1>5, <2>1, Unlinks, Zenon
    <3> QED BY <2>1, <3>1, Zenon DEF Following
  <2>2. CASE pc[t] # "unlink"
    <3>1. /\ parallel_group[t] = h /\ group[h] # <<>> /\ <<t, h>> \in M
          /\ pc[h] \in {"launch", "insert", "count", "wait"}
      <4>1. pc[t] \in {"insert", "count"}
        BY <1>9, <2>2, Zenon
      <4>2. InParallelGroup(t, Q, h, M)
        BY <1>5, <4>1, InParallel, Zenon
      <4> QED BY <4>2, Zenon DEF InParallelGroup
    <3>2. t # h => group[t] = <<>>
      BY <1>5, <3>1, Zenon DEF Core, Role, Following
    <3> QED BY <3>1, <3>2, Zenon DEF Led, Leader
  <2> QED BY <2>1, <2>2, Zenon
<1> QED BY <1>6, <1>7, <1>8, <1>9, Zenon DEF NoDanglingWriter

-----------------------------------------------------------------------------
(***************************************************************************)
(* What the proofs about the log, the memtable and the sequence numbers    *)
(* need of the invariant.                                                  *)
(***************************************************************************)
\* The threads are in their places.
LEMMA InPlaces == WriteInv => Places
<1>1. SUFFICES ASSUME WriteInv PROVE Places
  BY Zenon
<1>2. PICK s \in Seq(Writer) : \E M : Listed(s, M)
  BY <1>1, Zenon DEF WriteInv
<1>3. PICK M : Listed(s, M)
  BY <1>2, Zenon
<1>4. PICK Q, h : Q = OnList(s) /\ h = Lead(s)
  BY Zenon
<1>5. Types /\ Ends(Q, h) /\ Core(Q, h, M) /\ Batched(h, M)
  BY <1>1, <1>3, <1>4, ListEnds, Zenon DEF Listed, WriteInv
<1>6. Grouped(Q, h, M) /\ \A x \in Writer : Role(x, Q, h, M)
  BY <1>5, Zenon DEF Core
<1>7. \A l \in Writer : group[l] \in Seq(Writer)
  BY <1>5, Zenon DEF Types
<1>8. \A l \in Writer : Members(group[l]) \subseteq Writer
  BY <1>7 DEF Members
<1>9. \A l, x \in Writer : x \in Members(group[l]) <=> <<x, l>> \in M
  <2>1. \A l, x \in Writer : <<x, l>> \in M <=> \E i \in 1..Len(group[l]) : group[l][i] = x
    BY <1>6, Zenon DEF Grouped
  <2> QED BY <2>1, Zenon DEF Members
<1>10. GroupPlaces
  <2>1. \A l \in Writer : group[l] # <<>> => group[l][1] = l /\ <<l, l>> \in M
    BY <1>5, <1>6, LeaderIsMember, Zenon
  <2>2. \A l, k, x \in Writer : <<x, l>> \in M /\ <<x, k>> \in M => l = k
    BY <1>6, Zenon DEF Grouped
  <2> QED BY <1>8, <1>9, <2>1, <2>2, Zenon DEF GroupPlaces
<1>11. StartPlaces
  BY <1>6, Zenon DEF StartPlaces, Role, Starting
<1>12. ParallelPlaces
  <2>1. SUFFICES ASSUME NEW x \in Writer, pc[x] = "count" \/ Inserting(x)
                 PROVE  /\ parallel_group[x] \in Writer /\ state[x] # "COMPLETED"
                        /\ x \in Members(group[parallel_group[x]])
                        /\ parallel_group[parallel_group[x]] = parallel_group[x]
                        /\ pc[x] = "insert" => parallel_group[x] = x
    BY Zenon DEF ParallelPlaces
  <2>2. \/ pc[x] \in {"insert", "count"}
        \/ pc[x] = "joined" /\ state[x] = "PARALLEL_FOLLOWER"
    BY <2>1, Zenon DEF Inserting
  <2>3. InParallelGroup(x, Q, h, M)
    BY <1>5, <2>2, InParallel, Zenon
  <2>4. /\ h \in Writer /\ parallel_group[x] = h /\ parallel_group[h] = h /\ <<x, h>> \in M
    BY <2>3, ZenonT(40) DEF InParallelGroup
  <2>5. state[x] # "COMPLETED"
    BY <1>6, <2>2, <2>4, SMTT(30) DEF Role, Leading, Following
  <2>6. pc[x] = "insert" => x = h
    BY <1>6, <2>2, <2>4, Zenon DEF Role, Following
  <2> QED BY <1>9, <2>4, <2>5, <2>6, Zenon
<1>13. LaunchPlaces
  <2>1. SUFFICES ASSUME NEW w \in Writer, pc[w] = "launch", cursor[w] # Null
                 PROVE  LET next == link_newer[cursor[w]] IN
                        /\ next \in Members(group[w]) /\ next \in Writer /\ next # w
                        /\ pc[next] = "joined" /\ parallel_group[w] = w
    BY Zenon DEF LaunchPlaces
  <2>2. w = h /\ w \in Q /\ Leading(w)
    BY <1>5, <2>1, LeaderAtWork, Zenon
  <2>3. parallel_group[h] = h
    BY <1>5, <2>1, <2>2, Zenon DEF Core, Leading, Launching
  <2>4. PICK c \in 1..(Len(group[h]) - 1) :
           /\ cursor[h] = group[h][c]
           /\ \A i \in 1..Len(group[h]) : parallel_group[group[h][i]] = IF i <= c THEN h ELSE Null
    BY <1>5, <2>1, <2>2, <2>3, Zenon DEF Core, Launching
  <2>5. Len(group[h]) \in Nat /\ group[h] \in Seq(Writer)
    BY <1>7, <2>2, SMTT(30)
  <2>6. c + 1 \in 1..Len(group[h]) /\ group[h][c + 1] \in Writer
    BY <2>4, <2>5
  <2>7. link_newer[group[h][c]] = group[h][c + 1]
    BY <1>6, <2>2, <2>4, ZenonT(40) DEF Grouped
  <2>8. parallel_group[group[h][c + 1]] = Null
    BY <2>4, <2>5, <2>6
  <2>9. group[h][c + 1] # h
    BY <2>2, <2>3, <2>8, WriterAssumption, Zenon
  <2>10. group[h][c + 1] \in Members(group[h])
    BY <2>6, Zenon DEF Members
  <2>11. Following(group[h][c + 1], h, M)
    BY <1>6, <1>9, <2>2, <2>6, <2>9, <2>10, Zenon DEF Role
  <2>12. pc[group[h][c + 1]] = "joined"
    BY <2>2, <2>8, <2>11, WriterAssumption, Zenon DEF Following
  <2> QED BY <2>2, <2>3, <2>4, <2>6, <2>7, <2>9, <2>10, <2>12, Zenon
<1>14. LastPlaces
  <2>1. SUFFICES ASSUME NEW w \in Writer, pc[w] = "count", running[Leader(w)] = 1,
                        NEW y \in Members(group[Leader(w)])
                 PROVE  parallel_group[y] = Leader(w) /\ (y # w => pc[y] = "wait")
    BY Zenon DEF LastPlaces
  <2>2. /\ InParallelGroup(w, Q, h, M)
        /\ \A x \in Writer : <<x, h>> \in M /\ x # w => pc[x] = "wait"
        /\ \A x \in Writer : <<x, h>> \in M => parallel_group[x] = h
    BY <1>5, <2>1, LastOfGroup, ZenonT(40)
  <2>3. h \in Writer /\ Leader(w) = h
    BY <2>2, Zenon DEF InParallelGroup, Leader
  <2>4. y \in Writer /\ <<y, h>> \in M
    BY <1>8, <1>9, <2>1, <2>3, Zenon
  <2> QED BY <2>2, <2>3, <2>4, Zenon
<1>15. ExitPlaces
  <2>1. SUFFICES ASSUME NEW t \in Writer, pc[t] = "complete"
                 PROVE  /\ Led(t) \in Writer
                        /\ t \in Members(group[Led(t)]) /\ cursor[t] \in Members(group[Led(t)])
                        /\ cursor[t] # Led(t) =>
                             cursor[t] = t \/ pc[cursor[t]] \in {"joined", "wait"}
                        /\ t # Led(t) => pc[Led(t)] = "wait" /\ group[t] = <<>>
    BY Zenon DEF ExitPlaces
  <2>2. Exits(t, Q, M)
    BY <1>5, <2>1, Zenon DEF Core, Exiting
  <2>3. Led(t) \in Writer /\ <<t, Led(t)>> \in M /\ (t # Led(t) => pc[Led(t)] = "wait")
    BY <2>2, Zenon DEF Exits
  <2>4. PICK c \in 1..Len(group[Led(t)]) :
           /\ cursor[t] = group[Led(t)][c]
           /\ \A i \in 2..c : ToComplete(t, group[Led(t)][i])
    BY <2>2, Zenon DEF Exits
  <2>5. cursor[t] \in Members(group[Led(t)])
    BY <2>4, Zenon DEF Members
  <2>6. ASSUME cursor[t] # Led(t) PROVE cursor[t] = t \/ pc[cursor[t]] \in {"joined", "wait"}
    <3>1. group[Led(t)] \in Seq(Writer)
      BY <1>7, <2>3, Zenon
    <3>2. group[Led(t)] # <<>>
      BY <2>4
    <3>3. group[Led(t)][1] = Led(t)
      BY <1>10, <2>3, <3>2, ZenonT(40) DEF GroupPlaces
    <3>4. c \in 2..c
      BY <2>4, <2>6, <3>1, <3>3, SMTT(30)
    <3>5. ToComplete(t, group[Led(t)][c])
      BY <2>4, <3>4, Zenon
    <3> QED BY <2>4, <3>5, Zenon DEF ToComplete
  <2>7. t # Led(t) => group[t] = <<>>
    BY Zenon DEF Led
  <2>8. t \in Members(group[Led(t)])
    BY <1>9, <2>3, Zenon
  <2> QED BY <2>3, <2>5, <2>6, <2>7, <2>8, Zenon
<1> QED BY <1>5, <1>10, <1>11, <1>12, <1>13, <1>14, <1>15, SMTT(30) DEF Places

\* Who publishes is first on the list.
LEMMA PublisherLeads ==
  ASSUME Types, NEW Q, NEW h, NEW M, Ends(Q, h), Core(Q, h, M),
         \A l, x \in Writer : x \in Members(group[l]) <=> <<x, l>> \in M,
         GroupPlaces, NEW l \in Writer, Publishing(l), Leads(l)
  PROVE  l = h
<1>1. Grouped(Q, h, M) /\ \A x \in Writer : Role(x, Q, h, M)
  BY Zenon DEF Core
<1>2. group[l] # <<>> /\ <<l, l>> \in M
  BY Zenon DEF Publishing, GroupPlaces
<1>3. CASE pc[l] \in {"apply", "launch"}
  BY <1>3, LeaderAtWork, Zenon
<1>4. CASE pc[l] \in {"insert", "count"}
  <2>1. InParallelGroup(l, Q, h, M)
    BY <1>4, InParallel, Zenon
  <2>2. <<l, h>> \in M /\ h \in Writer
    BY <2>1, Zenon DEF InParallelGroup
  <2> QED BY <1>1, <1>2, <2>2, Zenon DEF Grouped
<1>5. CASE pc[l] = "wait" /\ \E x \in Members(group[l]) : Busy(x)
  <2>1. PICK x \in Members(group[l]) : Busy(x)
    BY <1>5, Zenon
  <2>2. x \in Writer
    BY <2>1, Zenon DEF GroupPlaces
  <2>3. \/ pc[x] \in {"insert", "count"}
        \/ pc[x] = "joined" /\ state[x] = "PARALLEL_FOLLOWER"
    BY <2>1, Zenon DEF Busy, Inserting
  <2>4. InParallelGroup(x, Q, h, M)
    BY <2>2, <2>3, InParallel, Zenon
  <2>5. <<x, h>> \in M /\ h \in Writer
    BY <2>4, Zenon DEF InParallelGroup
  <2>6. <<x, l>> \in M
    BY <2>1, <2>2, Zenon
  <2> QED BY <1>1, <2>2, <2>5, <2>6, Zenon DEF Grouped
<1>6. CASE pc[l] = "wait" /\ NeedLogSync(l)
  <2>1. parallel_group[l] = l
    BY <1>2, <1>6, Zenon DEF Leads
  <2>2. l \in Q
    BY <1>1, <1>6, <2>1, Zenon DEF Role, Gone
  <2> QED BY <1>1, <1>2, <2>2, Zenon DEF Grouped
<1> QED BY <1>3, <1>4, <1>5, <1>6, Zenon DEF Publishing

\* More of what the invariant says of the variables alone.
LEMMA InMorePlaces == WriteInv /\ DataInv => MorePlaces
<1>1. SUFFICES ASSUME WriteInv, DataInv PROVE MorePlaces
  BY Zenon
<1>2. PICK s \in Seq(Writer) : \E M : Listed(s, M)
  BY <1>1, Zenon DEF WriteInv
<1>3. PICK M : Listed(s, M)
  BY <1>2, Zenon
<1>4. PICK Q, h : Q = OnList(s) /\ h = Lead(s)
  BY Zenon
<1>5. Types /\ Ends(Q, h) /\ Core(Q, h, M)
  BY <1>1, <1>3, <1>4, ListEnds, Zenon DEF Listed, WriteInv
<1>6. Grouped(Q, h, M) /\ \A x \in Writer : Role(x, Q, h, M)
  BY <1>5, Zenon DEF Core
<1>7. Places /\ GroupPlaces /\ \A l \in Writer : Leads(l)
  BY <1>1, InPlaces, Zenon DEF Places, DataInv, DataAt
<1>8. \A l, x \in Writer : x \in Members(group[l]) <=> <<x, l>> \in M
  <2>1. \A l, x \in Writer : <<x, l>> \in M <=> \E i \in 1..Len(group[l]) : group[l][i] = x
    BY <1>6, Zenon DEF Grouped
  <2> QED BY <2>1, Zenon DEF Members
<1>9. \A l \in Writer : Publishing(l) => l = h
  BY <1>5, <1>7, <1>8, PublisherLeads, Zenon
<1>10. ASSUME NEW x \in Writer, x \in Q, x # h
       PROVE  /\ pc[x] \in {"joined", "count", "wait", "unlink"} /\ parallel_group[x] # x
              /\ h \in Writer
              /\ pc[x] # "joined" => <<x, h>> \in M /\ Following(x, h, M)
  <2>1. h \in Writer
    BY <1>5, <1>10, Zenon DEF Ends
  <2>2. CASE <<x, h>> \in M
    BY <1>6, <1>10, <2>1, <2>2, WriterAssumption, SMTT(30) DEF Role, Following
  <2>3. CASE <<x, h>> \notin M
    BY <1>6, <1>10, <2>1, <2>3, WriterAssumption, SMTT(30) DEF Role, Waiting, Fresh
  <2> QED BY <2>2, <2>3, Zenon
<1>11. DistinctPlaces
  BY <1>6, Zenon DEF DistinctPlaces, Grouped
<1>12. PublishPlaces
  <2>1. \A l, k \in Writer : Publishing(l) /\ Publishing(k) => l = k
    BY <1>9, Zenon
  <2>2. ASSUME NEW t \in Writer, pc[t] = "unlink", NEW l \in Writer, Publishing(l) PROVE FALSE
    <3>1. l = h /\ pc[l] # "unlink"
      BY <1>9, <2>2, Zenon DEF Publishing
    <3>2. t \in Q /\ t # h
      BY <1>6, <2>2, <3>1, Zenon DEF Role, Gone
    <3>3. Following(t, h, M)
      BY <1>10, <2>2, <3>2, Zenon
    <3>4. /\ pc[h] = "wait" /\ ~NeedLogSync(h)
          /\ \A y \in Writer : <<y, h>> \in M /\ y # t => pc[y] = "wait"
      BY <2>2, <3>3, Zenon DEF Following
    <3>5. PICK x \in Members(group[l]) : Busy(x)
      BY <2>2, <3>1, <3>4, Zenon DEF Publishing
    <3>6. x \in Writer /\ <<x, h>> \in M
      BY <1>7, <1>8, <3>1, <3>5, Zenon DEF GroupPlaces
    <3>7. pc[x] \in {"wait", "unlink"}
      BY <2>2, <3>4, <3>6, Zenon
    <3> QED BY <3>5, <3>7, Zenon DEF Busy, Inserting
  <2>3. ASSUME NEW t \in Writer, pc[t] = "complete"
        PROVE  ~Publishing(Led(t)) /\ (t # Led(t) => ~NeedLogSync(Led(t)))
    <3>1. Exits(t, Q, M)
      BY <1>5, <2>3, Zenon DEF Core, Exiting
    <3>2. PICK l : l = Led(t)
      BY Zenon
    <3>3. l \in Writer /\ l \notin Q /\ (t # l => pc[l] = "wait" /\ parallel_group[l] = l)
      BY <3>1, <3>2, Zenon DEF Exits
    <3>4. t # l => ~NeedLogSync(l)
      BY <1>6, <3>3, Zenon DEF Role, Gone
    <3>5. l # h
      BY <1>5, <3>3, WriterAssumption, Zenon DEF Ends
    <3> QED BY <1>9, <3>2, <3>3, <3>4, <3>5, Zenon
  <2> QED BY <2>1, <2>2, <2>3, Zenon DEF PublishPlaces
<1>13. CursorPlaces
  <2>1. SUFFICES ASSUME NEW w \in Writer, pc[w] = "launch", cursor[w] # Null
                 PROVE  \E c \in 1..(Len(group[w]) - 1) :
                          /\ cursor[w] = group[w][c] /\ link_newer[cursor[w]] = group[w][c + 1]
                          /\ parallel_group[cursor[w]] = w
    BY Zenon DEF CursorPlaces
  <2>2. w = h /\ w \in Q /\ Leading(w)
    BY <1>5, <2>1, LeaderAtWork, Zenon
  <2>3. parallel_group[h] = h
    BY <1>5, <2>1, <2>2, Zenon DEF Core, Leading, Launching
  <2>4. PICK c \in 1..(Len(group[h]) - 1) :
           /\ cursor[h] = group[h][c]
           /\ \A i \in 1..Len(group[h]) : parallel_group[group[h][i]] = IF i <= c THEN h ELSE Null
    BY <1>5, <2>1, <2>2, <2>3, Zenon DEF Core, Launching
  <2>5. group[h] \in Seq(Writer)
    BY <1>5, <2>2, ZenonT(40) DEF Types
  <2>6. c \in 1..Len(group[h]) /\ c <= c
    BY <2>4, <2>5, SMTT(30)
  <2>7. parallel_group[group[h][c]] = h
    BY <2>4, <2>6, Zenon
  <2>8. link_newer[group[h][c]] = group[h][c + 1]
    <3>1. \A i \in 1..(Len(group[h]) - 1) : link_newer[group[h][i]] = group[h][i + 1]
      BY <1>6, <2>2, ZenonT(40) DEF Grouped
    <3> QED BY <2>4, <3>1, Zenon
  <2> QED BY <2>2, <2>4, <2>7, <2>8, Zenon
<1>14. StatusPlaces
  <2>1. ASSUME NEW x \in Writer, pc[x] = "apply" PROVE status[x] = "ok"
    <3>1. Leading(x)
      BY <1>5, <2>1, LeaderAtWork, Zenon
    <3> QED BY <2>1, <3>1, Zenon DEF Leading
  <2>2. ASSUME NEW x \in Writer, pc[x] = "wait", parallel_group[x] = x, pgStatus[x] = "ok"
        PROVE  status[x] = "ok"
    <3>1. x = h \/ x \notin Q
      BY <1>10, <2>2, Zenon
    <3>2. CASE x = h
      BY <1>6, <2>2, <3>2, Zenon DEF Role, Leading
    <3>3. CASE x \notin Q
      BY <1>6, <2>2, <3>3, Zenon DEF Role, Gone
    <3> QED BY <3>1, <3>2, <3>3, Zenon
  <2>3. \A x \in Writer : pgStatus[x] = "fail" => "insert" \in failed
    BY <1>6, Zenon DEF Role
  <2> QED BY <2>1, <2>2, <2>3, Zenon DEF StatusPlaces
<1>15. \A x \in Writer : Busy(x) => InParallelGroup(x, Q, h, M)
  <2>1. \A x \in Writer : Busy(x) => \/ pc[x] \in {"insert", "count"}
                                     \/ pc[x] = "joined" /\ state[x] = "PARALLEL_FOLLOWER"
    BY Zenon DEF Busy, Inserting
  <2> QED BY <1>5, <2>1, InParallel, Zenon
<1>16. WakePlaces
  <2>1. \A x \in Writer : Busy(x) =>
          /\ state[parallel_group[x]] # "COMPLETED"
          /\ pc[parallel_group[x]] \in {"launch", "insert", "count", "wait"}
    BY <1>15, Zenon DEF InParallelGroup
  <2>2. ASSUME NEW w \in Writer, pc[w] = "wait", parallel_group[w] = w, state[w] = "COMPLETED",
               NeedLogSync(w), NEW y \in Members(group[w])
        PROVE  parallel_group[y] = w /\ pc[y] = "wait"
    <3>1. w \in Q
      BY <1>6, <2>2, Zenon DEF Role, Gone
    <3>2. w = h
      BY <1>10, <2>2, <3>1, Zenon
    <3>3. y \in Writer /\ <<y, h>> \in M
      BY <1>7, <1>8, <2>2, <3>2, Zenon DEF GroupPlaces
    <3>4. CASE y = h
      BY <2>2, <3>2, <3>4, Zenon
    <3>5. CASE y # h
      <4>1. Following(y, h, M)
        BY <1>6, <3>3, <3>5, Zenon DEF Role
      <4> QED BY <2>2, <3>2, <4>1, WriterAssumption, SMTT(30) DEF Following
    <3> QED BY <3>4, <3>5, Zenon
  <2> QED BY <2>1, <2>2, Zenon DEF WakePlaces
<1>17. CountPlaces
  <2>1. SUFFICES ASSUME NEW w \in Writer, pc[w] = "count", running[Leader(w)] > 1
                 PROVE  \E y \in Members(group[Leader(w)]) \ {w} :
                          Busy(y) \/ (y = Leader(w) /\ pc[y] = "launch")
    BY Zenon DEF CountPlaces
  <2>2. Busy(w)
    BY <2>1, Zenon DEF Busy
  <2>3. InParallelGroup(w, Q, h, M)
    BY <1>15, <2>1, <2>2, Zenon
  <2>4. /\ h \in Writer /\ Leader(w) = h /\ parallel_group[h] = h /\ <<w, h>> \in M
        /\ <<h, h>> \in M /\ pc[h] \in {"launch", "insert", "count", "wait"}
    BY <2>3, Zenon DEF InParallelGroup, Leader
  <2>5. w \in Pending(h, M)
    BY <2>1, <2>4, Zenon DEF Pending
  <2>6. Counts(running[h], Pending(h, M))
    BY <1>5, <2>4, <2>5, Zenon DEF Core, Counting
  <2>7. running[h] \in Nat /\ running[h] > 1
    BY <1>5, <2>1, <2>4, SMTT(30) DEF Types
  <2>8. PICK n, S : n = running[h] /\ S = Pending(h, M)
    BY Zenon
  <2>9. PICK q \in [1..n -> S] : \A i, j \in 1..n : q[i] = q[j] => i = j
    <3>1. Counts(n, S)
      BY <2>6, <2>8, Zenon
    <3> QED BY <3>1, Zenon DEF Counts
  <2>10. q[1] \in S /\ q[2] \in S /\ q[1] # q[2]
    BY <2>7, <2>8, <2>9, SMTT(30)
  <2>11. PICK y \in S : y # w
    BY <2>10, Zenon
  <2>12. /\ y \in Writer /\ <<y, h>> \in M /\ y # w
         /\ pc[y] \in {"joined", "launch", "insert", "count"}
    BY <2>8, <2>11, Zenon DEF Pending
  <2>13. y \in Members(group[h]) /\ h \in Members(group[h])
    BY <1>8, <2>4, <2>12, Zenon
  <2>14. CASE pc[h] = "launch"
    BY <2>1, <2>4, <2>13, <2>14, Zenon
  <2>15. CASE pc[h] # "launch"
    <3>1. CASE y = h
      <4>1. pc[y] \in {"insert", "count"}
        BY <2>4, <2>12, <2>15, <3>1, SMTT(30)
      <4>2. Busy(y)
        BY <4>1, Zenon DEF Busy, Inserting
      <4> QED BY <2>4, <2>12, <2>13, <4>2, Zenon
    <3>2. CASE y # h
      <4>1. Following(y, h, M)
        BY <1>6, <2>12, <3>2, Zenon DEF Role
      <4>2. Busy(y)
        BY <2>4, <2>12, <2>15, <4>1, WriterAssumption, SMTT(30) DEF Following, Busy, Inserting
      <4> QED BY <2>4, <2>12, <2>13, <4>2, Zenon
    <3> QED BY <3>1, <3>2, Zenon
  <2> QED BY <2>14, <2>15, Zenon
<1> QED BY <1>11, <1>12, <1>13, <1>14, <1>16, <1>17, SMTT(30) DEF MorePlaces
=============================================================================
