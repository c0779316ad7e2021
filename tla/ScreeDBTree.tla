---------------------------- MODULE ScreeDBTree ----------------------------
(***************************************************************************)
(* ScreeDBTree (utilities/screedb/screedb.cc) with its nodes: the linked   *)
(* list of persistent leaves, the volatile B+ tree over it, and the        *)
(* operations of the tree.  LeafUpdateParentsAfterSplit and RebuildNodes   *)
(* run a step at a time, so a crash may come between any two of them.      *)
(***************************************************************************)
EXTENDS Leaf, InnerNode

CONSTANTS PoolLeaves,   \* leaves that fit in the pool (bounds the model)
          MaxOpened     \* bounds the counter "opened"

VARIABLES
  leaves,     \* persistent: the leaf objects, named by order of allocation
  next,       \* persistent: leaf->next, 0 is nullptr
  head,       \* persistent: root->head
  opened,     \* persistent: root->opened
  closed,     \* persistent: root->closed
  phase,      \* "closed", "rebuilding" (inside Recover) or "open"
  cache,      \* volatile: hashes of the leaf nodes
  inner,      \* volatile: the inner nodes allocated so far, their keys and children
  parent,     \* volatile: parent of every node, 0 is nullptr
  top,        \* volatile: top_
  todo,       \* RebuildNodes: the leaves still in its list
  update      \* pending call of LeafUpdateParentsAfterSplit, or NoUpdate

persistent == <<leaves, next, head, opened, closed>>
volatile == <<phase, cache, inner, parent, top, todo, update>>
vars == <<leaves, next, head, opened, closed,
          phase, cache, inner, parent, top, todo, update>>

LeafId == 1..PoolLeaves
KeyStr == {CStr[k] : k \in Key}

\* A leaf node has the name of its leaf; the i-th inner node is PoolLeaves + i.
\* A tree over n leaves has fewer than n inner nodes.
InnerName(i) == PoolLeaves + i
NodeName == 1..(2 * PoolLeaves)
IsLeaf(n) == n <= PoolLeaves
Inner(n) == inner[n - PoolLeaves]

NoUpdate == [node |-> 0, newNode |-> 0, splitKey |-> 0]
NoCache == [l \in LeafId |-> NoHashes]
NoParents == [n \in NodeName |-> 0]

LoseVolatile ==
  /\ phase' = "closed"
  /\ cache' = NoCache
  /\ inner' = <<>>
  /\ parent' = NoParents
  /\ top' = 0
  /\ todo' = <<>>
  /\ update' = NoUpdate

Init ==
  /\ leaves = [l \in LeafId |-> NewLeaf]
  /\ next = [l \in LeafId |-> 0]
  /\ head = 0
  /\ opened = 0
  /\ closed = 0
  /\ phase = "closed"
  /\ cache = NoCache
  /\ inner = <<>>
  /\ parent = NoParents
  /\ top = 0
  /\ todo = <<>>
  /\ update = NoUpdate

\* The tree is open and no call is inside LeafUpdateParentsAfterSplit.
Idle == phase = "open" /\ update = NoUpdate

-----------------------------------------------------------------------------
(***************************************************************************)
(* Search.                                                                 *)
(***************************************************************************)
RECURSIVE SearchFrom(_, _)
SearchFrom(n, x) ==
  IF n = 0 \/ IsLeaf(n) THEN n ELSE SearchFrom(ChildFor(Inner(n), x), x)

LeafSearch(k) == SearchFrom(top, CStr[k])

Node(l) == [hashes |-> cache[l], leaf |-> leaves[l]]

Get(k) ==
  IF LeafSearch(k) = 0 THEN None ELSE LeafGet(Node(LeafSearch(k)), k)

-----------------------------------------------------------------------------
(***************************************************************************)
(* One call of LeafUpdateParentsAfterSplit(node, new_node, split_key).     *)
(***************************************************************************)
\* The node has no parent: a new top node over the two.
NewTop ==
  LET name == InnerName(Len(inner) + 1)
  IN  /\ update # NoUpdate
      /\ parent[update.node] = 0
      /\ inner' = Append(inner, [keys     |-> <<update.splitKey>>,
                                 children |-> <<update.node, update.newNode>>])
      /\ parent' = [parent EXCEPT ![update.node] = name, ![update.newNode] = name]
      /\ top' = name
      /\ update' = NoUpdate
      /\ UNCHANGED <<persistent, phase, cache, todo>>

\* The parent takes the new node, ...
InsertIntoParent ==
  LET name == parent[update.node]
      full == InsertChild(Inner(name), update.splitKey, update.newNode)
  IN  /\ update # NoUpdate
      /\ name # 0
      /\ ~Overfull(full)
      /\ inner' = [inner EXCEPT ![name - PoolLeaves] = full]
      /\ update' = NoUpdate
      /\ UNCHANGED <<persistent, phase, cache, parent, top, todo>>

\* ... and is cut when that makes it overfull, which its own parent must learn.
SplitParent ==
  LET name  == parent[update.node]
      full  == InsertChild(Inner(name), update.splitKey, update.newNode)
      upper == InnerName(Len(inner) + 1)
  IN  /\ update # NoUpdate
      /\ name # 0
      /\ Overfull(full)
      /\ inner' = Append([inner EXCEPT ![name - PoolLeaves] = LowerInner(full)],
                         UpperInner(full))
      /\ parent' = [n \in NodeName |->
                      IF n = upper THEN parent[name]
                      ELSE IF n \in ToSet(UpperInner(full).children) THEN upper
                      ELSE parent[n]]
      /\ update' = [node |-> name, newNode |-> upper, splitKey |-> MiddleKey(full)]
      /\ UNCHANGED <<persistent, phase, cache, top, todo>>

-----------------------------------------------------------------------------
(***************************************************************************)
(* Opening: the constructor, Recover and RebuildNodes.                     *)
(***************************************************************************)
RECURSIVE ListFrom(_)
ListFrom(l) == IF l = 0 THEN <<>> ELSE <<l>> \o ListFrom(next[l])

\* The leaves on the list that have a key in use, by their highest key.  (No
\* two have the same: NoDuplicateKeys of LeafStore.)
RecoveredLeaves ==
  LET used == {l \in ToSet(ListFrom(head)) : UsedSlots(leaves[l].hashes) # {}}
      Before(l) == {m \in used : MaxKey(leaves[m]) < MaxKey(leaves[l])}
  IN  [i \in 1..Cardinality(used) |->
         CHOOSE l \in used : Cardinality(Before(l)) = i - 1]

OpenEmpty ==
  /\ phase = "closed"
  /\ head = 0
  /\ MaxOpened > 0
  /\ opened' = 1
  /\ closed' = 0
  /\ phase' = "open"
  /\ UNCHANGED <<leaves, next, head, cache, inner, parent, top, todo, update>>

RebuildStart ==
  /\ phase = "closed"
  /\ head # 0
  /\ opened < MaxOpened
  /\ phase' = "rebuilding"
  /\ todo' = RecoveredLeaves
  /\ cache' = [l \in LeafId |-> IF l \in ToSet(RecoveredLeaves)
                                THEN leaves[l].hashes ELSE NoHashes]
  /\ UNCHANGED <<persistent, inner, parent, top, update>>

\* (Faulty variant: a leaf leaves the list only when another follows it.)
RebuildKeepsLast ==
  /\ phase = "rebuilding"
  /\ update = NoUpdate
  /\ todo # <<>>
  /\ LET l == Head(todo)
     IN  /\ top' = IF top = 0 THEN l ELSE top
         /\ IF Len(todo) = 1 THEN UNCHANGED <<todo, parent, update>>
            ELSE /\ todo' = Tail(todo)
                 /\ parent' = [parent EXCEPT ![todo[2]] = parent[l]]
                 /\ update' = [node |-> l, newNode |-> todo[2],
                               splitKey |-> MaxKey(leaves[l])]
  /\ UNCHANGED <<persistent, phase, cache, inner>>

\* One turn of the loop over the list: the leaf in front, and its successor.
RebuildStep ==
  /\ phase = "rebuilding"
  /\ update = NoUpdate
  /\ todo # <<>>
  /\ LET l == Head(todo)
     IN  /\ top' = IF top = 0 THEN l ELSE top
         /\ todo' = Tail(todo)
         /\ IF Len(todo) = 1 THEN UNCHANGED <<parent, update>>
            ELSE /\ parent' = [parent EXCEPT ![todo[2]] = parent[l]]
                 /\ update' = [node |-> l, newNode |-> todo[2],
                               splitKey |-> MaxKey(leaves[l])]
  /\ UNCHANGED <<persistent, phase, cache, inner>>

RebuildDone ==
  /\ phase = "rebuilding"
  /\ update = NoUpdate
  /\ todo = <<>>
  /\ opened' = opened + 1
  /\ phase' = "open"
  /\ UNCHANGED <<leaves, next, head, closed, cache, inner, parent, top, todo, update>>

-----------------------------------------------------------------------------
(***************************************************************************)
(* Put, by the leaf node LeafSearch finds.                                 *)
(***************************************************************************)
PutFirst(k, v) ==
  LET l    == head + 1
      node == LeafFillSpecificSlot(NewLeafNode, k, v, 0)
  IN  /\ Idle
      /\ top = 0
      /\ l <= PoolLeaves
      /\ leaves' = [leaves EXCEPT ![l] = node.leaf]
      /\ next' = [next EXCEPT ![l] = head]
      /\ head' = l
      /\ cache' = [cache EXCEPT ![l] = node.hashes]
      /\ top' = l
      /\ UNCHANGED <<opened, closed, phase, inner, parent, todo, update>>

PutInLeaf(k, v) ==
  LET l    == LeafSearch(k)
      node == LeafFillSlotForKey(Node(l), k, v)
  IN  /\ Idle
      /\ top # 0
      /\ HasSlotForKey(Node(l), k)
      /\ leaves' = [leaves EXCEPT ![l] = node.leaf]
      /\ cache' = [cache EXCEPT ![l] = node.hashes]
      /\ UNCHANGED <<next, head, opened, closed, phase, inner, parent, top, todo, update>>

\* (Faulty variant: new_leaf->next is not set.)
PutSplitNotLinked(k, v) ==
  LET l     == LeafSearch(k)
      new   == head + 1
      nodes == LeafSplit(Node(l), k, v)
  IN  /\ Idle
      /\ top # 0
      /\ ~HasSlotForKey(Node(l), k)
      /\ new <= PoolLeaves
      /\ leaves' = [leaves EXCEPT ![l] = nodes.low.leaf, ![new] = nodes.high.leaf]
      /\ cache' = [cache EXCEPT ![l] = nodes.low.hashes, ![new] = nodes.high.hashes]
      /\ head' = new
      /\ parent' = [parent EXCEPT ![new] = parent[l]]
      /\ update' = [node |-> l, newNode |-> new, splitKey |-> SplitKey(Node(l), k)]
      /\ UNCHANGED <<next, opened, closed, phase, inner, top, todo>>

\* LeafSplit, up to its call of LeafUpdateParentsAfterSplit.
PutSplit(k, v) ==
  LET l     == LeafSearch(k)
      new   == head + 1
      nodes == LeafSplit(Node(l), k, v)
  IN  /\ Idle
      /\ top # 0
      /\ ~HasSlotForKey(Node(l), k)
      /\ new <= PoolLeaves
      /\ leaves' = [leaves EXCEPT ![l] = nodes.low.leaf, ![new] = nodes.high.leaf]
      /\ cache' = [cache EXCEPT ![l] = nodes.low.hashes, ![new] = nodes.high.hashes]
      /\ next' = [next EXCEPT ![new] = head]
      /\ head' = new
      /\ parent' = [parent EXCEPT ![new] = parent[l]]
      /\ update' = [node |-> l, newNode |-> new, splitKey |-> SplitKey(Node(l), k)]
      /\ UNCHANGED <<opened, closed, phase, inner, top, todo>>

Delete(k) ==
  LET l    == LeafSearch(k)
      node == LeafDelete(Node(l), k)
  IN  /\ Idle
      /\ top # 0
      /\ leaves' = [leaves EXCEPT ![l] = node.leaf]
      /\ cache' = [cache EXCEPT ![l] = node.hashes]
      /\ UNCHANGED <<next, head, opened, closed, phase, inner, parent, top, todo, update>>

Close ==
  /\ Idle
  /\ closed' = closed + 1
  /\ LoseVolatile
  /\ UNCHANGED <<leaves, next, head, opened>>

Crash ==
  /\ phase # "closed"
  /\ LoseVolatile
  /\ UNCHANGED persistent

\* The steps of a call that has started: they need no further call to be taken.
Progress ==
  NewTop \/ InsertIntoParent \/ SplitParent \/ RebuildStep \/ RebuildDone

Next ==
  \/ OpenEmpty
  \/ RebuildStart
  \/ Progress
  \/ \E k \in Key, v \in Val :
        PutFirst(k, v) \/ PutInLeaf(k, v) \/ PutSplit(k, v)
  \/ \E k \in Key : Delete(k)
  \/ Close
  \/ Crash

Spec == Init /\ [][Next]_vars /\ WF_vars(Progress)

-----------------------------------------------------------------------------
(***************************************************************************)
(* Correctness.                                                            *)
(***************************************************************************)
RECURSIVE Subtree(_)
Subtree(n) ==
  IF IsLeaf(n) THEN {n}
  ELSE {n} \cup UNION {Subtree(c) : c \in ToSet(Inner(n).children)}

RECURSIVE Depth(_)
Depth(n) == IF parent[n] = 0 THEN 0 ELSE 1 + Depth(parent[n])

\* Between calls the nodes form a B+ tree: every child knows its parent, an
\* inner node has one child more than keys, in strictly ascending order, and
\* no more than INNER_KEYS; all but the top are at least half full; all leaf
\* nodes are equally deep.  (LeafUpdateParentsAfterSplit, RebuildNodes.)
BalancedTree ==
  Idle /\ top # 0 =>
    LET nodes == Subtree(top)
    IN  /\ parent[top] = 0
        /\ \A n \in {m \in nodes : ~IsLeaf(m)} :
             LET in == Inner(n)
             IN  /\ Len(in.children) = Len(in.keys) + 1
                 /\ Len(in.keys) \in (IF n = top THEN 1 ELSE INNER_KEYS_MIDPOINT)..INNER_KEYS
                 /\ \A i \in 1..(Len(in.keys) - 1) : in.keys[i] < in.keys[i + 1]
                 /\ \A i \in 1..Len(in.children) : parent[in.children[i]] = n
        /\ \A n, m \in {l \in nodes : IsLeaf(l)} : Depth(n) = Depth(m)

\* No leaf with a key in use is left out of the tree, and none is in it twice:
\* the leaf nodes of an open tree are distinct leaves of the list.
LeavesInTree ==
  Idle =>
    LET list == ListFrom(head)
        inTree == IF top = 0 THEN {} ELSE {n \in Subtree(top) : IsLeaf(n)}
    IN  /\ inTree \subseteq ToSet(list)
        /\ Cardinality(ToSet(list)) = Len(list)
        /\ \A l \in LeafId \ inTree : UsedSlots(leaves[l].hashes) = {}

\* Every call ends: the recursion up the tree, and the rebuilding of the tree
\* when a pool is opened, stop unless the process does.
CallsEnd ==
  /\ (update # NoUpdate) ~> (update = NoUpdate)
  /\ (phase = "rebuilding") ~> (phase # "rebuilding")

\* What a search from the top will find once the pending calls are done: a
\* string above the split key is in the new node, not in the old one.
RECURSIVE OwnerFrom(_, _)
OwnerFrom(n, x) ==
  LET m == IF n = update.node /\ x > update.splitKey THEN update.newNode ELSE n
  IN  IF n = 0 \/ IsLeaf(m) THEN m ELSE OwnerFrom(ChildFor(Inner(m), x), x)

\* The tree implements LeafStore: its inner nodes compute the map "owner".
Store ==
  INSTANCE LeafStore WITH
    count  <- Len(ListFrom(head)),
    isOpen <- phase = "open",
    cache  <- IF phase = "open" THEN cache ELSE NoCache,
    owner  <- [x \in KeyStr |-> IF phase = "open" /\ top # 0 THEN OwnerFrom(top, x) ELSE 0]
ImplementsLeafStore == Store!Spec
=============================================================================
