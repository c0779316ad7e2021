----------------------------- MODULE LeafStore -----------------------------
(***************************************************************************)
(* ScreeDBTree (utilities/screedb/screedb.cc) at the level of its leaves:  *)
(* the persistent leaves and open/close counters of the pool, the volatile *)
(* leaf nodes, and every operation of the tree with its transaction.       *)
(*                                                                         *)
(* The inner nodes are abstracted to the map they compute, from the        *)
(* C string of a key to the leaf node that LeafSearch returns; module      *)
(* ScreeDBTree has the nodes and is checked to implement this one.         *)
(*                                                                         *)
(* Each operation runs one NVML transaction.  A crash before it commits    *)
(* leaves the pool as it was, and a crash after it leaves it as the        *)
(* operation does; either way the volatile state is gone.  So an operation *)
(* is one step, and Crash is a step of its own.  An exception that aborts  *)
(* a transaction and that nobody catches ends the process: also Crash.     *)
(***************************************************************************)
EXTENDS Leaf

CONSTANTS PoolLeaves,   \* leaves that fit in the pool (bounds the model)
          MaxOpened     \* bounds the counter "opened"

ASSUME BoundsAssumption == PoolLeaves \in Nat /\ MaxOpened \in Nat

VARIABLES
  leaves,     \* persistent: the leaf objects, by order of allocation
  count,      \* persistent: leaves 1..count are on the list at root->head
  opened,     \* persistent: root->opened
  closed,     \* persistent: root->closed
  isOpen,     \* volatile: a ScreeDBTree is constructed
  cache,      \* volatile: hashes of the leaf nodes
  owner       \* volatile: what LeafSearch returns for a string, 0 is nullptr

persistent == <<leaves, count, opened, closed>>
volatile == <<isOpen, cache, owner>>
vars == <<leaves, count, opened, closed, isOpen, cache, owner>>

LeafId == 1..PoolLeaves
KeyStr == {CStr[k] : k \in Key}

\* State of a pool with no tree on it: nothing volatile is left.
NoCache == [l \in LeafId |-> NoHashes]
NoOwner == [x \in KeyStr |-> 0]

LeafSearch(k) == owner[CStr[k]]

Node(l) == [hashes |-> cache[l], leaf |-> leaves[l]]

TypeOK ==
  /\ leaves \in [LeafId -> PersistentLeaf]
  /\ count \in 0..PoolLeaves
  /\ opened \in 0..MaxOpened
  /\ closed \in Nat
  /\ isOpen \in BOOLEAN
  /\ cache \in [LeafId -> Hashes]
  /\ owner \in [KeyStr -> 0..count]

Init ==
  /\ leaves = [l \in LeafId |-> NewLeaf]
  /\ count = 0
  /\ opened = 0
  /\ closed = 0
  /\ isOpen = FALSE
  /\ cache = NoCache
  /\ owner = NoOwner

-----------------------------------------------------------------------------
(***************************************************************************)
(* Opening: the constructor, Recover and RebuildNodes.                     *)
(***************************************************************************)
\* Leaves RebuildNodes keeps.  One with no key in use gets no node in the tree.
Recovered == {l \in 1..count : UsedSlots(leaves[l].hashes) # {}}

\* The recovered leaves in ascending order of their highest key, each but the
\* last under that key as separator: a string is searched for in the first
\* leaf whose highest key is not below it, or else in the last leaf.
RebuildNodes ==
  LET high   == [l \in Recovered |-> MaxKey(leaves[l])]
      Reaches(x) == {l \in Recovered : x <= high[l]}
      First(S) == CHOOSE l \in S : \A m \in S : high[l] <= high[m]
      Last(S) == CHOOSE l \in S : \A m \in S : high[m] <= high[l]
  IN  [x \in KeyStr |-> IF Recovered = {} THEN 0
                        ELSE IF Reaches(x) # {} THEN First(Reaches(x))
                        ELSE Last(Recovered)]

\* Recover finds no head leaf: counters are set as for a first open.
OpenEmpty ==
  /\ ~isOpen
  /\ count = 0
  /\ MaxOpened > 0
  /\ opened' = 1
  /\ closed' = 0
  /\ isOpen' = TRUE
  /\ UNCHANGED <<leaves, count, cache, owner>>

OpenExisting ==
  /\ ~isOpen
  /\ count > 0
  /\ opened < MaxOpened
  /\ opened' = opened + 1
  /\ isOpen' = TRUE
  /\ cache' = [l \in LeafId |-> IF l \in Recovered THEN leaves[l].hashes
                                ELSE NoHashes]
  /\ owner' = RebuildNodes
  /\ UNCHANGED <<leaves, count, closed>>

-----------------------------------------------------------------------------
(***************************************************************************)
(* Put, by the leaf node LeafSearch finds.                                 *)
(***************************************************************************)
\* No tree yet: a leaf with the entry in slot 0 becomes head and top node.
PutFirst(k, v) ==
  LET l    == count + 1
      node == LeafFillSpecificSlot(NewLeafNode, k, v, 0)
  IN  /\ isOpen
      /\ LeafSearch(k) = 0
      /\ count < PoolLeaves
      /\ leaves' = [leaves EXCEPT ![l] = node.leaf]
      /\ cache' = [cache EXCEPT ![l] = node.hashes]
      /\ count' = l
      /\ owner' = [x \in KeyStr |-> l]
      /\ UNCHANGED <<opened, closed, isOpen>>

PutInLeaf(k, v) ==
  LET l    == LeafSearch(k)
      node == LeafFillSlotForKey(Node(l), k, v)
  IN  /\ isOpen
      /\ l # 0
      /\ HasSlotForKey(Node(l), k)
      /\ leaves' = [leaves EXCEPT ![l] = node.leaf]
      /\ cache' = [cache EXCEPT ![l] = node.hashes]
      /\ UNCHANGED <<count, opened, closed, isOpen, owner>>

\* LeafSplit and LeafUpdateParentsAfterSplit: the new leaf becomes head of the
\* list, and the strings above the split key are searched for in it.
PutSplit(k, v) ==
  LET l     == LeafSearch(k)
      new   == count + 1
      split == SplitKey(Node(l), k)
      nodes == LeafSplit(Node(l), k, v)
  IN  /\ isOpen
      /\ l # 0
      /\ ~HasSlotForKey(Node(l), k)
      /\ count < PoolLeaves
      /\ leaves' = [leaves EXCEPT ![l] = nodes.low.leaf, ![new] = nodes.high.leaf]
      /\ cache' = [cache EXCEPT ![l] = nodes.low.hashes, ![new] = nodes.high.hashes]
      /\ count' = new
      /\ owner' = [x \in KeyStr |-> IF owner[x] = l /\ x > split THEN new
                                    ELSE owner[x]]
      /\ UNCHANGED <<opened, closed, isOpen>>

Put(k, v) == PutFirst(k, v) \/ PutInLeaf(k, v) \/ PutSplit(k, v)

\* Delete.  With no tree, or no such key, it changes nothing.
Delete(k) ==
  LET l    == LeafSearch(k)
      node == LeafDelete(Node(l), k)
  IN  /\ isOpen
      /\ l # 0
      /\ leaves' = [leaves EXCEPT ![l] = node.leaf]
      /\ cache' = [cache EXCEPT ![l] = node.hashes]
      /\ UNCHANGED <<count, opened, closed, isOpen, owner>>

\* Get: the value's C string, or None for Status::NotFound.
Get(k) ==
  IF LeafSearch(k) = 0 THEN None ELSE LeafGet(Node(LeafSearch(k)), k)

-----------------------------------------------------------------------------
LoseVolatile ==
  /\ isOpen' = FALSE
  /\ cache' = NoCache
  /\ owner' = NoOwner

\* The destructor: Shutdown, then the pool is closed.
Close ==
  /\ isOpen
  /\ closed' = closed + 1
  /\ LoseVolatile
  /\ UNCHANGED <<leaves, count, opened>>

Crash ==
  /\ isOpen
  /\ LoseVolatile
  /\ UNCHANGED persistent

Next ==
  \/ OpenEmpty
  \/ OpenExisting
  \/ \E k \in Key, v \in Val : Put(k, v)
  \/ \E k \in Key : Delete(k)
  \/ Close
  \/ Crash

Spec == Init /\ [][Next]_vars

-----------------------------------------------------------------------------
(***************************************************************************)
(* Correctness.                                                            *)
(***************************************************************************)
\* The entries of the pool: a leaf and a slot in use.
Entries == {e \in (1..count) \X Slot : leaves[e[1]].hashes[e[2]] # 0}

EntryKey(e) == leaves[e[1]].kv_keys[e[2]]
EntryHash(e) == leaves[e[1]].hashes[e[2]]
EntryValue(e) == leaves[e[1]].kv_values[e[2]]

\* What the pool itself says of a key, with no tree on it.
EntriesOf(k) == {e \in Entries : EntryKey(e) = CStr[k] /\ EntryHash(e) = PearsonHash[k]}
Contents ==
  [k \in Key |-> IF EntriesOf(k) = {} THEN None
                 ELSE EntryValue(CHOOSE e \in EntriesOf(k) : TRUE)]

\* Keys with no NUL inside: their C strings tell them apart.
DistinctKeys == \A j, k \in Key : CStr[j] = CStr[k] => j = k

\* Volatile hashes agree with the persistent ones in every leaf on the list
\* (README: "ScreeDB additionally caches this array of key hashes in DRAM").
CacheCoherent ==
  isOpen => \A l \in 1..count : cache[l] = leaves[l].hashes

\* The comment "no duplicate keys allowed" in Delete and LeafFillSlotForKey:
\* a C string is the key of at most one slot of the whole pool.
NoDuplicateKeys ==
  \A e, f \in Entries : EntryKey(e) = EntryKey(f) => e = f

\* Every entry is in the leaf that LeafSearch finds for its key, so that no
\* key is out of reach of Get, Put and Delete, whatever was split, dropped as
\* empty or rebuilt before.
EveryEntryReachable ==
  isOpen => \A e \in Entries : owner[EntryKey(e)] = e[1]

\* Leaves hold disjoint ranges of keys, open or not: sorting leaves by their
\* highest key, as RebuildNodes does, rebuilds a search tree only then.
DisjointRanges ==
  \A d, e, f \in Entries :
     d[1] = f[1] /\ EntryKey(d) < EntryKey(e) /\ EntryKey(e) < EntryKey(f)
        => e[1] = d[1]

\* A search sends an interval of strings to each leaf, and finds no leaf for one
\* string only if it finds none for any: what LeafUpdateParentsAfterSplit and
\* RebuildNodes build is a search tree, or nothing.
OwnerIntervals ==
  isOpen => \A x, y, z \in KeyStr :
              /\ x < y /\ y < z /\ owner[x] = owner[z] => owner[y] = owner[x]
              /\ owner[x] = 0 => owner[y] = 0

\* A slot in use has the hash of the key it holds, though a slot keeps its
\* string when it is emptied or moved out of: the scans, which look at hashes
\* first, miss no key and find no stale one.
KeysHashed ==
  \A e \in Entries :
     \E k \in Key : EntryKey(e) = CStr[k] /\ EntryHash(e) = PearsonHash[k]

\* On an open tree Get answers for every key what the pool holds.
GetReadsContents ==
  isOpen => \A k \in Key : Get(k) = Contents[k]

\* Put's comment: "Set the database entry for "key" to "value".  If "key" already
\* exists, it will be overwritten."  The pool has the entry when the step ends,
\* and the entry of every other key is what it was.
PutTakesEffect ==
  [][\A k \in Key, v \in Val :
       Put(k, v) => Contents' = [Contents EXCEPT ![k] = CStr[v]]]_vars

\* Delete's comment: "Remove the database entry (if any) for "key"."
DeleteTakesEffect ==
  [][\A k \in Key : Delete(k) => Contents' = [Contents EXCEPT ![k] = None]]_vars

\* The counters: a tree that is open has been opened more often than closed,
\* so an unequal pair found by Recover tells of an unsafe shutdown.
CountersOrdered == closed <= opened /\ (isOpen => closed < opened)

\* ScreeDBTree is a durable map: its steps are those of KVStore.
Store == INSTANCE KVStore WITH Value <- {CStr[v] : v \in Val}, kv <- Contents
ImplementsKVStore == Store!Spec
=============================================================================
