--------------------- MODULE LeafStoreRefinementProofs ----------------------
(***************************************************************************)
(* No key is ever stored twice, in the wrong leaf or out of reach, and Get *)
(* reads what the pool holds; Put and Delete do to the map from keys to    *)
(* values what they promise, and nothing else changes it: LeafStore        *)
(* implements KVStore.  For every set of keys whose C strings are          *)
(* distinct, every hash function, every number of slots and of leaves.     *)
(***************************************************************************)
EXTENDS ScreeDBProofs

(***************************************************************************)
(* The inductive invariant, on leaves l, m and slots r, s, t.              *)
(***************************************************************************)
InUse(l, s) == leaves[l].hashes[s] # 0
KeyAt(l, s) == leaves[l].kv_keys[s]

Hashed ==
  \A l \in 1..count, s \in Slot :
     InUse(l, s) => \E k \in Key : /\ KeyAt(l, s) = CStr[k]
                                   /\ leaves[l].hashes[s] = PearsonHash[k]

UniqueKeys ==
  \A l, m \in 1..count, s, t \in Slot :
     InUse(l, s) /\ InUse(m, t) /\ KeyAt(l, s) = KeyAt(m, t) => l = m /\ s = t

Reachable ==
  isOpen => \A l \in 1..count, s \in Slot : InUse(l, s) => owner[KeyAt(l, s)] = l

Ranges ==
  \A l, m \in 1..count, r, s, t \in Slot :
     InUse(l, r) /\ InUse(m, s) /\ InUse(l, t)
        => (KeyAt(l, r) < KeyAt(m, s) /\ KeyAt(m, s) < KeyAt(l, t) => m = l)

\* While the tree is open, OwnerIntervals and Reachable imply Ranges; a closed
\* pool has only Ranges, from which RebuildNodes makes the other two again.
SearchInv ==
  /\ TypeOK /\ CacheCoherent
  /\ Hashed /\ UniqueKeys /\ Reachable /\ Ranges /\ OwnerIntervals

\* The string x is the key of an entry with the string w as its value, and what
\* a Put or a Delete of k does to that.
ValueAt(l, s) == leaves[l].kv_values[s]

Entry(x, w) ==
  \E l \in 1..count, s \in Slot : InUse(l, s) /\ KeyAt(l, s) = x /\ ValueAt(l, s) = w

PutEffect(k, v) ==
  \A x, w \in Nat : Entry(x, w)' <=> IF x = CStr[k] THEN w = CStr[v] ELSE Entry(x, w)

DeleteEffect(k) ==
  \A x, w \in Nat : Entry(x, w)' <=> x # CStr[k] /\ Entry(x, w)

-----------------------------------------------------------------------------
\* The invariant on leaves and slots says what the properties say of entries.
LEMMA EntryForms ==
  ASSUME SearchInv
  PROVE  KeysHashed /\ NoDuplicateKeys /\ EveryEntryReachable /\ DisjointRanges
<1>1. \A e \in Entries : /\ e[1] \in 1..count /\ e[2] \in Slot
                         /\ e = <<e[1], e[2]>>
                         /\ InUse(e[1], e[2])
                         /\ EntryKey(e) = KeyAt(e[1], e[2])
                         /\ EntryHash(e) = leaves[e[1]].hashes[e[2]]
  BY DEF Entries, InUse, EntryKey, KeyAt, EntryHash
<1>2. KeysHashed
  BY <1>1 DEF SearchInv, Hashed, KeysHashed
<1>3. NoDuplicateKeys
  BY <1>1 DEF SearchInv, UniqueKeys, NoDuplicateKeys
<1>4. EveryEntryReachable
  BY <1>1 DEF SearchInv, Reachable, EveryEntryReachable
<1>5. DisjointRanges
  BY <1>1 DEF SearchInv, Ranges, DisjointRanges
<1>6. QED
  BY <1>2, <1>3, <1>4, <1>5, Zenon

LeafKeysUnique ==
  \A l \in 1..count, s, t \in Slot :
     InUse(l, s) /\ InUse(l, t) /\ KeyAt(l, s) = KeyAt(l, t) => s = t

\* On an open tree, uniqueness in the whole pool and disjoint ranges follow from
\* uniqueness within each leaf and from where a search goes.
LEMMA FromOwner ==
  isOpen /\ Hashed /\ Reachable /\ OwnerIntervals /\ LeafKeysUnique
     => UniqueKeys /\ Ranges
<1> SUFFICES ASSUME isOpen, Hashed, Reachable, OwnerIntervals, LeafKeysUnique
             PROVE  UniqueKeys /\ Ranges
  BY Zenon
<1>1. \A l \in 1..count, s \in Slot :
         InUse(l, s) => KeyAt(l, s) \in KeyStr /\ owner[KeyAt(l, s)] = l
  BY DEF Hashed, Reachable, KeyStr
<1>2. UniqueKeys
  BY <1>1 DEF UniqueKeys, LeafKeysUnique
<1>3. Ranges
  BY <1>1 DEF Ranges, OwnerIntervals
<1>4. QED
  BY <1>2, <1>3, Zenon

\* A slot in use with the C string of k has the hash of k too: the scan for k
\* stops at it.
LEMMA KeyIsMatched ==
  ASSUME SearchInv, DistinctKeys, isOpen,
         NEW l \in 1..count, NEW k \in Key, NEW s \in Slot,
         InUse(l, s), KeyAt(l, s) = CStr[k]
  PROVE  s \in MatchingSlots(Node(l), k)
<1>1. PICK j \in Key : KeyAt(l, s) = CStr[j] /\ leaves[l].hashes[s] = PearsonHash[j]
  BY Zenon DEF SearchInv, Hashed
<1>2. j = k
  BY <1>1, Zenon DEF DistinctKeys
<1>3. cache[l] = leaves[l].hashes
  BY Zenon DEF SearchInv, CacheCoherent
<1>4. QED
  BY <1>1, <1>2, <1>3, Zenon DEF MatchingSlots, Node, KeyAt

-----------------------------------------------------------------------------
(***************************************************************************)
(* A step of a Put or a Delete preserves the invariant, and has its effect *)
(* on the entries.                                                         *)
(***************************************************************************)
\* It is enough to look at the leaves one by one.
LEMMA OpenStep ==
  ASSUME SearchInv, [Next]_vars, isOpen',
         Hashed', Reachable', OwnerIntervals', LeafKeysUnique'
  PROVE  SearchInv'
<1>1. TypeOK' /\ CacheCoherent'
  BY TypeNext, CoherentNext, Zenon DEF SearchInv
<1>2. (isOpen /\ Hashed /\ Reachable /\ OwnerIntervals /\ LeafKeysUnique
         => UniqueKeys /\ Ranges)'
  BY FromOwner, PTL
<1>3. QED
  BY <1>1, <1>2, Zenon DEF SearchInv

\* A Put that needs no split keeps the invariant and has its effect.
LEMMA PutInLeafStep ==
  ASSUME SearchInv, DistinctKeys, NEW k \in Key, NEW v \in Val, PutInLeaf(k, v)
  PROVE  SearchInv' /\ PutEffect(k, v)
<1>1. PICK l \in 1..count :
         l = LeafSearch(k) /\ l \in LeafId /\ isOpen /\ owner[CStr[k]] = l
  BY SearchType DEF PutInLeaf, SearchInv, LeafSearch
<1> DEFINE node == LeafFillSlotForKey(Node(l), k, v)
<1>2. /\ Node(l) \in LeafNode /\ Coherent(Node(l)) /\ HasSlotForKey(Node(l), k)
      /\ Node(l).leaf = leaves[l]
  BY <1>1, NodeType, Zenon DEF SearchInv, CacheCoherent, Coherent, Node, PutInLeaf
<1>3. PICK t \in Slot :
         /\ EntryInSlot(node.leaf, k, v, t)
         /\ \A s \in Slot \ {t} : SameSlot(node.leaf, leaves[l], s)
         /\ MatchingSlots(Node(l), k) # {} => t \in MatchingSlots(Node(l), k)
         /\ MatchingSlots(Node(l), k) = {} => leaves[l].hashes[t] = 0
  BY <1>2, FillSlotForKey, Zenon
<1>4. /\ leaves' = [leaves EXCEPT ![l] = node.leaf]
      /\ UNCHANGED <<count, isOpen, owner>>
  BY <1>1, Zenon DEF PutInLeaf
<1>5. leaves \in [LeafId -> PersistentLeaf] /\ 1..count \subseteq LeafId
  BY BoundsAssumption, SMTT(30) DEF SearchInv, TypeOK, LeafId
<1>6. t \in MatchingSlots(Node(l), k) => InUse(l, t) /\ KeyAt(l, t) = CStr[k]
  BY <1>1, SliceTypes, SMTT(30) DEF MatchingSlots, Node, InUse, KeyAt, SearchInv, CacheCoherent
<1>7. \A s \in Slot : InUse(l, s) /\ KeyAt(l, s) = CStr[k]
                         => s \in MatchingSlots(Node(l), k)
  BY <1>1, KeyIsMatched, Zenon
<1> HIDE DEF node
\* The entry of k, and every other slot of every leaf.
<1>8. /\ leaves'[l].hashes[t] = PearsonHash[k]
      /\ KeyAt(l, t)' = CStr[k]
      /\ ValueAt(l, t)' = CStr[v]
      /\ InUse(l, t)'
  BY <1>1, <1>3, <1>4, <1>5, SliceTypes, SMTT(30) DEF EntryInSlot, KeyAt, ValueAt, InUse
<1>9. \A m \in 1..count, s \in Slot : m # l \/ s # t =>
         /\ leaves'[m].hashes[s] = leaves[m].hashes[s]
         /\ KeyAt(m, s)' = KeyAt(m, s)
         /\ ValueAt(m, s)' = ValueAt(m, s)
         /\ InUse(m, s)' <=> InUse(m, s)
  BY <1>1, <1>3, <1>4, <1>5 DEF SameSlot, KeyAt, ValueAt, InUse
<1>10. \A m \in 1..count, s \in Slot :
          InUse(m, s) /\ KeyAt(m, s) = CStr[k] => m = l /\ s = t
  <2> SUFFICES ASSUME NEW m \in 1..count, NEW s \in Slot,
                      InUse(m, s), KeyAt(m, s) = CStr[k]
               PROVE  m = l /\ s = t
    BY Zenon
  <2>1. m = l
    BY <1>1, Zenon DEF SearchInv, Reachable
  <2>2. t \in MatchingSlots(Node(l), k)
    BY <1>3, <1>7, <2>1, Zenon
  <2>3. QED
    BY <1>6, <2>1, <2>2, Zenon DEF SearchInv, UniqueKeys
<1>11. Hashed'
  BY <1>4, <1>8, <1>9, SMTT(30) DEF SearchInv, Hashed
<1>12. Reachable'
  BY <1>1, <1>4, <1>8, <1>9 DEF SearchInv, Reachable
<1>13. OwnerIntervals'
  BY <1>4, Zenon DEF SearchInv, OwnerIntervals
<1>14. LeafKeysUnique'
  <2> SUFFICES ASSUME NEW m \in 1..count, NEW r \in Slot, NEW s \in Slot,
                      InUse(m, r)', InUse(m, s)', KeyAt(m, r)' = KeyAt(m, s)'
               PROVE  r = s
    BY <1>4, Zenon DEF LeafKeysUnique
  <2>1. CASE m # l \/ (r # t /\ s # t)
    BY <1>9, <2>1 DEF SearchInv, UniqueKeys
  <2>2. QED
    BY <1>8, <1>9, <1>10, <2>1
<1>15. PutEffect(k, v)
  <2> SUFFICES ASSUME NEW x \in Nat, NEW w \in Nat
               PROVE  Entry(x, w)' <=> IF x = CStr[k] THEN w = CStr[v] ELSE Entry(x, w)
    BY Zenon DEF PutEffect
  <2>1. CASE x = CStr[k]
    <3>1. ASSUME Entry(x, w)' PROVE w = CStr[v]
      <4>1. PICK m \in 1..count, s \in Slot :
               InUse(m, s)' /\ KeyAt(m, s)' = x /\ ValueAt(m, s)' = w
        BY <1>4, <3>1, Zenon DEF Entry
      <4>2. QED
        BY <1>8, <1>9, <1>10, <2>1, <4>1
    <3>2. Entry(x, CStr[v])'
      BY <1>4, <1>8, <2>1, Zenon DEF Entry
    <3>3. QED
      BY <2>1, <3>1, <3>2, Zenon
  <2>2. CASE x # CStr[k]
    <3>1. \A m \in 1..count, s \in Slot :
             /\ InUse(m, s)' /\ KeyAt(m, s)' = x /\ ValueAt(m, s)' = w
                   <=> InUse(m, s) /\ KeyAt(m, s) = x /\ ValueAt(m, s) = w
      BY <1>3, <1>6, <1>8, <1>9, <2>2, Zenon DEF InUse
    <3>2. QED
      BY <1>4, <2>2, <3>1 DEF Entry
  <2>3. QED
    BY <2>1, <2>2, Zenon
<1>16. [Next]_vars
  BY Zenon DEF Next, Put
<1>17. QED
  BY <1>1, <1>4, <1>11, <1>12, <1>13, <1>14, <1>15, <1>16, OpenStep, Zenon

\* A Delete keeps the invariant and has its effect.
LEMMA DeleteStep ==
  ASSUME SearchInv, DistinctKeys, NEW k \in Key, Delete(k)
  PROVE  SearchInv' /\ DeleteEffect(k)
<1>1. PICK l \in 1..count : l = LeafSearch(k) /\ l \in LeafId /\ isOpen
                         /\ owner[CStr[k]] = l
  BY SearchType DEF Delete, SearchInv, LeafSearch
<1> DEFINE node == LeafDelete(Node(l), k)
<1>2. Node(l) \in LeafNode /\ Node(l).leaf = leaves[l]
  BY <1>1, NodeType, Zenon DEF SearchInv, Node
<1>3. /\ node.leaf.kv_keys = leaves[l].kv_keys
      /\ node.leaf.kv_values = leaves[l].kv_values
      /\ \A s \in Slot : /\ InUse(l, s) /\ KeyAt(l, s) = CStr[k]
                               => node.leaf.hashes[s] = 0
                         /\ ~(InUse(l, s) /\ KeyAt(l, s) = CStr[k])
                               => node.leaf.hashes[s] = leaves[l].hashes[s]
  <2>1. leaves[l].hashes \in Hashes
    BY <1>1, Zenon DEF SearchInv, TypeOK, PersistentLeaf
  <2>2. \A s \in Slot : InUse(l, s) /\ KeyAt(l, s) = CStr[k]
                           <=> s \in MatchingSlots(Node(l), k)
    <3> TAKE s \in Slot
    <3>1. InUse(l, s) /\ KeyAt(l, s) = CStr[k] => s \in MatchingSlots(Node(l), k)
      BY <1>1, KeyIsMatched, Zenon
    <3>2. cache[l] = leaves[l].hashes /\ PearsonHash[k] # 0
      BY <1>1, SliceTypes DEF SearchInv, CacheCoherent
    <3>3. s \in MatchingSlots(Node(l), k) => InUse(l, s) /\ KeyAt(l, s) = CStr[k]
      BY <3>2, Zenon DEF MatchingSlots, Node, InUse, KeyAt
    <3>4. QED
      BY <3>1, <3>3, Zenon
  <2>3. node.leaf.kv_keys = leaves[l].kv_keys /\ node.leaf.kv_values = leaves[l].kv_values
    BY <1>2, DeleteSlot, SMTT(30)
  <2>4. CASE MatchingSlots(Node(l), k) = {}
    BY <1>2, <2>2, <2>3, <2>4, DeleteSlot, SMTT(30)
  <2>5. CASE MatchingSlots(Node(l), k) # {}
    <3>1. PICK t \in MatchingSlots(Node(l), k) :
             node.leaf.hashes = [leaves[l].hashes EXCEPT ![t] = 0]
      BY <1>2, <2>5, DeleteSlot
    <3>2. t \in Slot
      BY Zenon DEF MatchingSlots
    <3>3. \A s \in Slot : InUse(l, s) /\ KeyAt(l, s) = CStr[k] <=> s = t
      BY <2>2, <3>1, <3>2, Zenon DEF SearchInv, UniqueKeys
    <3> HIDE DEF node
    <3>4. QED
      BY <2>1, <2>3, <3>1, <3>2, <3>3, Zenon DEF Hashes
  <2>6. QED
    BY <2>4, <2>5, Zenon
<1>4. /\ leaves' = [leaves EXCEPT ![l] = node.leaf]
      /\ UNCHANGED <<count, isOpen, owner>>
  BY <1>1, Zenon DEF Delete
<1>5. leaves \in [LeafId -> PersistentLeaf] /\ 1..count \subseteq LeafId
  BY BoundsAssumption DEF SearchInv, TypeOK, LeafId
<1> HIDE DEF node
<1>6. \A m \in 1..count, s \in Slot :
         /\ KeyAt(m, s)' = KeyAt(m, s)
         /\ ValueAt(m, s)' = ValueAt(m, s)
         /\ InUse(m, s)' => leaves'[m].hashes[s] = leaves[m].hashes[s]
         /\ InUse(m, s)' <=> InUse(m, s) /\ KeyAt(m, s) # CStr[k]
  <2> TAKE m \in 1..count, s \in Slot
  <2>1. InUse(m, s) /\ KeyAt(m, s) = CStr[k] => m = l
    BY <1>1, Zenon DEF SearchInv, Reachable
  <2>2. CASE m = l
    BY <1>1, <1>3, <1>4, <1>5, <2>2, Zenon DEF KeyAt, ValueAt, InUse
  <2>3. CASE m # l
    BY <1>4, <1>5, <2>1, <2>3, Zenon DEF KeyAt, ValueAt, InUse
  <2>4. QED
    BY <2>2, <2>3, Zenon
<1>7. Hashed' /\ LeafKeysUnique'
  BY <1>4, <1>6, SMTT(30) DEF SearchInv, Hashed, LeafKeysUnique, UniqueKeys
<1>8. Reachable' /\ OwnerIntervals'
  BY <1>4, <1>6 DEF SearchInv, Reachable, OwnerIntervals
<1>9. DeleteEffect(k)
  BY <1>4, <1>6 DEF DeleteEffect, Entry
<1>10. [Next]_vars
  BY Zenon DEF Next
<1>11. QED
  BY <1>1, <1>4, <1>7, <1>8, <1>9, <1>10, OpenStep, Zenon

\* A tree with no top node holds no key, whatever leaves its pool has: the first
\* leaf to be put into it may own every string.
LEMMA PutFirstStep ==
  ASSUME SearchInv, NEW k \in Key, NEW v \in Val, PutFirst(k, v)
  PROVE  SearchInv' /\ PutEffect(k, v)
<1>1. PICK l \in LeafId : l = count + 1 /\ isOpen /\ owner[CStr[k]] = 0
  BY BoundsAssumption DEF PutFirst, LeafSearch, SearchInv, TypeOK, LeafId
<1> DEFINE node == LeafFillSpecificSlot(NewLeafNode, k, v, 0)
<1>2. CStr[k] \in KeyStr
  BY KeyStrType, Zenon DEF KeyStr
<1>3. \A x \in KeyStr : owner[x] = 0
  BY <1>1, <1>2, Zenon DEF SearchInv, OwnerIntervals
<1>4. \A m \in 1..count, s \in Slot : ~InUse(m, s)
  <2> SUFFICES ASSUME NEW m \in 1..count, NEW s \in Slot, InUse(m, s)
               PROVE  FALSE
    BY Zenon
  <2>1. KeyAt(m, s) \in KeyStr
    BY Zenon DEF SearchInv, Hashed, KeyStr
  <2>2. owner[KeyAt(m, s)] = m
    BY <1>1, Zenon DEF SearchInv, Reachable
  <2>3. m # 0
    BY DEF SearchInv, TypeOK
  <2>4. QED
    BY <1>3, <2>1, <2>2, <2>3, Zenon
<1>5. /\ leaves' = [leaves EXCEPT ![l] = node.leaf]
      /\ count' = l
      /\ isOpen'
      /\ owner' = [x \in KeyStr |-> l]
  BY <1>1, Zenon DEF PutFirst
<1>6. /\ 0 \in Slot
      /\ NewLeafNode \in LeafNode
      /\ NewLeafNode.hashes[0] = 0
      /\ \A s \in Slot : NewLeafNode.leaf.hashes[s] = 0
  BY BlankTypes, NodeKeysAssumption, Zenon DEF Slot, NewLeafNode, NewLeaf, NoHashes
<1>7. /\ EntryInSlot(node.leaf, k, v, 0)
      /\ \A s \in Slot \ {0} : node.leaf.hashes[s] = 0
  BY <1>6, FillSlot DEF EntryInSlot
<1>8. leaves \in [LeafId -> PersistentLeaf] /\ 1..l \subseteq LeafId /\ count \in Nat
  BY <1>1, BoundsAssumption DEF SearchInv, TypeOK, LeafId
<1> HIDE DEF node
<1>9. \A m \in 1..l, s \in Slot : InUse(m, s)' =>
         m = l /\ s = 0 /\ KeyAt(m, s)' = CStr[k] /\ leaves'[m].hashes[s] = PearsonHash[k]
  <2> SUFFICES ASSUME NEW m \in 1..l, NEW s \in Slot, InUse(m, s)'
               PROVE  m = l /\ s = 0 /\ KeyAt(m, s)' = CStr[k]
                      /\ leaves'[m].hashes[s] = PearsonHash[k]
    BY Zenon
  <2>1. m = l
    <3>1. SUFFICES ASSUME m # l PROVE FALSE
      BY Zenon
    <3>2. m \in 1..count
      BY <1>1, <1>8, <3>1
    <3>3. QED
      BY <1>4, <1>5, <1>8, <3>1, <3>2, Zenon DEF InUse
  <2>2. QED
    BY <1>5, <1>7, <1>8, <2>1, Zenon DEF InUse, KeyAt, EntryInSlot
<1>10. Hashed' /\ LeafKeysUnique'
  BY <1>5, <1>9, Zenon DEF Hashed, LeafKeysUnique
<1>11. Reachable'
  BY <1>2, <1>5, <1>9, Zenon DEF Reachable
<1>12. OwnerIntervals'
  BY <1>1, <1>5, Zenon DEF OwnerIntervals, LeafId
<1>13. PutEffect(k, v)
  <2>1. l \in 1..l /\ leaves'[l] = node.leaf
    BY <1>5, <1>8, SMTT(30) DEF LeafId
  <2>2. InUse(l, 0)' /\ KeyAt(l, 0)' = CStr[k] /\ ValueAt(l, 0)' = CStr[v]
    BY <1>7, <2>1, SliceTypes, SMTT(30) DEF InUse, KeyAt, ValueAt, EntryInSlot
  <2>3. \A x, w : ~Entry(x, w)
    BY <1>4, Zenon DEF Entry
  <2>4. \A x, w : Entry(x, w)' <=> x = CStr[k] /\ w = CStr[v]
    BY <1>5, <1>6, <1>9, <2>1, <2>2 DEF Entry
  <2>5. QED
    BY <2>3, <2>4, Zenon DEF PutEffect
<1>14. [Next]_vars
  BY Zenon DEF Next, Put
<1>15. QED
  BY <1>5, <1>10, <1>11, <1>12, <1>13, <1>14, OpenStep, Zenon

\* The keys above the split key, and only they, are in the new leaf, and searches
\* are cut at the same key; the new entry is on the side its key belongs to.
LEMMA PutSplitStep ==
  ASSUME SearchInv, DistinctKeys, NEW k \in Key, NEW v \in Val, PutSplit(k, v)
  PROVE  SearchInv' /\ PutEffect(k, v)
<1>1. PICK l \in 1..count :
         l = LeafSearch(k) /\ l \in LeafId /\ isOpen /\ owner[CStr[k]] = l
  BY SearchType, SMTT(30) DEF PutSplit, SearchInv, LeafSearch
<1>2. PICK new \in LeafId : new = count + 1 /\ count \in Nat
  BY BoundsAssumption DEF PutSplit, SearchInv, TypeOK, LeafId
<1>3. /\ Node(l) \in LeafNode /\ Coherent(Node(l)) /\ ~HasSlotForKey(Node(l), k)
      /\ Node(l).leaf = leaves[l]
      /\ Node(l).hashes = leaves[l].hashes
  BY <1>1, NodeType, Zenon DEF SearchInv, CacheCoherent, Coherent, Node, PutSplit
<1>4. PICK split \in Nat : split = SplitKey(Node(l), k)
  BY <1>3, SplitKeyChoice, Zenon
<1> DEFINE low == LeafSplit(Node(l), k, v).low.leaf
           high == LeafSplit(Node(l), k, v).high.leaf
\* The leaf is full and does not have the key.
<1>5. EmptySlots(Node(l).hashes) = {} /\ \A s \in Slot : InUse(l, s)
  BY <1>3, Zenon DEF HasSlotForKey, EmptySlots, InUse
<1>6. \A r, s \in Slot : KeyAt(l, r) = KeyAt(l, s) => r = s
  BY <1>5, Zenon DEF SearchInv, UniqueKeys
<1>7. \A s \in Slot : KeyAt(l, s) # CStr[k]
  <2>1. MatchingSlots(Node(l), k) = {}
    BY <1>3, Zenon DEF HasSlotForKey
  <2>2. QED
    BY <1>1, <1>5, <2>1, KeyIsMatched, Zenon
<1>8. PICK t \in Slot : SplitOutcome(leaves[l], low, high, split, k, v, t)
  <2>1. /\ \A r, s \in Slot : leaves[l].kv_keys[r] = leaves[l].kv_keys[s] => r = s
        /\ \A s \in Slot : leaves[l].kv_keys[s] # CStr[k]
    BY <1>6, <1>7, SMTT(30) DEF KeyAt
  <2>2. \E t \in Slot : SplitOutcome(Node(l).leaf, low, high, SplitKey(Node(l), k), k, v, t)
    BY <1>3, <1>5, <2>1, LeafSplitSlots, Zenon
  <2> HIDE DEF low, high
  <2>3. QED
    BY <1>3, <1>4, <2>2, Zenon
<1>9. /\ leaves' = [leaves EXCEPT ![l] = low, ![new] = high]
      /\ count' = new
      /\ isOpen'
      /\ owner' = [x \in KeyStr |-> IF owner[x] = l /\ x > split THEN new
                                    ELSE owner[x]]
  BY <1>1, <1>2, <1>4, Zenon DEF PutSplit
<1>10. leaves \in [LeafId -> PersistentLeaf] /\ 1..new \subseteq LeafId /\ new # l
  BY <1>1, <1>2, BoundsAssumption DEF SearchInv, TypeOK, LeafId
<1>11. /\ \A s \in Slot : KeyAt(l, s) \in Nat /\ KeyAt(l, s) \in KeyStr
                          /\ owner[KeyAt(l, s)] = l
       /\ CStr[k] \in Nat /\ CStr[k] \in KeyStr
  <2>1. \A s \in Slot : KeyAt(l, s) \in KeyStr /\ owner[KeyAt(l, s)] = l
    BY <1>1, <1>5 DEF SearchInv, Hashed, Reachable, KeyStr
  <2>2. CStr[k] \in KeyStr
    BY Zenon DEF KeyStr
  <2>3. QED
    BY <2>1, <2>2, KeyStrType, Zenon
<1> HIDE DEF low, high
<1>12. leaves'[l] = low /\ leaves'[new] = high
  BY <1>1, <1>9, <1>10, Zenon
<1>13. \A m \in 1..new : m # l /\ m # new => m \in 1..count /\ leaves'[m] = leaves[m]
  BY <1>2, <1>9, <1>10, SMTT(30)
\* What every slot in use holds after the step, and where a search for it goes.
<1> DEFINE target == IF CStr[k] > split THEN new ELSE l
           Added(m, s) == m = target /\ s = t
           Half(m) == IF m = new THEN {s \in Slot : KeyAt(l, s) > split}
                      ELSE {s \in Slot : KeyAt(l, s) <= split}
<1>14. /\ leaves'[target].hashes[t] = PearsonHash[k]
       /\ leaves'[target].kv_keys[t] = CStr[k]
       /\ leaves'[target].kv_values[t] = CStr[v]
  BY <1>8, <1>12, SMTT(30) DEF SplitOutcome, EntryInSlot
<1>15. \A m \in {l, new}, s \in Slot :
          InUse(m, s)' /\ ~Added(m, s)
             => /\ s \in Half(m)
                /\ leaves'[m].hashes[s] = leaves[l].hashes[s]
                /\ KeyAt(m, s)' = KeyAt(l, s)
                /\ ValueAt(m, s)' = ValueAt(l, s)
  BY <1>8, <1>10, <1>11, <1>12, SMTT(30) DEF SplitOutcome, InUse, KeyAt, ValueAt, SameSlot
<1>16. Hashed'
  <2> SUFFICES ASSUME NEW m \in 1..new, NEW s \in Slot, InUse(m, s)'
               PROVE  \E j \in Key : /\ KeyAt(m, s)' = CStr[j]
                                     /\ leaves'[m].hashes[s] = PearsonHash[j]
    BY <1>9, Zenon DEF Hashed
  <2>1. CASE m # l /\ m # new
    BY <1>13, <2>1, SMTT(30) DEF SearchInv, Hashed, InUse, KeyAt
  <2>2. CASE m \in {l, new} /\ ~Added(m, s)
    BY <1>1, <1>5, <1>15, <2>2, SMTT(30) DEF SearchInv, Hashed
  <2>3. CASE Added(m, s)
    BY <1>14, <2>3, Zenon DEF KeyAt
  <2>4. QED
    BY <2>1, <2>2, <2>3, SMTT(30)
<1>17. LeafKeysUnique'
  <2> SUFFICES ASSUME NEW m \in 1..new, NEW r \in Slot, NEW s \in Slot,
                      InUse(m, r)', InUse(m, s)', KeyAt(m, r)' = KeyAt(m, s)'
               PROVE  r = s
    BY <1>9, Zenon DEF LeafKeysUnique
  <2>1. CASE m # l /\ m # new
    BY <1>13, <2>1, SMTT(30) DEF SearchInv, UniqueKeys, InUse, KeyAt
  <2>2. CASE m \in {l, new} /\ ~Added(m, r) /\ ~Added(m, s)
    BY <1>6, <1>15, <2>2, Zenon
  <2>3. ASSUME m \in {l, new}, NEW q \in Slot, InUse(m, q)', ~Added(m, q)
        PROVE  KeyAt(m, q)' # CStr[k]
    BY <1>7, <1>15, <2>3, Zenon
  <2>4. ASSUME NEW q \in Slot, Added(m, q)
        PROVE  KeyAt(m, q)' = CStr[k] /\ q = t /\ m \in {l, new}
    BY <1>14, <2>4, Zenon DEF KeyAt
  <2>5. QED
    <3> HIDE DEF Added
    <3> QED BY <2>1, <2>2, <2>3, <2>4, Zenon
<1>18. Reachable'
  <2> SUFFICES ASSUME NEW m \in 1..new, NEW s \in Slot, InUse(m, s)'
               PROVE  owner'[KeyAt(m, s)'] = m
    BY <1>9, Zenon DEF Reachable
  <2>0. \A x \in KeyStr :
           owner'[x] = IF owner[x] = l /\ x > split THEN new ELSE owner[x]
    BY <1>9, Zenon
  <2>1. CASE m # l /\ m # new
    <3>1. m \in 1..count /\ InUse(m, s) /\ KeyAt(m, s)' = KeyAt(m, s)
      BY <1>13, <2>1, Zenon DEF InUse, KeyAt
    <3>2. KeyAt(m, s) \in KeyStr /\ owner[KeyAt(m, s)] = m
      BY <1>1, <3>1, SMTT(30) DEF SearchInv, Hashed, Reachable, KeyStr
    <3>3. QED
      BY <2>0, <2>1, <3>1, <3>2, Zenon
  <2>2. CASE m \in {l, new} /\ ~Added(m, s)
    BY <1>10, <1>11, <1>15, <2>0, <2>2, SMTT(30)
  <2>3. CASE Added(m, s)
    BY <1>1, <1>11, <1>14, <2>0, <2>3, Zenon DEF KeyAt
  <2>4. QED
    BY <2>1, <2>2, <2>3, Zenon
<1>19. OwnerIntervals'
  <2>1. /\ KeyStr \subseteq Nat
        /\ \A x \in KeyStr : owner[x] # new /\ owner[x] # 0
    BY <1>1, <1>2, <1>11, KeyStrType DEF SearchInv, TypeOK, OwnerIntervals
  <2>2. \A x, y, z \in KeyStr :
           x < y /\ y < z /\ owner[x] = owner[z] => owner[y] = owner[x]
    BY <1>1, Zenon DEF SearchInv, OwnerIntervals
  <2>3. \A x, y, z \in KeyStr :
           x < y /\ y < z /\ owner'[x] = owner'[z] => owner'[y] = owner'[x]
    BY <1>4, <1>9, <1>10, <2>1, <2>2, SMTT(30)
  <2>4. \A x \in KeyStr : owner'[x] # 0
    BY <1>2, <1>9, <2>1
  <2>5. QED
    BY <2>3, <2>4, Zenon DEF OwnerIntervals
<1>20. PutEffect(k, v)
  <2> SUFFICES ASSUME NEW x \in Nat, NEW w \in Nat
               PROVE  Entry(x, w)' <=> IF x = CStr[k] THEN w = CStr[v] ELSE Entry(x, w)
    BY Zenon DEF PutEffect
  \* No entry has the key of k before the step.
  <2>1. \A m \in 1..count, s \in Slot : InUse(m, s) => KeyAt(m, s) # CStr[k]
    BY <1>1, <1>7, Zenon DEF SearchInv, Reachable
  <2>2. Entry(CStr[k], CStr[v])'
    <3>1. target \in 1..new /\ PearsonHash[k] # 0
      BY <1>1, <1>2, SliceTypes
    <3> HIDE DEF target
    <3>2. QED
      BY <1>9, <1>14, <3>1, Zenon DEF Entry, InUse, KeyAt, ValueAt
  <2>3. ASSUME Entry(x, w)'
        PROVE  (x = CStr[k] /\ w = CStr[v]) \/ (x # CStr[k] /\ Entry(x, w))
    <3>1. PICK m \in 1..new, s \in Slot :
             InUse(m, s)' /\ KeyAt(m, s)' = x /\ ValueAt(m, s)' = w
      BY <1>9, <2>3, Zenon DEF Entry
    <3>2. CASE m # l /\ m # new
      <4>1. m \in 1..count /\ InUse(m, s) /\ KeyAt(m, s) = x /\ ValueAt(m, s) = w
        BY <1>13, <3>1, <3>2, Zenon DEF InUse, KeyAt, ValueAt
      <4>2. QED
        BY <2>1, <4>1, Zenon DEF Entry
    <3>3. CASE m \in {l, new} /\ ~Added(m, s)
      <4>1. InUse(l, s) /\ KeyAt(l, s) = x /\ ValueAt(l, s) = w
        BY <1>5, <1>15, <3>1, <3>3, SMTT(30)
      <4>2. QED
        BY <1>7, <4>1, Zenon DEF Entry
    <3>4. CASE Added(m, s)
      BY <1>14, <3>1, <3>4, SMTT(30) DEF KeyAt, ValueAt
    <3>5. QED
      BY <3>2, <3>3, <3>4, Zenon
  <2>4. ASSUME Entry(x, w) PROVE Entry(x, w)'
    <3>1. PICK m \in 1..count, s \in Slot :
             InUse(m, s) /\ KeyAt(m, s) = x /\ ValueAt(m, s) = w
      BY <2>4, Zenon DEF Entry
    <3>2. PICK n \in 1..new : SameSlot(leaves'[n], leaves[m], s)
      <4>1. l \in 1..new /\ new \in 1..new /\ m \in 1..new
        BY <1>2, SMTT(30)
      <4>2. CASE m = l
        BY <1>4, <1>8, <1>11, <1>12, <4>1, <4>2, SMTT(30) DEF SplitOutcome, KeyAt
      <4>3. CASE m # l
        BY <1>2, <1>13, <4>1, <4>3 DEF SameSlot
      <4>4. QED
        BY <4>2, <4>3, Zenon
    <3>3. QED
      BY <1>9, <3>1, <3>2, Zenon DEF Entry, InUse, KeyAt, ValueAt, SameSlot
  <2>5. QED
    BY <2>2, <2>3, <2>4, Zenon
<1>21. [Next]_vars
  BY Zenon DEF Next, Put
<1>22. QED
  BY <1>9, <1>16, <1>17, <1>18, <1>19, <1>20, <1>21, OpenStep, SMTT(30)

-----------------------------------------------------------------------------
(***************************************************************************)
(* Opening preserves it too.                                               *)
(***************************************************************************)
\* The highest keys of the recovered leaves, by which RebuildNodes sorts them.
LEMMA HighestKeys ==
  ASSUME SearchInv
  PROVE  /\ \A l \in Recovered : l \in 1..count /\ MaxKey(leaves[l]) \in Nat
         /\ \A l \in Recovered : \E s \in Slot :
               InUse(l, s) /\ KeyAt(l, s) = MaxKey(leaves[l])
         /\ \A l \in 1..count, s \in Slot :
               InUse(l, s) => l \in Recovered /\ KeyAt(l, s) <= MaxKey(leaves[l])
         /\ \A l, m \in Recovered : MaxKey(leaves[l]) = MaxKey(leaves[m]) => l = m
<1>1. \A l \in Recovered : l \in 1..count /\ leaves[l] \in PersistentLeaf
  BY BoundsAssumption DEF Recovered, SearchInv, TypeOK, LeafId
<1>2. \A l \in Recovered : /\ MaxKey(leaves[l]) \in Nat
                           /\ \E s \in Slot : InUse(l, s) /\ KeyAt(l, s) = MaxKey(leaves[l])
                           /\ \A s \in Slot : InUse(l, s) => KeyAt(l, s) <= MaxKey(leaves[l])
  <2> TAKE l \in Recovered
  <2>1. leaves[l] \in PersistentLeaf /\ UsedSlots(leaves[l].hashes) # {}
    BY <1>1, Zenon DEF Recovered
  <2>2. \A s \in Slot : s \in UsedSlots(leaves[l].hashes) <=> InUse(l, s)
    BY Zenon DEF UsedSlots, InUse
  <2>3. UsedSlots(leaves[l].hashes) \subseteq Slot
    BY Zenon DEF UsedSlots
  <2>4. QED
    BY <2>1, <2>2, <2>3, MaxKeyOfLeaf, Zenon DEF KeyAt
<1>3. \A l \in 1..count, s \in Slot : InUse(l, s) => l \in Recovered
  BY Zenon DEF InUse, Recovered, UsedSlots
<1>4. \A l, m \in Recovered : MaxKey(leaves[l]) = MaxKey(leaves[m]) => l = m
  BY <1>1, <1>2, Zenon DEF SearchInv, UniqueKeys
<1>5. QED
  BY <1>1, <1>2, <1>3, <1>4, Zenon

\* Because leaves hold disjoint ranges, RebuildNodes makes every key reachable.
LEMMA RebuildReaches ==
  ASSUME SearchInv
  PROVE  \A l \in 1..count, s \in Slot :
            InUse(l, s) => RebuildNodes[KeyAt(l, s)] = l
<1> SUFFICES ASSUME NEW l \in 1..count, NEW s \in Slot, InUse(l, s)
             PROVE  RebuildNodes[KeyAt(l, s)] = l
  BY Zenon
<1> DEFINE x == KeyAt(l, s)
           m == RebuildNodes[x]
           High(n) == MaxKey(leaves[n])
<1>1. x \in KeyStr /\ x \in Nat
  <2>1. x \in KeyStr
    BY Zenon DEF SearchInv, Hashed, KeyStr
  <2>2. QED
    BY <2>1, KeyStrType, Zenon
<1>2. l \in Recovered /\ x <= High(l) /\ High(l) \in Nat
  BY HighestKeys, Zenon
<1>3. m \in Recovered /\ x <= High(m) /\ High(m) <= High(l)
  <2>1. TypeOK
    BY Zenon DEF SearchInv
  <2>2. ~(High(l) < x)
    BY <1>1, <1>2
  <2> HIDE DEF x
  <2>3. QED
    BY <1>1, <1>2, <2>1, <2>2, RebuiltOwner, Zenon
<1>4. PICK r \in Slot : InUse(l, r) /\ KeyAt(l, r) = High(l)
  BY <1>2, HighestKeys, Zenon
<1>5. PICK t \in Slot : InUse(m, t) /\ KeyAt(m, t) = High(m)
  BY <1>3, HighestKeys, Zenon
<1>6. m \in 1..count /\ High(m) \in Nat
  BY <1>3, HighestKeys, Zenon
<1>7. CASE x = High(m)
  BY <1>5, <1>6, <1>7, Zenon DEF SearchInv, UniqueKeys
<1>8. CASE High(m) = High(l)
  BY <1>2, <1>3, <1>8, HighestKeys, Zenon
<1>9. CASE x < High(m) /\ High(m) < High(l)
  <2>1. KeyAt(l, s) < KeyAt(m, t) /\ KeyAt(m, t) < KeyAt(l, r)
    BY <1>4, <1>5, <1>9, Zenon
  <2> HIDE DEF m
  <2>2. m = l
    BY <1>4, <1>5, <1>6, <2>1, Zenon DEF SearchInv, Ranges
  <2>3. QED
    BY <2>2, Zenon DEF m
<1>10. QED
  <2> HIDE DEF x, m, High
  <2>1. x = High(m) \/ High(m) = High(l) \/ (x < High(m) /\ High(m) < High(l))
    BY <1>1, <1>2, <1>3, <1>6
  <2>2. QED
    BY <1>7, <1>8, <1>9, <2>1, Zenon DEF x, m

\* Sorted by their highest keys, the leaves are searched in intervals.
LEMMA RebuildIntervals ==
  ASSUME SearchInv, NEW x \in KeyStr, NEW y \in KeyStr, NEW z \in KeyStr
  PROVE  /\ x < y /\ y < z /\ RebuildNodes[x] = RebuildNodes[z]
               => RebuildNodes[y] = RebuildNodes[x]
         /\ RebuildNodes[x] = 0 => RebuildNodes[y] = 0
<1>1. TypeOK /\ x \in Nat /\ y \in Nat /\ z \in Nat
  BY KeyStrType, Zenon DEF SearchInv
<1>2. CASE Recovered = {}
  BY <1>1, <1>2, RebuildNodesType, Zenon
<1>3. CASE Recovered # {}
  <2> DEFINE High(n) == MaxKey(leaves[n])
             Chosen(w, m) == /\ m \in Recovered
                             /\ \/ /\ w <= High(m)
                                   /\ \A l \in Recovered : w <= High(l) => High(m) <= High(l)
                                \/ \A l \in Recovered : High(l) < w /\ High(l) <= High(m)
  <2>1. Chosen(x, RebuildNodes[x]) /\ Chosen(y, RebuildNodes[y])
        /\ Chosen(z, RebuildNodes[z])
    BY <1>1, <1>3, RebuiltOwner, Zenon
  <2>2. \A l \in Recovered : High(l) \in Nat /\ l # 0
    BY HighestKeys DEF SearchInv, TypeOK
  <2>3. ASSUME NEW m, NEW n, x < y, y < z, Chosen(x, m), Chosen(y, n), Chosen(z, m)
        PROVE  n = m
    <3>1. High(m) = High(n)
      <4> HIDE DEF High
      <4> QED BY <1>1, <2>2, <2>3
    <3>2. QED
      BY <2>3, <3>1, HighestKeys, Zenon
  <2> HIDE DEF High
  <2>4. QED
    <3>1. RebuildNodes[x] # 0
      BY <2>1, <2>2, Zenon
    <3> HIDE DEF Chosen
    <3>2. QED
      BY <2>1, <2>3, <3>1, Zenon
<1>4. QED
  BY <1>2, <1>3, Zenon

-----------------------------------------------------------------------------
(***************************************************************************)
(* The invariant is inductive, and the properties follow.                  *)
(***************************************************************************)
LEMMA SearchInit == Init => SearchInv
<1> SUFFICES ASSUME Init PROVE SearchInv
  BY Zenon
<1>1. TypeOK
  BY TypeInit, Zenon
<1>2. count = 0 /\ isOpen = FALSE /\ 1..count = {}
  BY DEF Init
<1>3. QED
  BY <1>1, <1>2, Zenon DEF SearchInv, CacheCoherent, Hashed, UniqueKeys, Reachable, Ranges,
                    OwnerIntervals

\* Every operation, close, crash and opening keeps the invariant.
LEMMA SearchNext ==
  ASSUME DistinctKeys
  PROVE  SearchInv /\ [Next]_vars => SearchInv'
<1> SUFFICES ASSUME SearchInv, [Next]_vars PROVE SearchInv'
  BY Zenon
<1>1. TypeOK' /\ CacheCoherent'
  BY TypeNext, CoherentNext, Zenon DEF SearchInv
\* A step that leaves the leaves alone.
<1>2. ASSUME leaves' = leaves, count' = count
      PROVE  Hashed' /\ UniqueKeys' /\ Ranges'
  BY <1>2 DEF SearchInv, Hashed, UniqueKeys, Ranges, InUse, KeyAt
<1>3. CASE OpenEmpty
  <2>1. /\ leaves' = leaves /\ count' = count
        /\ count = 0 /\ owner' = owner /\ ~isOpen
    BY <1>3, Zenon DEF OpenEmpty
  <2>2. owner' \in [KeyStr -> 0..0]
    BY <1>1, <2>1, Zenon DEF TypeOK
  <2>3. \A x \in KeyStr : owner'[x] = 0
    BY <2>2
  <2>4. Reachable' /\ OwnerIntervals'
    BY <2>1, <2>3 DEF Reachable, OwnerIntervals
  <2>5. QED
    BY <1>1, <1>2, <2>1, <2>4, Zenon DEF SearchInv
<1>4. CASE OpenExisting
  <2>1. leaves' = leaves /\ count' = count /\ owner' = RebuildNodes
    BY <1>4, Zenon DEF OpenExisting
  <2>2. Reachable'
    BY <2>1, RebuildReaches, Zenon DEF Reachable, InUse, KeyAt
  <2>3. OwnerIntervals'
    BY <2>1, RebuildIntervals, Zenon DEF OwnerIntervals
  <2>4. QED
    BY <1>1, <1>2, <2>1, <2>2, <2>3, Zenon DEF SearchInv
<1>5. ASSUME NEW k \in Key, NEW v \in Val, Put(k, v) PROVE SearchInv'
  BY <1>5, PutFirstStep, PutInLeafStep, PutSplitStep, Zenon DEF Put
<1>6. ASSUME NEW k \in Key, Delete(k) PROVE SearchInv'
  BY <1>6, DeleteStep, Zenon
<1>7. CASE Close \/ Crash
  <2>1. leaves' = leaves /\ count' = count /\ ~isOpen'
    BY <1>7, SMTT(30) DEF Close, Crash, LoseVolatile, persistent
  <2>2. QED
    BY <1>1, <1>2, <2>1, Zenon DEF SearchInv, Reachable, OwnerIntervals
<1>8. CASE UNCHANGED vars
  BY <1>1, <1>2, <1>8, Zenon DEF SearchInv, vars, Reachable, OwnerIntervals, InUse, KeyAt
<1>9. QED
  BY <1>3, <1>4, <1>5, <1>6, <1>7, <1>8, Zenon DEF Next

\* The invariant holds in every state of LeafStore.
LEMMA SearchInvariant ==
  ASSUME DistinctKeys
  PROVE  Spec => []SearchInv
BY SearchInit, SearchNext, PTL DEF Spec

\* Whatever is put, split, deleted, closed, lost in a crash and rebuilt, each key
\* is in at most one slot of the pool ("no duplicate keys allowed").
THEOREM KeysAreUnique ==
  ASSUME DistinctKeys
  PROVE  Spec => []NoDuplicateKeys
<1>1. SearchInv => NoDuplicateKeys
  BY EntryForms, Zenon
<1>2. QED
  BY <1>1, SearchInvariant, PTL

\* And LeafSearch finds the leaf it is in, after a split as after a rebuild.
THEOREM EntriesAreReachable ==
  ASSUME DistinctKeys
  PROVE  Spec => []EveryEntryReachable
<1>1. SearchInv => EveryEntryReachable
  BY EntryForms, Zenon
<1>2. QED
  BY <1>1, SearchInvariant, PTL

\* Leaves hold disjoint ranges of keys, with or without a tree over them, which
\* is what lets RebuildNodes order them by their highest keys.
THEOREM RangesAreDisjoint ==
  ASSUME DistinctKeys
  PROVE  Spec => []DisjointRanges
<1>1. SearchInv => DisjointRanges
  BY EntryForms, Zenon
<1>2. QED
  BY <1>1, SearchInvariant, PTL

\* LeafUpdateParentsAfterSplit and RebuildNodes send an interval of strings to
\* each leaf, at every moment and through every close and crash.
THEOREM SearchesAreIntervals ==
  ASSUME DistinctKeys
  PROVE  Spec => []OwnerIntervals
<1>1. SearchInv => OwnerIntervals
  BY Zenon DEF SearchInv
<1>2. QED
  BY <1>1, SearchInvariant, PTL

\* A slot in use has the hash of the key it holds, which the scans of Put, Get
\* and Delete rely on.
THEOREM UsedSlotsAreHashed ==
  ASSUME DistinctKeys
  PROVE  Spec => []KeysHashed
<1>1. SearchInv => KeysHashed
  BY EntryForms, Zenon
<1>2. QED
  BY <1>1, SearchInvariant, PTL

\* The entries of k are the slots the scan of the searched leaf stops at.
LEMMA FoundEntries ==
  ASSUME SearchInv, DistinctKeys, isOpen, NEW k \in Key
  PROVE  /\ \A e \in EntriesOf(k) :
               /\ e = <<LeafSearch(k), e[2]>> /\ LeafSearch(k) \in 1..count
               /\ e[2] \in MatchingSlots(Node(LeafSearch(k)), k)
         /\ LeafSearch(k) # 0 =>
               \A s \in MatchingSlots(Node(LeafSearch(k)), k) :
                  <<LeafSearch(k), s>> \in EntriesOf(k)
<1> DEFINE l == LeafSearch(k)
<1>1. ASSUME NEW e \in EntriesOf(k)
      PROVE  /\ e = <<l, e[2]>> /\ l \in 1..count
             /\ e[2] \in MatchingSlots(Node(l), k)
  <2>1. /\ e[1] \in 1..count /\ e[2] \in Slot /\ e = <<e[1], e[2]>>
        /\ InUse(e[1], e[2]) /\ KeyAt(e[1], e[2]) = CStr[k]
    BY DEF EntriesOf, Entries, EntryKey, InUse, KeyAt
  <2>2. e[1] = l
    BY <2>1, Zenon DEF SearchInv, Reachable, LeafSearch
  <2>3. QED
    BY <2>1, <2>2, KeyIsMatched, Zenon
<1>2. ASSUME l # 0, NEW s \in MatchingSlots(Node(l), k)
      PROVE  <<l, s>> \in EntriesOf(k)
  <2>1. l \in 1..count
    BY <1>2, SearchType DEF SearchInv, TypeOK
  <2>2. s \in Slot /\ cache[l][s] = PearsonHash[k] /\ leaves[l].kv_keys[s] = CStr[k]
    BY Zenon DEF MatchingSlots, Node
  <2>3. cache[l] = leaves[l].hashes /\ PearsonHash[k] # 0
    BY <2>1, SliceTypes DEF SearchInv, CacheCoherent
  <2> HIDE DEF l
  <2>4. QED
    BY <2>1, <2>2, <2>3, Zenon DEF EntriesOf, Entries, EntryKey, EntryHash
<1>3. QED
  BY <1>1, <1>2, Zenon

\* On an open tree Get answers, for every key, what the pool holds for it: the
\* volatile hashes, the inner nodes and stale strings never mislead it.
THEOREM GetIsExact ==
  ASSUME DistinctKeys
  PROVE  Spec => []GetReadsContents
<1>1. SearchInv => GetReadsContents
  <2> SUFFICES ASSUME SearchInv, isOpen, NEW k \in Key
               PROVE  Get(k) = Contents[k]
    BY Zenon DEF GetReadsContents
  <2> DEFINE l == LeafSearch(k)
             found == MatchingSlots(Node(l), k)
  <2>1. CASE EntriesOf(k) = {}
    <3>1. l = 0 \/ found = {}
      BY <2>1, FoundEntries, Zenon
    <3>2. QED
      BY <2>1, <3>1, Zenon DEF Get, LeafGet, Contents
  <2>2. CASE EntriesOf(k) # {}
    <3> DEFINE e == CHOOSE e \in EntriesOf(k) : TRUE
    <3>1. e \in EntriesOf(k)
      BY <2>2, Zenon
    <3>2. e = <<l, e[2]>> /\ l \in 1..count /\ l # 0 /\ e[2] \in found
      BY <3>1, FoundEntries, SMTT(30) DEF SearchInv, TypeOK
    <3>3. Max(found) \in found
      BY <3>2, SlotExtremes, SMTT(30) DEF MatchingSlots
    <3>4. <<l, Max(found)>> \in EntriesOf(k)
      BY <3>2, <3>3, FoundEntries, Zenon
    <3>5. e = <<l, Max(found)>>
      BY <3>1, <3>4, EntryForms, Zenon DEF NoDuplicateKeys, EntriesOf
    <3>6. Contents[k] = EntryValue(e)
      BY <2>2, Zenon DEF Contents
    <3>7. Get(k) = leaves[l].kv_values[Max(found)]
      BY <3>2, Zenon DEF Get, LeafGet, Node
    <3> HIDE DEF e, found, l
    <3>8. QED
      BY <3>5, <3>6, <3>7, Zenon DEF EntryValue
  <2>3. QED
    BY <2>1, <2>2, Zenon
<1>2. QED
  BY <1>1, SearchInvariant, PTL

-----------------------------------------------------------------------------
\* What the pool says of a key is the value of its entry, or None.
ReadsEntries ==
  \A k \in Key :
     /\ \A w \in Nat : Entry(CStr[k], w) => Contents[k] = w
     /\ (\A w \in Nat : ~Entry(CStr[k], w)) => Contents[k] = None

\* The map a pool stands for is given by its entries.
LEMMA ContentsOfEntries == DistinctKeys /\ SearchInv => ReadsEntries
<1> SUFFICES ASSUME DistinctKeys, SearchInv, NEW k \in Key
             PROVE  /\ \A w \in Nat : Entry(CStr[k], w) => Contents[k] = w
                    /\ (\A w \in Nat : ~Entry(CStr[k], w)) => Contents[k] = None
  BY Zenon DEF ReadsEntries
<1>1. Contents[k] = IF EntriesOf(k) = {} THEN None
                    ELSE EntryValue(CHOOSE e \in EntriesOf(k) : TRUE)
  BY Zenon DEF Contents
<1>2. ASSUME NEW w \in Nat, Entry(CStr[k], w) PROVE Contents[k] = w
  <2>1. PICK l \in 1..count, s \in Slot :
           InUse(l, s) /\ KeyAt(l, s) = CStr[k] /\ ValueAt(l, s) = w
    BY <1>2, Zenon DEF Entry
  <2>2. leaves[l].hashes[s] = PearsonHash[k]
    BY <2>1 DEF SearchInv, Hashed, DistinctKeys
  <2> DEFINE e == <<l, s>>
             f == CHOOSE f \in EntriesOf(k) : TRUE
  <2>3. e \in EntriesOf(k) /\ EntryValue(e) = w
    BY <2>1, <2>2, Zenon DEF EntriesOf, Entries, EntryKey, EntryHash, EntryValue, InUse, KeyAt, ValueAt
  <2>4. f \in EntriesOf(k)
    BY <2>3, Zenon
  <2>5. f = e
    BY <2>3, <2>4, EntryForms, Zenon DEF NoDuplicateKeys, EntriesOf
  <2> HIDE DEF e, f
  <2>6. QED
    BY <1>1, <2>3, <2>5, Zenon DEF f
<1>3. ASSUME NEW e \in EntriesOf(k) PROVE \E w \in Nat : Entry(CStr[k], w)
  <2>1. /\ e[1] \in 1..count /\ e[2] \in Slot
        /\ InUse(e[1], e[2]) /\ KeyAt(e[1], e[2]) = CStr[k]
    BY Zenon DEF EntriesOf, Entries, EntryKey, InUse, KeyAt
  <2>2. leaves[e[1]] \in PersistentLeaf
    BY <2>1, BoundsAssumption DEF SearchInv, TypeOK, LeafId
  <2>3. ValueAt(e[1], e[2]) \in Nat
    BY <2>1, <2>2, Zenon DEF ValueAt, PersistentLeaf, SlotStrings
  <2>4. QED
    BY <2>1, <2>3, Zenon DEF Entry
<1>4. QED
  BY <1>1, <1>2, <1>3, Zenon

\* The effect on entries is the effect on the map.
LEMMA PutOnContents ==
  ASSUME DistinctKeys, SearchInv, SearchInv', NEW k \in Key, NEW v \in Val, PutEffect(k, v)
  PROVE  Contents' = [Contents EXCEPT ![k] = CStr[v]]
<1>1. ReadsEntries /\ ReadsEntries'
  <2>1. (DistinctKeys /\ SearchInv => ReadsEntries)'
    BY ContentsOfEntries, PTL
  <2>2. QED
    BY <2>1, ContentsOfEntries, Zenon DEF DistinctKeys
<1>2. \A j \in Key : CStr[j] \in Nat /\ CStr[v] \in Nat
  BY SliceTypes, Zenon
<1>3. Contents'[k] = CStr[v]
  BY <1>1, <1>2, Zenon DEF PutEffect, ReadsEntries
<1>4. ASSUME NEW j \in Key, j # k PROVE Contents'[j] = Contents[j]
  <2>1. CStr[j] # CStr[k]
    BY <1>4, Zenon DEF DistinctKeys
  <2>2. \A w \in Nat : Entry(CStr[j], w)' <=> Entry(CStr[j], w)
    BY <1>2, <2>1, Zenon DEF PutEffect
  <2>3. QED
    BY <1>1, <2>2, Zenon DEF ReadsEntries
<1>5. Contents = [j \in Key |-> Contents[j]] /\ Contents' = [j \in Key |-> Contents'[j]]
  BY DEF Contents
<1>6. QED
  BY <1>3, <1>4, <1>5, Zenon

\* The effect of a Delete on entries is its effect on the map.
LEMMA DeleteOnContents ==
  ASSUME DistinctKeys, SearchInv, SearchInv', NEW k \in Key, DeleteEffect(k)
  PROVE  Contents' = [Contents EXCEPT ![k] = None]
<1>1. ReadsEntries /\ ReadsEntries'
  <2>1. (DistinctKeys /\ SearchInv => ReadsEntries)'
    BY ContentsOfEntries, PTL
  <2>2. QED
    BY <2>1, ContentsOfEntries, Zenon DEF DistinctKeys
<1>2. \A j \in Key : CStr[j] \in Nat
  BY SliceTypes, Zenon
<1>3. Contents'[k] = None
  BY <1>1, <1>2, Zenon DEF DeleteEffect, ReadsEntries
<1>4. ASSUME NEW j \in Key, j # k PROVE Contents'[j] = Contents[j]
  <2>1. CStr[j] # CStr[k]
    BY <1>4, Zenon DEF DistinctKeys
  <2>2. \A w \in Nat : Entry(CStr[j], w)' <=> Entry(CStr[j], w)
    BY <1>2, <2>1, Zenon DEF DeleteEffect
  <2>3. QED
    BY <1>1, <2>2, Zenon DEF ReadsEntries
<1>5. Contents = [j \in Key |-> Contents[j]] /\ Contents' = [j \in Key |-> Contents'[j]]
  BY DEF Contents
<1>6. QED
  BY <1>3, <1>4, <1>5, Zenon

\* Put changes the map at its key only, to its value.
LEMMA PutContents ==
  ASSUME DistinctKeys, SearchInv, NEW k \in Key, NEW v \in Val, Put(k, v)
  PROVE  Contents' = [Contents EXCEPT ![k] = CStr[v]]
<1>1. SearchInv' /\ PutEffect(k, v)
  BY PutFirstStep, PutInLeafStep, PutSplitStep, Zenon DEF Put
<1>2. QED
  BY <1>1, PutOnContents, Zenon

\* Delete removes its key from the map and changes nothing else.
LEMMA DeleteContents ==
  ASSUME DistinctKeys, SearchInv, NEW k \in Key, Delete(k)
  PROVE  Contents' = [Contents EXCEPT ![k] = None]
BY DeleteStep, DeleteOnContents, Zenon

-----------------------------------------------------------------------------
\* A Put that returns has stored its entry, overwriting the key's old one, and
\* has changed no other key, also when it had to split the leaf.
THEOREM PutStores ==
  ASSUME DistinctKeys
  PROVE  Spec => PutTakesEffect
<1>1. SearchInv /\ [Next]_vars =>
        [\A k \in Key, v \in Val :
            Put(k, v) => Contents' = [Contents EXCEPT ![k] = CStr[v]]]_vars
  BY PutContents, Zenon
<1>2. QED
  BY <1>1, SearchInvariant, PTL DEF Spec, PutTakesEffect

\* A Delete has removed its key's entry, and no other.
THEOREM DeleteRemoves ==
  ASSUME DistinctKeys
  PROVE  Spec => DeleteTakesEffect
<1>1. SearchInv /\ [Next]_vars =>
        [\A k \in Key : Delete(k) => Contents' = [Contents EXCEPT ![k] = None]]_vars
  BY DeleteContents, Zenon
<1>2. QED
  BY <1>1, SearchInvariant, PTL DEF Spec, DeleteTakesEffect

\* The leaves, the cached hashes and the search map implement a durable map that
\* only Put and Delete change: not opening, closing, crashing or rebuilding.
THEOREM StoreIsDurableMap ==
  ASSUME DistinctKeys
  PROVE  Spec => ImplementsKVStore
<1>1. Init => Store!Init
  BY DEF Init, Store!Init, Contents, EntriesOf, Entries
<1>2. SearchInv /\ [Next]_vars => [Store!Next]_Store!vars
  <2> SUFFICES ASSUME SearchInv, [Next]_vars PROVE [Store!Next]_Store!vars
    BY Zenon
  <2>1. ASSUME NEW k \in Key, NEW v \in Val, Put(k, v) PROVE Store!Next
    <3>1. isOpen /\ isOpen' = isOpen
      BY <2>1, Zenon DEF Put, PutFirst, PutInLeaf, PutSplit
    <3>2. Store!Put(k, CStr[v])
      BY <2>1, <3>1, PutContents, Zenon DEF Store!Put
    <3>3. QED
      BY <3>2, Zenon DEF Store!Next
  <2>2. ASSUME NEW k \in Key, Delete(k) PROVE Store!Next
    <3>1. isOpen /\ isOpen' = isOpen
      BY <2>2, Zenon DEF Delete
    <3>2. Store!Delete(k)
      BY <2>2, <3>1, DeleteContents, Zenon DEF Store!Delete
    <3>3. QED
      BY <3>2, Zenon DEF Store!Next
  \* The other steps leave the leaves alone.
  <2>3. ASSUME leaves' = leaves, count' = count PROVE Contents' = Contents
    BY <2>3 DEF Contents, EntriesOf, Entries, EntryKey, EntryHash, EntryValue
  <2>4. CASE OpenEmpty \/ OpenExisting
    BY <2>3, <2>4, Zenon DEF OpenEmpty, OpenExisting, Store!Next, Store!Open
  <2>5. CASE Close \/ Crash
    BY <2>3, <2>5, Zenon DEF Close, Crash, LoseVolatile, persistent, Store!Next, Store!CloseOrCrash
  <2>6. CASE UNCHANGED vars
    BY <2>3, <2>6, Zenon DEF vars, Store!vars
  <2>7. QED
    BY <2>1, <2>2, <2>4, <2>5, <2>6, Zenon DEF Next
<1>3. QED
  BY <1>1, <1>2, SearchInvariant, PTL DEF Spec, ImplementsKVStore, Store!Spec
=============================================================================
