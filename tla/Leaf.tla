-------------------------------- MODULE Leaf --------------------------------
(***************************************************************************)
(* The slots of one leaf (utilities/screedb/screedb.cc and screedb.h): the *)
(* persistent leaf, its volatile leaf node, and the methods of ScreeDBTree *)
(* that read or rewrite one leaf.  Nothing here has state of its own: an   *)
(* operator takes a leaf node and returns the leaf node the method leaves. *)
(*                                                                         *)
(* A client's key or value is a Slice.  The code hashes all its bytes, but *)
(* stores, compares and orders only the C string at its data_ pointer, so  *)
(* a slice is abstracted to that string, CStr[x], and to its hash.  A      *)
(* C string is a natural number: its rank under strcmp.  The empty string  *)
(* is 0; it is also what a slot of a new leaf holds.                       *)
(***************************************************************************)
EXTENDS Integers, FiniteSets, FiniteSetsExt

CONSTANTS Key,                 \* key slices
          Val,                 \* value slices
          CStr,                \* the C string at a slice's data_ pointer
          PearsonHash,         \* hash of a key slice, never 0
          Long,                \* strings of more than SSO_CHARS characters
          NODE_KEYS,           \* slots of a leaf
          NODE_KEYS_MIDPOINT,  \* where a full leaf is cut
          None                 \* "not found"

ASSUME SliceAssumption ==
  /\ CStr \in [Key \cup Val -> Nat]
  /\ PearsonHash \in [Key -> 1..255]
  /\ Long \subseteq Nat \ {0}
  /\ None \notin Nat

ASSUME NodeKeysAssumption ==
  /\ NODE_KEYS \in Nat \ {0}
  /\ NODE_KEYS_MIDPOINT \in 0..(NODE_KEYS - 1)

Slot == 0..(NODE_KEYS - 1)
Hashes == [Slot -> 0..255]
SlotStrings == [Slot -> Nat]

\* struct ScreeDBLeaf, and struct ScreeDBLeafNode with the leaf it points to.
\* Field "hashes" of a leaf node is the volatile copy of its leaf's.
PersistentLeaf == [hashes : Hashes, kv_keys : SlotStrings, kv_values : SlotStrings]
LeafNode == [hashes : Hashes, leaf : PersistentLeaf]

NoHashes == [s \in Slot |-> 0]

\* make_persistent<ScreeDBLeaf>() and new ScreeDBLeafNode() zero their fields.
NewLeaf == [hashes |-> NoHashes, kv_keys |-> NoHashes, kv_values |-> NoHashes]
NewLeafNode == [hashes |-> NoHashes, leaf |-> NewLeaf]

EmptySlots(h) == {s \in Slot : h[s] = 0}
UsedSlots(h) == {s \in Slot : h[s] # 0}

\* (Faulty variant: the C strings are not compared.)
MatchingByHashOnly(node, k) == {s \in Slot : node.hashes[s] = PearsonHash[k]}

\* The slots a scan for key k stops at: equal hash, then equal C string.
MatchingSlots(node, k) ==
  {s \in Slot : /\ node.hashes[s] = PearsonHash[k]
                /\ node.leaf.kv_keys[s] = CStr[k]}

\* ScreeDBTree::Get on the leaf node that LeafSearch found.
LeafGet(node, k) ==
  LET found == MatchingSlots(node, k)
  IN  IF found = {} THEN None ELSE node.leaf.kv_values[Max(found)]

\* (Faulty variant: the persistent hash is not written.)
FillForgetsLeafHash(node, k, v, slot) ==
  [hashes |-> [node.hashes EXCEPT ![slot] = PearsonHash[k]],
   leaf   |-> [node.leaf EXCEPT !.kv_keys[slot] = CStr[k], !.kv_values[slot] = CStr[v]]]

\* (Faulty variant: a string left in an empty slot is taken for its key.)
FillKeepsStaleKey(node, k, v, slot) ==
  [hashes |-> [node.hashes EXCEPT ![slot] = PearsonHash[k]],
   leaf   |-> [node.leaf EXCEPT
                 !.hashes[slot] = PearsonHash[k],
                 !.kv_keys[slot] = IF @ = 0 THEN CStr[k] ELSE @,
                 !.kv_values[slot] = CStr[v]]]

\* ScreeDBTree::LeafFillSpecificSlot.  An occupied slot keeps its key.
LeafFillSpecificSlot(node, k, v, slot) ==
  [hashes |-> [node.hashes EXCEPT ![slot] = PearsonHash[k]],
   leaf   |-> [hashes    |-> [node.leaf.hashes EXCEPT ![slot] = PearsonHash[k]],
               kv_keys   |-> IF node.hashes[slot] = 0
                             THEN [node.leaf.kv_keys EXCEPT ![slot] = CStr[k]]
                             ELSE node.leaf.kv_keys,
               kv_values |-> [node.leaf.kv_values EXCEPT ![slot] = CStr[v]]]]

\* (Faulty variant: an empty slot is preferred to a matching one.)
SlotPrefersEmpty(node, k) ==
  IF EmptySlots(node.hashes) # {} THEN Min(EmptySlots(node.hashes))
  ELSE Max(MatchingSlots(node, k))

\* The slot LeafFillSlotForKey fills: the first match from the top if there is
\* one, otherwise the empty slot its downward scan saw last.
SlotForKey(node, k) ==
  LET found == MatchingSlots(node, k)
  IN  IF found # {} THEN Max(found) ELSE Min(EmptySlots(node.hashes))

\* LeafFillSlotForKey returns false, and changes nothing, when this is false.
HasSlotForKey(node, k) ==
  MatchingSlots(node, k) # {} \/ EmptySlots(node.hashes) # {}

LeafFillSlotForKey(node, k, v) ==
  LeafFillSpecificSlot(node, k, v, SlotForKey(node, k))

\* ScreeDBTree::LeafFillFirstEmptySlot: from the top, and silent when full.
LeafFillFirstEmptySlot(node, k, v) ==
  LET free == EmptySlots(node.hashes)
  IN  IF free = {} THEN node ELSE LeafFillSpecificSlot(node, k, v, Max(free))

\* (Faulty variant: only the volatile hash is cleared.)
DeleteVolatileOnly(node, k) ==
  LET found == MatchingSlots(node, k)
  IN  IF found = {} THEN node ELSE [node EXCEPT !.hashes[Max(found)] = 0]

\* ScreeDBTree::Delete on the leaf node that LeafSearch found.
LeafDelete(node, k) ==
  LET found == MatchingSlots(node, k)
  IN  IF found = {} THEN node
      ELSE [node EXCEPT !.hashes[Max(found)] = 0,
                        !.leaf.hashes[Max(found)] = 0]

-----------------------------------------------------------------------------
\* LeafSplit.  The temporary array has the keys of all slots, then the new key.
SplitKeys(node, k) ==
  [i \in 0..NODE_KEYS |-> IF i = NODE_KEYS THEN CStr[k] ELSE node.leaf.kv_keys[i]]

AtOrBelow(keys, x) == {i \in 0..NODE_KEYS : keys[i] <= x}

\* The element at NODE_KEYS_MIDPOINT, from 0, of the sorted array: the least
\* with more than NODE_KEYS_MIDPOINT elements at or below it.
SplitKey(node, k) ==
  LET keys == SplitKeys(node, k)
  IN  Min({x \in {keys[i] : i \in 0..NODE_KEYS} :
             Cardinality(AtOrBelow(keys, x)) > NODE_KEYS_MIDPOINT})

\* (Faulty variant: the split key moves too.)
MovedWithSplitKey(node, split) == {s \in Slot : node.leaf.kv_keys[s] >= split}

MovedSlots(node, split) == {s \in Slot : node.leaf.kv_keys[s] > split}

\* What a moved string leaves in the old slot: a short string is copied to the
\* new leaf, a long one is swapped with the new leaf's empty string.
Residue(str) == IF str \in Long THEN 0 ELSE str

\* The old leaf node once the slots above the split key have been moved out...
LowHalf(node, moved) ==
  [hashes |-> [s \in Slot |-> IF s \in moved THEN 0 ELSE node.hashes[s]],
   leaf   |-> [hashes    |-> [s \in Slot |-> IF s \in moved THEN 0
                                             ELSE node.leaf.hashes[s]],
               kv_keys   |-> [s \in Slot |-> IF s \in moved
                                             THEN Residue(node.leaf.kv_keys[s])
                                             ELSE node.leaf.kv_keys[s]],
               kv_values |-> [s \in Slot |-> IF s \in moved
                                             THEN Residue(node.leaf.kv_values[s])
                                             ELSE node.leaf.kv_values[s]]]]

\* (Faulty variant: the persistent hashes of the new leaf are not written.)
HighHalfForgetsHashes(node, moved) ==
  LET Moved(f) == [s \in Slot |-> IF s \in moved THEN f[s] ELSE 0]
  IN  [hashes |-> Moved(node.hashes),
       leaf   |-> [hashes    |-> NoHashes,
                   kv_keys   |-> Moved(node.leaf.kv_keys),
                   kv_values |-> Moved(node.leaf.kv_values)]]

\* ... and the new one, where each moved entry keeps its slot.
HighHalf(node, moved) ==
  LET Moved(f) == [s \in Slot |-> IF s \in moved THEN f[s] ELSE 0]
  IN  [hashes |-> Moved(node.hashes),
       leaf   |-> [hashes    |-> Moved(node.hashes),
                   kv_keys   |-> Moved(node.leaf.kv_keys),
                   kv_values |-> Moved(node.leaf.kv_values)]]

\* (Faulty variant: the new entry always goes to the new leaf.)
SplitFillsNewLeaf(node, k, v) ==
  LET moved == MovedSlots(node, SplitKey(node, k))
  IN  [low  |-> LowHalf(node, moved),
       high |-> LeafFillFirstEmptySlot(HighHalf(node, moved), k, v)]

\* Both leaf nodes when the transaction of LeafSplit commits: the new entry
\* goes to the half its key belongs to.
LeafSplit(node, k, v) ==
  LET split == SplitKey(node, k)
      low   == LowHalf(node, MovedSlots(node, split))
      high  == HighHalf(node, MovedSlots(node, split))
  IN  IF CStr[k] > split
      THEN [low |-> low, high |-> LeafFillFirstEmptySlot(high, k, v)]
      ELSE [low |-> LeafFillFirstEmptySlot(low, k, v), high |-> high]

-----------------------------------------------------------------------------
\* The highest key in use in a leaf, as RebuildNodes finds it.
MaxKey(leaf) == Max({leaf.kv_keys[s] : s \in UsedSlots(leaf.hashes)})
=============================================================================
