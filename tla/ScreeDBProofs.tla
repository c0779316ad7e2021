--------------------------- MODULE ScreeDBProofs ----------------------------
(***************************************************************************)
(* Proofs about the leaves and the strings of ScreeDB, for every number of *)
(* slots, leaves, keys and strings and every hash function: the types,     *)
(* cached hashes and counters of LeafStore, and that the strings of        *)
(* ScreeDBString own their memory.                                         *)
(***************************************************************************)
EXTENDS LeafStore, ScreeDBString, FiniteSetTheorems, TLAPS

-----------------------------------------------------------------------------
(***************************************************************************)
(* Lemmas about the operators of module Leaf, for every number of slots,   *)
(* every set of keys and every hash function; and, from them, theorems     *)
(* about LeafStore for every number of leaves in the pool: its types, its  *)
(* cached hashes and its counters.                                         *)
(***************************************************************************)

(***************************************************************************)
(* Extremes of sets of numbers.                                            *)
(***************************************************************************)
\* A set of natural numbers that is not empty has a least element, and Min is it.
LEMMA MinOfNats ==
  ASSUME NEW S \in SUBSET Nat, S # {}
  PROVE  Min(S) \in S /\ \A y \in S : Min(S) <= y
<1>1. \E R : /\ IsWellFoundedOn(R, Nat)
             /\ \A x, y \in Nat : x < y => <<x, y>> \in R
  <2>1. \A x, y \in Nat : x < y => <<x, y>> \in OpToRel(<, Nat)
    BY Zenon DEF OpToRel
  <2>2. QED
    BY <2>1, NatLessThanWellFounded, Zenon
<1>2. PICK R : /\ IsWellFoundedOn(R, Nat)
               /\ \A x, y \in Nat : x < y => <<x, y>> \in R
  BY <1>1, Zenon
<1>3. S \subseteq Nat
  BY Zenon
<1>4. \E x \in S : \A y \in S : ~(<<y, x>> \in R)
  <2>1. IsWellFoundedOn(R, Nat)
    BY <1>2, Zenon
  <2>2. S # {}
    BY Zenon
  <2>3. QED
    BY <1>3, <2>1, <2>2, WFMin, Zenon
<1>5. PICK x \in S : \A y \in S : ~(<<y, x>> \in R)
  BY <1>4, Zenon
<1>6. ASSUME NEW y \in S PROVE x <= y
  <2>1. ~(y < x)
    BY <1>2, <1>3, <1>5, Zenon
  <2>2. QED
    BY <1>3, <2>1
<1>7. QED
  BY <1>6, Zenon DEF Min

\* A numbering of a set that is not empty is least somewhere, ...
LEMMA ArgMin ==
  ASSUME NEW S, S # {}, NEW f \in [S -> Nat]
  PROVE  \E m \in S : \A y \in S : f[m] <= f[y]
<1> DEFINE T == {f[x] : x \in S}
<1>1. T \in SUBSET Nat /\ T # {}
  BY Zenon
<1>2. Min(T) \in T /\ \A y \in T : Min(T) <= y
  <2> HIDE DEF T
  <2> QED BY <1>1, MinOfNats, Zenon
<1>3. QED
  BY <1>2, Zenon

\* ... and, if the set is finite, greatest somewhere.
LEMMA ArgMax ==
  ASSUME NEW S, S # {}, IsFiniteSet(S), NEW f \in [S -> Nat]
  PROVE  \E m \in S : \A y \in S : f[y] <= f[m]
<1> DEFINE Above(x) == {y \in S : f[x] < f[y]}
           g == [x \in S |-> Cardinality(Above(x))]
<1>1. ASSUME NEW x \in S
      PROVE  IsFiniteSet(Above(x)) /\ Cardinality(Above(x)) \in Nat
  <2>1. Above(x) \in SUBSET S
    BY Zenon
  <2> HIDE DEF Above
  <2>2. IsFiniteSet(Above(x))
    BY <2>1, FS_Subset, Zenon
  <2>3. QED
    BY <2>2, FS_CardinalityType, Zenon
<1>2. g \in [S -> Nat]
  BY <1>1, Zenon
<1>3. PICK m \in S : \A y \in S : g[m] <= g[y]
  <2> HIDE DEF g
  <2> QED BY <1>2, ArgMin, Zenon
<1>4. ASSUME NEW y \in S, f[m] < f[y] PROVE FALSE
  <2>1. Above(y) \in SUBSET Above(m) /\ y \in Above(m) /\ y \notin Above(y)
    BY <1>4
  <2>2. Cardinality(Above(m)) <= Cardinality(Above(y))
    BY <1>3, Zenon
  <2> HIDE DEF Above
  <2>3. /\ Cardinality(Above(y)) <= Cardinality(Above(m))
        /\ Cardinality(Above(m)) = Cardinality(Above(y)) => Above(m) = Above(y)
    BY <1>1, <2>1, FS_Subset, Zenon
  <2>4. Above(m) = Above(y)
    BY <1>1, <2>2, <2>3
  <2>5. QED
    BY <2>1, <2>4, Zenon
<1>5. QED
  BY <1>4

\* A finite set of natural numbers has a greatest element, and Max is it.
LEMMA MaxOfNats ==
  ASSUME NEW S \in SUBSET Nat, S # {}, IsFiniteSet(S)
  PROVE  Max(S) \in S /\ \A y \in S : y <= Max(S)
<1> DEFINE id == [x \in S |-> x]
<1>1. id \in [S -> Nat]
  BY Zenon
<1>2. PICK m \in S : \A y \in S : id[y] <= id[m]
  <2> HIDE DEF id
  <2> QED BY <1>1, ArgMax, Zenon
<1>3. \E x \in S : \A y \in S : x >= y
  BY <1>2, Zenon
<1>4. QED
  BY <1>3, Zenon DEF Max

-----------------------------------------------------------------------------
(***************************************************************************)
(* Slots.                                                                  *)
(***************************************************************************)
\* The scans over the slots of a leaf find a slot when there is one.
LEMMA SlotExtremes ==
  ASSUME NEW S \in SUBSET Slot, S # {}
  PROVE  Max(S) \in S /\ Min(S) \in S
<1>1. IsFiniteSet(Slot) /\ Slot \subseteq Nat
  BY FS_Interval, NodeKeysAssumption DEF Slot
<1>2. IsFiniteSet(S) /\ S \in SUBSET Nat
  BY <1>1, FS_Subset, Zenon
<1>3. QED
  BY <1>2, MinOfNats, MaxOfNats, Zenon

\* The volatile hashes of a leaf node are those of its leaf.
Coherent(node) == node.hashes = node.leaf.hashes

\* Leaf a has in slot s what leaf b has there; leaf a has the entry of k in slot t.
SameSlot(a, b, s) ==
  /\ a.hashes[s] = b.hashes[s]
  /\ a.kv_keys[s] = b.kv_keys[s]
  /\ a.kv_values[s] = b.kv_values[s]

EntryInSlot(a, k, v, t) ==
  /\ a.hashes[t] = PearsonHash[k]
  /\ a.kv_keys[t] = CStr[k]
  /\ a.kv_values[t] = CStr[v]

\* What a slice is in memory.
LEMMA SliceTypes ==
  /\ \A k \in Key : CStr[k] \in Nat /\ PearsonHash[k] \in 1..255
  /\ \A v \in Val : CStr[v] \in Nat
BY SliceAssumption, SMTT(30)

\* LeafFillSpecificSlot writes both hashes and the value of one slot, and the
\* key if the slot is empty.
LEMMA FillSlot ==
  ASSUME NEW node \in LeafNode, NEW k \in Key, NEW v \in Val, NEW slot \in Slot
  PROVE  LET r == LeafFillSpecificSlot(node, k, v, slot)
         IN  /\ r \in LeafNode
             /\ Coherent(node) => Coherent(r)
             /\ r.leaf.hashes[slot] = PearsonHash[k]
             /\ r.leaf.kv_values[slot] = CStr[v]
             /\ r.leaf.kv_keys[slot] = IF node.hashes[slot] = 0 THEN CStr[k]
                                       ELSE node.leaf.kv_keys[slot]
             /\ \A s \in Slot \ {slot} :
                   /\ r.leaf.hashes[s] = node.leaf.hashes[s]
                   /\ r.leaf.kv_keys[s] = node.leaf.kv_keys[s]
                   /\ r.leaf.kv_values[s] = node.leaf.kv_values[s]
BY SliceTypes, SMTT(30) DEF LeafFillSpecificSlot, LeafNode, PersistentLeaf, Hashes, SlotStrings, Coherent

\* LeafFillSlotForKey takes a matching slot if there is one and else an empty one.
LEMMA SlotForKeyChoice ==
  ASSUME NEW node \in LeafNode, NEW k \in Key, HasSlotForKey(node, k)
  PROVE  /\ SlotForKey(node, k) \in Slot
         /\ IF MatchingSlots(node, k) # {}
            THEN SlotForKey(node, k) \in MatchingSlots(node, k)
            ELSE SlotForKey(node, k) \in EmptySlots(node.hashes)
<1>1. MatchingSlots(node, k) \in SUBSET Slot /\ EmptySlots(node.hashes) \in SUBSET Slot
  BY Zenon DEF MatchingSlots, EmptySlots
<1>2. QED
  BY <1>1, SlotExtremes, Zenon DEF SlotForKey, HasSlotForKey

\* LeafFillSlotForKey stores the entry in that slot and leaves the others alone.
LEMMA FillSlotForKey ==
  ASSUME NEW node \in LeafNode, NEW k \in Key, NEW v \in Val,
         Coherent(node), HasSlotForKey(node, k)
  PROVE  LET r == LeafFillSlotForKey(node, k, v)
         IN  \E t \in Slot :
               /\ EntryInSlot(r.leaf, k, v, t)
               /\ \A s \in Slot \ {t} : SameSlot(r.leaf, node.leaf, s)
               /\ MatchingSlots(node, k) # {} => t \in MatchingSlots(node, k)
               /\ MatchingSlots(node, k) = {} => node.leaf.hashes[t] = 0
<1> DEFINE t == SlotForKey(node, k)
<1>1. /\ t \in Slot
      /\ MatchingSlots(node, k) # {} => t \in MatchingSlots(node, k)
      /\ MatchingSlots(node, k) = {} => node.hashes[t] = 0
  BY SlotForKeyChoice, Zenon DEF EmptySlots
<1> HIDE DEF t
<1>2. t \in MatchingSlots(node, k) => node.leaf.kv_keys[t] = CStr[k]
  BY Zenon DEF MatchingSlots
<1>3. LeafFillSlotForKey(node, k, v) = LeafFillSpecificSlot(node, k, v, t)
  BY Zenon DEF LeafFillSlotForKey, t
<1>4. node.leaf.hashes[t] = node.hashes[t]
  BY Zenon DEF Coherent
<1>5. QED
  BY <1>1, <1>2, <1>3, <1>4, FillSlot, SMTT(30) DEF EntryInSlot, SameSlot

\* Delete clears both hashes of a matching slot, or does nothing if there is none.
LEMMA DeleteSlot ==
  ASSUME NEW node \in LeafNode, NEW k \in Key
  PROVE  LET r == LeafDelete(node, k)
         IN  /\ r \in LeafNode
             /\ Coherent(node) => Coherent(r)
             /\ r.leaf.kv_keys = node.leaf.kv_keys
             /\ r.leaf.kv_values = node.leaf.kv_values
             /\ MatchingSlots(node, k) = {} => r = node
             /\ MatchingSlots(node, k) # {} =>
                  \E t \in MatchingSlots(node, k) :
                     r.leaf.hashes = [node.leaf.hashes EXCEPT ![t] = 0]
<1> DEFINE found == MatchingSlots(node, k)
<1>1. CASE found = {}
  BY <1>1, Zenon DEF LeafDelete
<1>2. CASE found # {}
  <2> DEFINE t == Max(found)
  <2>1. found \in SUBSET Slot
    BY Zenon DEF MatchingSlots
  <2>2. t \in found /\ t \in Slot
    BY <1>2, <2>1, SlotExtremes, Zenon
  <2>3. LeafDelete(node, k) =
          [hashes |-> [node.hashes EXCEPT ![t] = 0],
           leaf   |-> [hashes    |-> [node.leaf.hashes EXCEPT ![t] = 0],
                       kv_keys   |-> node.leaf.kv_keys,
                       kv_values |-> node.leaf.kv_values]]
    BY <1>2, Zenon DEF LeafDelete, LeafNode, PersistentLeaf
  <2> HIDE DEF t
  <2>4. LeafDelete(node, k) \in LeafNode
    BY <2>2, <2>3 DEF LeafNode, PersistentLeaf, Hashes
  <2>5. Coherent(node) => Coherent(LeafDelete(node, k))
    BY <2>3 DEF Coherent
  <2>6. LeafDelete(node, k).leaf.hashes = [node.leaf.hashes EXCEPT ![t] = 0]
    BY <2>3
  <2>7. /\ LeafDelete(node, k).leaf.kv_keys = node.leaf.kv_keys
        /\ LeafDelete(node, k).leaf.kv_values = node.leaf.kv_values
    BY <2>3
  <2>8. QED
    BY <1>2, <2>2, <2>4, <2>5, <2>6, <2>7, Zenon
<1>3. QED
  BY <1>1, <1>2, Zenon

-----------------------------------------------------------------------------
(***************************************************************************)
(* Splitting a leaf.                                                       *)
(***************************************************************************)
Indices == 0..NODE_KEYS

\* LeafSplit sorts NODE_KEYS + 1 keys: those of the slots and the new one.
LEMMA IndicesFinite ==
  /\ IsFiniteSet(Indices)
  /\ Cardinality(Indices) = NODE_KEYS + 1
  /\ 0 \in Indices /\ NODE_KEYS \in Indices
BY FS_Interval, NodeKeysAssumption DEF Indices

\* The keys LeafSplit sorts: those of the slots, then the new key.
LEMMA SplitKeysType ==
  ASSUME NEW node \in LeafNode, NEW k \in Key
  PROVE  /\ SplitKeys(node, k) \in [Indices -> Nat]
         /\ SplitKeys(node, k)[NODE_KEYS] = CStr[k]
         /\ \A s \in Slot : s \in Indices /\ s # NODE_KEYS
                             /\ SplitKeys(node, k)[s] = node.leaf.kv_keys[s]
BY SliceTypes, NodeKeysAssumption
   DEF SplitKeys, LeafNode, PersistentLeaf, SlotStrings, Slot, Indices

\* LeafSplit reads its split key from the temporary array, and it is the least
\* of the keys that have more than NODE_KEYS_MIDPOINT keys at or below them.
LEMMA SplitKeyChoice ==
  ASSUME NEW node \in LeafNode, NEW k \in Key
  PROVE  LET keys == SplitKeys(node, k)
             split == SplitKey(node, k)
         IN  /\ split \in Nat
             /\ \E i \in Indices : split = keys[i]
             /\ \A j \in Indices :
                   Cardinality(AtOrBelow(keys, keys[j])) > NODE_KEYS_MIDPOINT
                      => split <= keys[j]
<1> DEFINE keys == SplitKeys(node, k)
           cand == {x \in {keys[i] : i \in Indices} :
                      Cardinality(AtOrBelow(keys, x)) > NODE_KEYS_MIDPOINT}
<1>1. keys \in [Indices -> Nat]
  BY SplitKeysType, Zenon
<1> HIDE DEF keys
<1>2. PICK m \in Indices : \A i \in Indices : keys[i] <= keys[m]
  BY <1>1, IndicesFinite, ArgMax, Zenon
<1>3. AtOrBelow(keys, keys[m]) = Indices
  BY <1>2, Zenon DEF AtOrBelow, Indices
<1>4. keys[m] \in cand
  BY <1>3, IndicesFinite, NodeKeysAssumption
<1>5. cand \in SUBSET Nat
  BY <1>1, Zenon
<1>6. SplitKey(node, k) = Min(cand)
  BY Zenon DEF SplitKey, keys, Indices
<1>7. Min(cand) \in cand /\ \A y \in cand : Min(cand) <= y
  <2> HIDE DEF cand
  <2> QED BY <1>4, <1>5, MinOfNats, Zenon
<1>8. /\ SplitKey(node, k) \in Nat
      /\ \E i \in Indices : SplitKey(node, k) = keys[i]
      /\ \A j \in Indices :
            Cardinality(AtOrBelow(keys, keys[j])) > NODE_KEYS_MIDPOINT
               => SplitKey(node, k) <= keys[j]
  BY <1>5, <1>6, <1>7, Zenon
<1>9. QED
  BY <1>8, Zenon DEF keys

\* When the keys are distinct, one of them sorts above the split key: the half
\* that keeps the split key has lost a slot.
LEMMA SomeKeyAboveSplit ==
  ASSUME NEW node \in LeafNode, NEW k \in Key,
         \A i, j \in Indices :
            SplitKeys(node, k)[i] = SplitKeys(node, k)[j] => i = j
  PROVE  \E i \in Indices : SplitKeys(node, k)[i] > SplitKey(node, k)
<1> DEFINE keys == SplitKeys(node, k)
           split == SplitKey(node, k)
<1>1. /\ keys \in [Indices -> Nat]
      /\ split \in Nat
      /\ \A j \in Indices :
            Cardinality(AtOrBelow(keys, keys[j])) > NODE_KEYS_MIDPOINT
               => split <= keys[j]
  BY SplitKeysType, SplitKeyChoice, Zenon
<1>2. PICK j \in Indices : split = keys[j]
  BY SplitKeyChoice, Zenon
<1>3. \A i \in Indices : keys[i] = keys[j] => i = j
  BY Zenon
<1> HIDE DEF keys, split
<1> SUFFICES ASSUME \A i \in Indices : keys[i] <= split
             PROVE  FALSE
  BY <1>1 DEF keys, split
<1> DEFINE rest == Indices \ {j}
           f == [i \in rest |-> keys[i]]
<1>4. /\ IsFiniteSet(rest)
      /\ Cardinality(rest) = NODE_KEYS
  <2>1. /\ IsFiniteSet(rest)
        /\ Cardinality(rest) = Cardinality(Indices) - 1
    BY IndicesFinite, FS_RemoveElement, Zenon
  <2> HIDE DEF rest
  <2> QED BY <2>1, IndicesFinite, NodeKeysAssumption
<1>5. rest # {}
  BY IndicesFinite, NodeKeysAssumption, Zenon
<1>6. f \in [rest -> Nat]
  BY <1>1, Zenon
<1>7. PICK m \in rest : \A i \in rest : f[i] <= f[m]
  <2> HIDE DEF f, rest
  <2> QED BY <1>4, <1>5, <1>6, ArgMax, Zenon
<1>8. keys[m] < split
  BY <1>1, <1>2, <1>3
<1>9. AtOrBelow(keys, keys[m]) = rest
  <2>1. \A i \in rest : i \in Indices /\ keys[i] <= keys[m]
    BY <1>7, Zenon
  <2>2. ~(keys[j] <= keys[m])
    BY <1>1, <1>2, <1>8
  <2>3. AtOrBelow(keys, keys[m]) = {i \in Indices : keys[i] <= keys[m]}
    BY SMTT(30) DEF AtOrBelow, Indices
  <2>4. QED
    BY <2>1, <2>2, <2>3, Zenon
<1>10. QED
  BY <1>1, <1>4, <1>8, <1>9, NodeKeysAssumption

\* The old leaf without the moved slots ...
LEMMA LowHalfSlots ==
  ASSUME NEW node \in LeafNode, NEW moved \in SUBSET Slot
  PROVE  LET r == LowHalf(node, moved)
         IN  /\ r \in LeafNode
             /\ Coherent(node) => Coherent(r)
             /\ \A s \in moved : r.hashes[s] = 0
             /\ \A s \in Slot \ moved :
                   /\ r.hashes[s] = node.hashes[s]
                   /\ r.leaf.kv_keys[s] = node.leaf.kv_keys[s]
                   /\ r.leaf.kv_values[s] = node.leaf.kv_values[s]
<1> DEFINE r == LowHalf(node, moved)
           Kept(f) == [s \in Slot |-> IF s \in moved THEN 0 ELSE f[s]]
           Left(f) == [s \in Slot |-> IF s \in moved THEN Residue(f[s]) ELSE f[s]]
<1>1. /\ node.hashes \in [Slot -> 0..255] /\ node.leaf.hashes \in [Slot -> 0..255]
      /\ node.leaf.kv_keys \in [Slot -> Nat] /\ node.leaf.kv_values \in [Slot -> Nat]
  BY DEF LeafNode, PersistentLeaf, Hashes, SlotStrings
<1>2. 0 \in 0..255 /\ \A n \in Nat : Residue(n) \in Nat
  BY DEF Residue
<1>3. r = [hashes |-> Kept(node.hashes),
           leaf |-> [hashes |-> Kept(node.leaf.hashes), kv_keys |-> Left(node.leaf.kv_keys),
                     kv_values |-> Left(node.leaf.kv_values)]]
  BY Zenon DEF LowHalf
<1>4. /\ r.hashes = Kept(node.hashes) /\ r.leaf.hashes = Kept(node.leaf.hashes)
      /\ r.leaf.kv_keys = Left(node.leaf.kv_keys)
      /\ r.leaf.kv_values = Left(node.leaf.kv_values)
  BY Zenon DEF LowHalf
<1>5. /\ Kept(node.hashes) \in [Slot -> 0..255] /\ Kept(node.leaf.hashes) \in [Slot -> 0..255]
      /\ Left(node.leaf.kv_keys) \in [Slot -> Nat]
      /\ Left(node.leaf.kv_values) \in [Slot -> Nat]
  BY <1>1, <1>2, Zenon
<1> HIDE DEF r
<1>6. r \in LeafNode
  <2> HIDE DEF Kept, Left
  <2> QED BY <1>3, <1>5, Zenon DEF LeafNode, PersistentLeaf, Hashes, SlotStrings
<1> QED BY <1>4, <1>6, Zenon DEF Coherent, r

\* ... and the new leaf with them.
LEMMA HighHalfSlots ==
  ASSUME NEW node \in LeafNode, NEW moved \in SUBSET Slot
  PROVE  LET r == HighHalf(node, moved)
         IN  /\ r \in LeafNode
             /\ Coherent(r)
             /\ \A s \in Slot \ moved : r.hashes[s] = 0
             /\ \A s \in moved :
                   /\ r.hashes[s] = node.hashes[s]
                   /\ r.leaf.kv_keys[s] = node.leaf.kv_keys[s]
                   /\ r.leaf.kv_values[s] = node.leaf.kv_values[s]
<1> DEFINE r == HighHalf(node, moved)
           Moved(f) == [s \in Slot |-> IF s \in moved THEN f[s] ELSE 0]
<1>1. /\ node.hashes \in [Slot -> 0..255]
      /\ node.leaf.kv_keys \in [Slot -> Nat] /\ node.leaf.kv_values \in [Slot -> Nat]
  BY Zenon DEF LeafNode, PersistentLeaf, Hashes, SlotStrings
<1>2. 0 \in 0..255 /\ 0 \in Nat
  OBVIOUS
<1>3. r = [hashes |-> Moved(node.hashes),
           leaf |-> [hashes |-> Moved(node.hashes), kv_keys |-> Moved(node.leaf.kv_keys),
                     kv_values |-> Moved(node.leaf.kv_values)]]
  BY Zenon DEF HighHalf
<1>4. /\ r.hashes = Moved(node.hashes) /\ r.leaf.hashes = Moved(node.hashes)
      /\ r.leaf.kv_keys = Moved(node.leaf.kv_keys)
      /\ r.leaf.kv_values = Moved(node.leaf.kv_values)
  BY Zenon DEF HighHalf
<1>5. /\ Moved(node.hashes) \in [Slot -> 0..255]
      /\ Moved(node.leaf.kv_keys) \in [Slot -> Nat]
      /\ Moved(node.leaf.kv_values) \in [Slot -> Nat]
  BY <1>1, <1>2, Zenon
<1> HIDE DEF r
<1>6. r \in LeafNode
  <2> HIDE DEF Moved
  <2> QED BY <1>3, <1>5, Zenon DEF LeafNode, PersistentLeaf, Hashes, SlotStrings
<1> QED BY <1>4, <1>6, Zenon DEF Coherent, r

\* LeafFillFirstEmptySlot fills an empty slot, or leaves a full leaf as it is.
LEMMA FillFirstEmptySlot ==
  ASSUME NEW node \in LeafNode, NEW k \in Key, NEW v \in Val
  PROVE  LET r == LeafFillFirstEmptySlot(node, k, v)
         IN  /\ r \in LeafNode
             /\ Coherent(node) => Coherent(r)
             /\ EmptySlots(node.hashes) # {} =>
                  \E t \in EmptySlots(node.hashes) :
                     r = LeafFillSpecificSlot(node, k, v, t)
<1> DEFINE free == EmptySlots(node.hashes)
           t == Max(free)
<1>1. free \in SUBSET Slot
  BY Zenon DEF EmptySlots
<1>2. CASE free = {}
  BY <1>2, Zenon DEF LeafFillFirstEmptySlot
<1>3. CASE free # {}
  <2>1. t \in free /\ t \in Slot
    BY <1>1, <1>3, SlotExtremes, Zenon
  <2>2. LeafFillFirstEmptySlot(node, k, v) = LeafFillSpecificSlot(node, k, v, t)
    BY <1>3, Zenon DEF LeafFillFirstEmptySlot
  <2> HIDE DEF t
  <2>3. QED
    BY <2>1, <2>2, FillSlot
<1>4. QED
  BY <1>2, <1>3, Zenon

\* Both halves are leaf nodes again, with their hashes cached.
LEMMA LeafSplitType ==
  ASSUME NEW node \in LeafNode, NEW k \in Key, NEW v \in Val
  PROVE  /\ LeafSplit(node, k, v).low \in LeafNode
         /\ LeafSplit(node, k, v).high \in LeafNode
         /\ Coherent(node) => /\ Coherent(LeafSplit(node, k, v).low)
                              /\ Coherent(LeafSplit(node, k, v).high)
<1> DEFINE moved == MovedSlots(node, SplitKey(node, k))
<1>1. moved \in SUBSET Slot
  BY Zenon DEF MovedSlots
<1> HIDE DEF moved
<1>2. /\ LowHalf(node, moved) \in LeafNode
      /\ Coherent(node) => Coherent(LowHalf(node, moved))
      /\ HighHalf(node, moved) \in LeafNode
      /\ Coherent(HighHalf(node, moved))
  BY <1>1, LowHalfSlots, HighHalfSlots, Zenon
<1>3. QED
  BY <1>2, FillFirstEmptySlot, Zenon DEF LeafSplit, moved

\* The leaf old becomes low and high: what is above the split key is in high, in
\* its old slot, the rest is in low, and slot t of the right one has the new entry.
SplitOutcome(old, low, high, split, k, v, t) ==
  /\ EntryInSlot(IF CStr[k] > split THEN high ELSE low, k, v, t)
  /\ CStr[k] > split => old.kv_keys[t] <= split
  /\ CStr[k] <= split => old.kv_keys[t] > split
  /\ \A s \in Slot :
        /\ old.kv_keys[s] <= split => SameSlot(low, old, s)
        /\ old.kv_keys[s] > split => SameSlot(high, old, s)
        /\ old.kv_keys[s] > split /\ ~(s = t /\ CStr[k] <= split) => low.hashes[s] = 0
        /\ old.kv_keys[s] <= split /\ ~(s = t /\ CStr[k] > split) => high.hashes[s] = 0

\* A full leaf with distinct keys, split for a key it does not have: each entry
\* is in the half its key belongs to, in its old slot, and the new one is stored
\* in a slot that was free.  LeafFillFirstEmptySlot never finds the leaf full.
LEMMA LeafSplitSlots ==
  ASSUME NEW node \in LeafNode, NEW k \in Key, NEW v \in Val,
         Coherent(node), EmptySlots(node.hashes) = {},
         \A r, s \in Slot : node.leaf.kv_keys[r] = node.leaf.kv_keys[s] => r = s,
         \A s \in Slot : node.leaf.kv_keys[s] # CStr[k]
  PROVE  \E t \in Slot : SplitOutcome(node.leaf, LeafSplit(node, k, v).low.leaf,
                                     LeafSplit(node, k, v).high.leaf,
                                     SplitKey(node, k), k, v, t)
<1> DEFINE old == node.leaf
           low == LeafSplit(node, k, v).low.leaf
           high == LeafSplit(node, k, v).high.leaf
           keys == SplitKeys(node, k)
           split == SplitKey(node, k)
           moved == MovedSlots(node, split)
           L == LowHalf(node, moved)
           H == HighHalf(node, moved)
<1>1. /\ split \in Nat /\ CStr[k] \in Nat
      /\ \A s \in Slot : old.kv_keys[s] \in Nat
  BY SplitKeyChoice, SliceTypes, Zenon DEF LeafNode, PersistentLeaf, SlotStrings
<1>2. Indices = Slot \cup {NODE_KEYS}
  BY NodeKeysAssumption DEF Indices, Slot
<1>3. /\ keys[NODE_KEYS] = CStr[k]
      /\ \A s \in Slot : keys[s] = old.kv_keys[s]
  BY SplitKeysType
<1>4. \A i, j \in Indices : keys[i] = keys[j] => i = j
  BY <1>2, <1>3
<1>5. \E i \in Indices : keys[i] > split
  BY <1>4, SomeKeyAboveSplit, Zenon
<1>6. \E i \in Indices : keys[i] = split
  BY SplitKeyChoice, Zenon
<1>7. moved \in SUBSET Slot /\ \A s \in Slot : s \in moved <=> old.kv_keys[s] > split
  BY Zenon DEF MovedSlots
<1> HIDE DEF moved, split, keys
<1>8. /\ L \in LeafNode /\ Coherent(L)
      /\ \A s \in moved : L.hashes[s] = 0
      /\ \A s \in Slot \ moved : SameSlot(L.leaf, old, s)
  BY <1>7, LowHalfSlots DEF Coherent, SameSlot
<1>9. /\ H \in LeafNode /\ Coherent(H)
      /\ \A s \in Slot \ moved : H.hashes[s] = 0
      /\ \A s \in moved : SameSlot(H.leaf, old, s)
  BY <1>7, HighHalfSlots, SMTT(30) DEF Coherent, SameSlot
<1>10. CASE CStr[k] > split
  <2>1. low = L.leaf /\ high = LeafFillFirstEmptySlot(H, k, v).leaf
    BY <1>10, Zenon DEF LeafSplit, moved, split
  <2>2. \E s \in Slot : old.kv_keys[s] <= split
    BY <1>1, <1>2, <1>3, <1>6, <1>10
  <2>3. EmptySlots(H.hashes) # {}
    BY <1>1, <1>7, <1>9, <2>2 DEF EmptySlots
  <2>4. PICK t \in EmptySlots(H.hashes) : high = LeafFillSpecificSlot(H, k, v, t).leaf
    <3> HIDE DEF H
    <3> QED BY <1>9, <2>1, <2>3, FillFirstEmptySlot, Zenon
  <2>5. t \in Slot /\ H.hashes[t] = 0
    BY Zenon DEF EmptySlots
  <2>6. EntryInSlot(high, k, v, t) /\ \A s \in Slot \ {t} : SameSlot(high, H.leaf, s)
    <3> HIDE DEF H
    <3> QED BY <1>9, <2>4, <2>5, FillSlot, SMTT(30) DEF EntryInSlot, SameSlot
  <2>7. t \notin moved
    BY <1>7, <1>9, <2>5, SMTT(30) DEF EmptySlots, SameSlot, Coherent
  <2>8. \A s \in Slot :
           /\ old.kv_keys[s] <= split => SameSlot(low, old, s)
           /\ old.kv_keys[s] > split => SameSlot(high, old, s)
           /\ old.kv_keys[s] > split => low.hashes[s] = 0
           /\ old.kv_keys[s] <= split /\ s # t => high.hashes[s] = 0
    BY <1>1, <1>7, <1>8, <1>9, <2>1, <2>6, <2>7, SMTT(30) DEF SameSlot, Coherent
  <2>9. old.kv_keys[t] <= split
    BY <1>1, <1>7, <2>5, <2>7, SMTT(30)
  <2>10. QED
    BY <1>1, <1>10, <2>5, <2>6, <2>8, <2>9 DEF split, SplitOutcome
<1>11. CASE CStr[k] <= split
  <2>1. low = LeafFillFirstEmptySlot(L, k, v).leaf /\ high = H.leaf
    BY <1>1, <1>11, SMTT(30) DEF LeafSplit, moved, split
  <2>2. \E s \in Slot : old.kv_keys[s] > split
    BY <1>1, <1>2, <1>3, <1>5, <1>11
  <2>3. EmptySlots(L.hashes) # {}
    BY <1>7, <1>8, <2>2, Zenon DEF EmptySlots
  <2>4. PICK t \in EmptySlots(L.hashes) : low = LeafFillSpecificSlot(L, k, v, t).leaf
    <3> HIDE DEF L
    <3> QED BY <1>8, <2>1, <2>3, FillFirstEmptySlot, Zenon
  <2>5. t \in Slot /\ L.hashes[t] = 0
    BY Zenon DEF EmptySlots
  <2>6. EntryInSlot(low, k, v, t) /\ \A s \in Slot \ {t} : SameSlot(low, L.leaf, s)
    <3> HIDE DEF L
    <3> QED BY <1>8, <2>4, <2>5, FillSlot, SMTT(30) DEF EntryInSlot, SameSlot
  <2>7. t \in moved
    BY <1>7, <1>8, <2>5, SMTT(30) DEF EmptySlots, SameSlot, Coherent
  <2>8. \A s \in Slot :
           /\ old.kv_keys[s] <= split => SameSlot(low, old, s)
           /\ old.kv_keys[s] > split => SameSlot(high, old, s)
           /\ old.kv_keys[s] > split /\ s # t => low.hashes[s] = 0
           /\ old.kv_keys[s] <= split => high.hashes[s] = 0
    BY <1>1, <1>7, <1>8, <1>9, <2>1, <2>6, <2>7 DEF SameSlot, Coherent
  <2>9. old.kv_keys[t] > split
    BY <1>7, <2>7, Zenon
  <2>10. QED
    BY <1>1, <1>11, <2>5, <2>6, <2>8, <2>9, SMTT(30) DEF split, SplitOutcome
<1>12. QED
  BY <1>1, <1>10, <1>11

-----------------------------------------------------------------------------
\* RebuildNodes finds the highest key of a leaf that has a key in use.
LEMMA MaxKeyOfLeaf ==
  ASSUME NEW leaf \in PersistentLeaf, UsedSlots(leaf.hashes) # {}
  PROVE  /\ MaxKey(leaf) \in Nat
         /\ \E s \in UsedSlots(leaf.hashes) : MaxKey(leaf) = leaf.kv_keys[s]
         /\ \A s \in UsedSlots(leaf.hashes) : leaf.kv_keys[s] <= MaxKey(leaf)
<1> DEFINE used == UsedSlots(leaf.hashes)
           f == [s \in used |-> leaf.kv_keys[s]]
           S == {leaf.kv_keys[s] : s \in used}
<1>1. used \in SUBSET Slot
  BY Zenon DEF UsedSlots
<1> HIDE DEF used
<1>2. IsFiniteSet(used)
  <2>1. IsFiniteSet(Slot)
    BY FS_Interval, NodeKeysAssumption DEF Slot
  <2>2. QED
    BY <1>1, <2>1, FS_Subset, Zenon
<1>3. f \in [used -> Nat]
  BY <1>1, Zenon DEF PersistentLeaf, SlotStrings
<1>4. PICK m \in used : \A s \in used : f[s] <= f[m]
  <2> HIDE DEF f
  <2> QED BY <1>2, <1>3, ArgMax, Zenon DEF used
<1>5. \E x \in S : \A y \in S : x >= y
  BY <1>3, <1>4, Zenon
<1>6. Max(S) \in S /\ \A y \in S : Max(S) >= y
  BY <1>5, Zenon DEF Max
<1>7. MaxKey(leaf) = Max(S)
  BY Zenon DEF MaxKey, used
<1>8. S \subseteq Nat
  BY <1>3, Zenon
<1>9. QED
  BY <1>6, <1>7, <1>8, Zenon DEF used

-----------------------------------------------------------------------------
(***************************************************************************)
(* The leaf nodes, and the map that RebuildNodes computes.                 *)
(***************************************************************************)

\* A leaf node is the persistent leaf with its cached hashes.
LEMMA NodeType ==
  ASSUME TypeOK, NEW l \in LeafId
  PROVE  /\ Node(l) \in LeafNode
         /\ Node(l).leaf = leaves[l]
         /\ Node(l).hashes = cache[l]
BY Zenon DEF TypeOK, Node, LeafNode

\* LeafSearch finds one of the leaves allocated so far, or none (0).
LEMMA SearchType ==
  ASSUME TypeOK, NEW k \in Key
  PROVE  /\ CStr[k] \in KeyStr
         /\ LeafSearch(k) \in 0..count
         /\ LeafSearch(k) # 0 => LeafSearch(k) \in LeafId
BY BoundsAssumption DEF TypeOK, LeafSearch, KeyStr, LeafId

\* The C strings of the keys are numbers, which is their order.
LEMMA KeyStrType == KeyStr \subseteq Nat
BY SliceTypes, Zenon DEF KeyStr

\* A string is searched for in a recovered leaf: the first, by highest keys,
\* that reaches it, or the last if none does.
LEMMA RebuiltOwner ==
  ASSUME TypeOK, NEW x \in KeyStr, Recovered # {}
  PROVE  LET m == RebuildNodes[x]
         IN  /\ m \in Recovered
             /\ \/ /\ x <= MaxKey(leaves[m])
                   /\ \A l \in Recovered : x <= MaxKey(leaves[l])
                                             => MaxKey(leaves[m]) <= MaxKey(leaves[l])
                \/ \A l \in Recovered : /\ MaxKey(leaves[l]) < x
                                        /\ MaxKey(leaves[l]) <= MaxKey(leaves[m])
<1> DEFINE high == [l \in Recovered |-> MaxKey(leaves[l])]
           reaches == {l \in Recovered : x <= high[l]}
           First(S) == CHOOSE l \in S : \A m \in S : high[l] <= high[m]
           Last(S) == CHOOSE l \in S : \A m \in S : high[m] <= high[l]
<1>1. Recovered \subseteq LeafId /\ IsFiniteSet(Recovered) /\ x \in Nat
  <2>1. Recovered \in SUBSET (1..count) /\ count \in Nat /\ 1..count \subseteq LeafId
    BY BoundsAssumption DEF Recovered, TypeOK, LeafId
  <2>2. IsFiniteSet(1..count)
    BY <2>1, FS_Interval
  <2>3. QED
    BY <2>1, <2>2, FS_Subset, KeyStrType, Zenon
<1>2. high \in [Recovered -> Nat]
  BY <1>1, MaxKeyOfLeaf, Zenon DEF Recovered, TypeOK
<1>3. RebuildNodes[x] = IF reaches # {} THEN First(reaches) ELSE Last(Recovered)
  BY Zenon DEF RebuildNodes
<1>4. \A l \in Recovered : high[l] = MaxKey(leaves[l])
  BY Zenon
<1> HIDE DEF high
<1>5. CASE reaches # {}
  <2> DEFINE f == [l \in reaches |-> high[l]]
  <2>1. f \in [reaches -> Nat]
    BY <1>2, Zenon
  <2>2. \E l \in reaches : \A m \in reaches : f[l] <= f[m]
    <3> HIDE DEF f, reaches
    <3> QED BY <1>5, <2>1, ArgMin, Zenon
  <2>3. \E l \in reaches : \A m \in reaches : high[l] <= high[m]
    BY <2>2, Zenon
  <2>4. First(reaches) \in reaches /\ \A m \in reaches : high[First(reaches)] <= high[m]
    <3> HIDE DEF reaches
    <3> QED BY <2>3, Zenon
  <2>5. QED
    BY <1>3, <1>4, <1>5, <2>4, Zenon
<1>6. CASE reaches = {}
  <2>1. \E l \in Recovered : \A m \in Recovered : high[m] <= high[l]
    BY <1>1, <1>2, ArgMax, Zenon
  <2>2. /\ Last(Recovered) \in Recovered
        /\ \A m \in Recovered : high[m] <= high[Last(Recovered)]
    BY <2>1, Zenon
  <2>3. \A l \in Recovered : high[l] < x
    BY <1>1, <1>2, <1>6
  <2>4. QED
    BY <1>3, <1>4, <1>6, <2>2, <2>3, Zenon
<1>7. QED
  BY <1>5, <1>6, Zenon

\* RebuildNodes finds an allocated leaf or none, and none if no leaf is recovered.
LEMMA RebuildNodesType ==
  ASSUME TypeOK
  PROVE  /\ RebuildNodes \in [KeyStr -> 0..count]
         /\ Recovered = {} => \A x \in KeyStr : RebuildNodes[x] = 0
<1>1. Recovered \subseteq 0..count
  BY DEF Recovered, TypeOK
<1>2. CASE Recovered = {}
  BY <1>2, BoundsAssumption DEF RebuildNodes, TypeOK
<1>3. CASE Recovered # {}
  <2>1. \A x \in KeyStr : RebuildNodes[x] \in 0..count
    BY <1>1, <1>3, RebuiltOwner, Zenon
  <2>2. RebuildNodes = [x \in KeyStr |-> RebuildNodes[x]]
    BY DEF RebuildNodes
  <2>3. QED
    BY <1>3, <2>1, <2>2, Zenon
<1>4. QED
  BY <1>2, <1>3, Zenon

-----------------------------------------------------------------------------
(***************************************************************************)
(* Types.                                                                  *)
(***************************************************************************)
LEMMA BlankTypes ==
  /\ NoHashes \in Hashes /\ NoHashes \in SlotStrings
  /\ NewLeaf \in PersistentLeaf
  /\ NewLeafNode \in LeafNode
  /\ 0 \in Slot
BY NodeKeysAssumption
   DEF NoHashes, Hashes, SlotStrings, NewLeaf, PersistentLeaf, NewLeafNode, LeafNode, Slot

\* Losing the volatile nodes (Close, Crash) keeps the types.
LEMMA LoseVolatileType ==
  ASSUME TypeOK, LoseVolatile, UNCHANGED count
  PROVE  owner' \in [KeyStr -> 0..count'] /\ cache' \in [LeafId -> Hashes]
<1>1. owner' \in [KeyStr -> 0..count']
  BY BoundsAssumption DEF LoseVolatile, NoOwner, TypeOK
<1>2. cache' \in [LeafId -> Hashes]
  BY BlankTypes, Zenon DEF LoseVolatile, NoCache
<1>3. QED
  BY <1>1, <1>2, Zenon

\* The types hold of an empty pool.
LEMMA TypeInit == Init => TypeOK
<1> SUFFICES ASSUME Init PROVE TypeOK
  BY Zenon
<1>1. leaves \in [LeafId -> PersistentLeaf]
  BY BlankTypes, Zenon DEF Init
<1>2. owner \in [KeyStr -> 0..count]
  BY DEF Init, NoOwner
<1>3. cache \in [LeafId -> Hashes]
  BY BlankTypes, Zenon DEF Init, NoCache
<1>4. count \in 0..PoolLeaves /\ opened \in 0..MaxOpened /\ closed \in Nat
  BY BoundsAssumption DEF Init
<1>5. isOpen \in BOOLEAN
  BY Zenon DEF Init
<1>6. QED
  BY <1>1, <1>2, <1>3, <1>4, <1>5, Zenon DEF TypeOK

\* Every operation of ScreeDBTree keeps the types.
LEMMA TypeNext == TypeOK /\ [Next]_vars => TypeOK'
<1> SUFFICES ASSUME TypeOK, [Next]_vars PROVE TypeOK'
  BY Zenon
<1> USE BoundsAssumption
<1>1. CASE OpenEmpty
  BY <1>1 DEF OpenEmpty, TypeOK
<1>2. CASE OpenExisting
  <2>1. RebuildNodes \in [KeyStr -> 0..count]
    BY RebuildNodesType, Zenon
  <2>2. cache' \in [LeafId -> Hashes]
    BY <1>2, BlankTypes, Zenon DEF OpenExisting, TypeOK, PersistentLeaf
  <2>3. QED
    BY <1>2, <2>1, <2>2 DEF OpenExisting, TypeOK
<1>3. ASSUME NEW k \in Key, NEW v \in Val, PutFirst(k, v) PROVE TypeOK'
  <2> DEFINE node == LeafFillSpecificSlot(NewLeafNode, k, v, 0)
  <2>1. node \in LeafNode
    BY BlankTypes, FillSlot, Zenon
  <2>2. node.leaf \in PersistentLeaf /\ node.hashes \in Hashes
    BY <2>1, Zenon DEF LeafNode
  <2> HIDE DEF node
  <2>3. count' = count + 1 /\ count' \in LeafId /\ count' \in 0..PoolLeaves
    BY <1>3 DEF PutFirst, TypeOK, LeafId
  <2>4. leaves' \in [LeafId -> PersistentLeaf] /\ cache' \in [LeafId -> Hashes]
    BY <1>3, <2>2, <2>3, Zenon DEF PutFirst, TypeOK, node
  <2>5. owner' \in [KeyStr -> 0..count']
    BY <1>3, <2>3 DEF PutFirst
  <2>6. QED
    BY <1>3, <2>3, <2>4, <2>5, Zenon DEF PutFirst, TypeOK
<1>4. ASSUME NEW k \in Key, NEW v \in Val, PutInLeaf(k, v) PROVE TypeOK'
  <2> DEFINE l == LeafSearch(k)
             node == LeafFillSlotForKey(Node(l), k, v)
  <2>1. l \in LeafId
    BY <1>4, SearchType, Zenon DEF PutInLeaf
  <2>2. node \in LeafNode
    BY <1>4, <2>1, NodeType, SlotForKeyChoice, FillSlot, Zenon DEF PutInLeaf, LeafFillSlotForKey
  <2>3. node.leaf \in PersistentLeaf /\ node.hashes \in Hashes
    BY <2>2, Zenon DEF LeafNode
  <2>4. /\ leaves' = [leaves EXCEPT ![l] = node.leaf]
        /\ cache' = [cache EXCEPT ![l] = node.hashes]
        /\ UNCHANGED <<count, opened, closed, isOpen, owner>>
    BY <1>4, Zenon DEF PutInLeaf
  <2> HIDE DEF l, node
  <2>5. QED
    BY <2>1, <2>3, <2>4, Zenon DEF TypeOK
<1>5. ASSUME NEW k \in Key, NEW v \in Val, PutSplit(k, v) PROVE TypeOK'
  <2> DEFINE l == LeafSearch(k)
             new == count + 1
             nodes == LeafSplit(Node(l), k, v)
  <2>1. l \in LeafId /\ new \in LeafId /\ new \in 0..PoolLeaves
    BY <1>5, SearchType DEF PutSplit, TypeOK, LeafId
  <2>2. nodes.low \in LeafNode /\ nodes.high \in LeafNode
    BY <2>1, NodeType, LeafSplitType, Zenon
  <2>3. /\ nodes.low.leaf \in PersistentLeaf /\ nodes.low.hashes \in Hashes
        /\ nodes.high.leaf \in PersistentLeaf /\ nodes.high.hashes \in Hashes
    BY <2>2, Zenon DEF LeafNode
  <2>4. /\ leaves' = [leaves EXCEPT ![l] = nodes.low.leaf, ![new] = nodes.high.leaf]
        /\ cache' = [cache EXCEPT ![l] = nodes.low.hashes, ![new] = nodes.high.hashes]
        /\ count' = new
        /\ UNCHANGED <<opened, closed, isOpen>>
    BY <1>5, Zenon DEF PutSplit
  <2>5. owner' \in [KeyStr -> 0..count']
    BY <1>5 DEF PutSplit, TypeOK
  <2> HIDE DEF l, new, nodes
  <2>6. leaves' \in [LeafId -> PersistentLeaf] /\ cache' \in [LeafId -> Hashes]
    BY <2>1, <2>3, <2>4, Zenon DEF TypeOK
  <2>7. QED
    BY <2>1, <2>4, <2>5, <2>6, Zenon DEF TypeOK
<1>6. ASSUME NEW k \in Key, Delete(k) PROVE TypeOK'
  <2> DEFINE l == LeafSearch(k)
             node == LeafDelete(Node(l), k)
  <2>1. l \in LeafId
    BY <1>6, SearchType, Zenon DEF Delete
  <2>2. node \in LeafNode
    BY <2>1, NodeType, DeleteSlot, Zenon
  <2>3. node.leaf \in PersistentLeaf /\ node.hashes \in Hashes
    BY <2>2, Zenon DEF LeafNode
  <2>4. /\ leaves' = [leaves EXCEPT ![l] = node.leaf]
        /\ cache' = [cache EXCEPT ![l] = node.hashes]
        /\ UNCHANGED <<count, opened, closed, isOpen, owner>>
    BY <1>6, Zenon DEF Delete
  <2> HIDE DEF l, node
  <2>5. QED
    BY <2>1, <2>3, <2>4, Zenon DEF TypeOK
<1>7. CASE Close
  <2>1. owner' \in [KeyStr -> 0..count'] /\ cache' \in [LeafId -> Hashes]
    BY <1>7, LoseVolatileType, Zenon DEF Close
  <2>2. closed' \in Nat
    BY <1>7 DEF Close, TypeOK
  <2>3. QED
    BY <1>7, <2>1, <2>2, Zenon DEF Close, LoseVolatile, TypeOK
<1>8. CASE Crash
  <2>1. owner' \in [KeyStr -> 0..count'] /\ cache' \in [LeafId -> Hashes]
    BY <1>8, LoseVolatileType, Zenon DEF Crash, persistent
  <2>2. QED
    BY <1>8, <2>1, Zenon DEF Crash, LoseVolatile, persistent, TypeOK
<1>9. CASE UNCHANGED vars
  BY <1>9, Zenon DEF vars, TypeOK
<1>10. QED
  BY <1>1, <1>2, <1>3, <1>4, <1>5, <1>6, <1>7, <1>8, <1>9, Zenon DEF Next, Put

\* Every reachable state has the types TypeOK says: in particular LeafSearch
\* finds nothing or a leaf that is on the list, after any sequence of Put, Delete,
\* Open, Close and Crash, and hashes fit their byte.
THEOREM TypeCorrect == Spec => []TypeOK
<1>1. Init => TypeOK
  BY TypeInit, Zenon
<1>2. TypeOK /\ [Next]_vars => TypeOK'
  BY TypeNext, Zenon
<1>3. QED
  BY <1>1, <1>2, PTL DEF Spec

-----------------------------------------------------------------------------
(***************************************************************************)
(* The cached hashes.                                                      *)
(***************************************************************************)
LEMMA CoherentNext == TypeOK /\ CacheCoherent /\ [Next]_vars => CacheCoherent'
<1> SUFFICES ASSUME TypeOK, CacheCoherent, [Next]_vars, isOpen'
             PROVE  \A l \in 1..count' : cache'[l] = leaves'[l].hashes
  BY Zenon DEF CacheCoherent
<1>0. 1..count \subseteq LeafId /\ count \in Nat
  BY BoundsAssumption DEF TypeOK, LeafId
<1>1. CASE OpenEmpty
  BY <1>1, <1>0 DEF OpenEmpty
<1>2. CASE OpenExisting
  <2>1. ASSUME NEW l \in 1..count PROVE cache'[l] = leaves[l].hashes
    <3>1. CASE l \in Recovered
      BY <1>0, <1>2, <3>1, Zenon DEF OpenExisting
    <3>2. CASE l \notin Recovered
      <4>1. leaves[l].hashes \in [Slot -> 0..255]
        BY <1>0 DEF TypeOK, PersistentLeaf, Hashes
      <4>2. \A s \in Slot : leaves[l].hashes[s] = 0
        BY <3>2, Zenon DEF Recovered, UsedSlots
      <4>3. leaves[l].hashes = NoHashes
        BY <4>1, <4>2, Zenon DEF NoHashes
      <4>4. QED
        BY <1>0, <1>2, <3>2, <4>3, Zenon DEF OpenExisting
    <3>3. QED
      BY <3>1, <3>2, Zenon
  <2>2. QED
    BY <1>2, <2>1, Zenon DEF OpenExisting
<1>3. ASSUME NEW k \in Key, NEW v \in Val, PutFirst(k, v)
      PROVE  \A l \in 1..count' : cache'[l] = leaves'[l].hashes
  <2> DEFINE node == LeafFillSpecificSlot(NewLeafNode, k, v, 0)
  <2>1. Coherent(NewLeafNode)
    BY Zenon DEF Coherent, NewLeafNode, NewLeaf
  <2>2. node.hashes = node.leaf.hashes
    BY <2>1, BlankTypes, FillSlot DEF Coherent
  <2>3. /\ isOpen /\ count + 1 \in LeafId
        /\ leaves' = [leaves EXCEPT ![count + 1] = node.leaf]
        /\ cache' = [cache EXCEPT ![count + 1] = node.hashes]
        /\ count' = count + 1
    BY <1>3, BoundsAssumption DEF PutFirst, TypeOK, LeafId
  <2> HIDE DEF node
  <2>4. QED
    BY <1>0, <2>2, <2>3 DEF TypeOK, CacheCoherent
<1>4. ASSUME NEW k \in Key, NEW v \in Val, PutInLeaf(k, v)
      PROVE  \A l \in 1..count' : cache'[l] = leaves'[l].hashes
  <2> DEFINE l == LeafSearch(k)
             node == LeafFillSlotForKey(Node(l), k, v)
  <2>1. l \in LeafId /\ l \in 1..count /\ isOpen
    BY <1>4, SearchType DEF PutInLeaf
  <2>2. Coherent(Node(l))
    BY <2>1, Zenon DEF CacheCoherent, Coherent, Node
  <2>3. node.hashes = node.leaf.hashes
    BY <1>4, <2>1, <2>2, NodeType, SlotForKeyChoice, FillSlot
       DEF PutInLeaf, LeafFillSlotForKey, Coherent
  <2>4. /\ leaves' = [leaves EXCEPT ![l] = node.leaf]
        /\ cache' = [cache EXCEPT ![l] = node.hashes]
        /\ count' = count
    BY <1>4, Zenon DEF PutInLeaf
  <2> HIDE DEF l, node
  <2>5. QED
    BY <1>0, <2>1, <2>3, <2>4, Zenon DEF TypeOK, CacheCoherent
<1>5. ASSUME NEW k \in Key, NEW v \in Val, PutSplit(k, v)
      PROVE  \A l \in 1..count' : cache'[l] = leaves'[l].hashes
  <2> DEFINE l == LeafSearch(k)
             new == count + 1
             nodes == LeafSplit(Node(l), k, v)
  <2>1. l \in LeafId /\ l \in 1..count /\ new \in LeafId /\ isOpen
    BY <1>5, SearchType, BoundsAssumption DEF PutSplit, TypeOK, LeafId
  <2>2. Coherent(Node(l))
    BY <2>1, Zenon DEF CacheCoherent, Coherent, Node
  <2>3. /\ nodes.low.hashes = nodes.low.leaf.hashes
        /\ nodes.high.hashes = nodes.high.leaf.hashes
    BY <2>1, <2>2, NodeType, LeafSplitType, Zenon DEF Coherent
  <2>4. /\ leaves' = [leaves EXCEPT ![l] = nodes.low.leaf, ![new] = nodes.high.leaf]
        /\ cache' = [cache EXCEPT ![l] = nodes.low.hashes, ![new] = nodes.high.hashes]
        /\ count' = count + 1
    BY <1>5, Zenon DEF PutSplit
  <2>5. new = count + 1
    BY Zenon
  <2> HIDE DEF l, new, nodes
  <2>6. QED
    BY <1>0, <2>1, <2>3, <2>4, <2>5, SMTT(30) DEF TypeOK, CacheCoherent
<1>6. ASSUME NEW k \in Key, Delete(k)
      PROVE  \A l \in 1..count' : cache'[l] = leaves'[l].hashes
  <2> DEFINE l == LeafSearch(k)
             node == LeafDelete(Node(l), k)
  <2>1. l \in LeafId /\ l \in 1..count /\ isOpen
    BY <1>6, SearchType DEF Delete
  <2>2. Coherent(Node(l))
    BY <2>1, Zenon DEF CacheCoherent, Coherent, Node
  <2>3. node.hashes = node.leaf.hashes
    BY <2>1, <2>2, NodeType, DeleteSlot, Zenon DEF Coherent
  <2>4. /\ leaves' = [leaves EXCEPT ![l] = node.leaf]
        /\ cache' = [cache EXCEPT ![l] = node.hashes]
        /\ count' = count
    BY <1>6, Zenon DEF Delete
  <2> HIDE DEF l, node
  <2>5. QED
    BY <1>0, <2>1, <2>3, <2>4, Zenon DEF TypeOK, CacheCoherent
<1>7. CASE Close \/ Crash
  BY <1>7, Zenon DEF Close, Crash, LoseVolatile
<1>8. CASE UNCHANGED vars
  BY <1>8, Zenon DEF vars, CacheCoherent
<1>9. QED
  BY <1>1, <1>2, <1>3, <1>4, <1>5, <1>6, <1>7, <1>8, Zenon DEF Next, Put

\* On an open tree the hashes cached in DRAM are those of the pool, in every
\* leaf of the list: those the rebuilt tree leaves out because they are empty too.
THEOREM CacheIsCoherent == Spec => []CacheCoherent
<1>1. Init => TypeOK /\ CacheCoherent
  BY TypeInit, Zenon DEF Init, CacheCoherent
<1>2. TypeOK /\ CacheCoherent /\ [Next]_vars => (TypeOK /\ CacheCoherent)'
  BY TypeNext, CoherentNext, Zenon
<1>3. QED
  BY <1>1, <1>2, PTL DEF Spec

-----------------------------------------------------------------------------
(***************************************************************************)
(* The counters.                                                           *)
(***************************************************************************)
\* A pool in use has been opened more often than closed: the destructor is the
\* only place where root->closed grows, and each open tree is destroyed once.
THEOREM CountersAreOrdered == Spec => []CountersOrdered
<1>1. Init => TypeOK /\ CountersOrdered
  BY TypeInit DEF Init, CountersOrdered
<1>2. TypeOK /\ CountersOrdered /\ [Next]_vars => CountersOrdered'
  <2> SUFFICES ASSUME TypeOK, CountersOrdered, [Next]_vars PROVE CountersOrdered'
    BY Zenon
  <2>0. closed \in Nat /\ opened \in Nat
    BY BoundsAssumption DEF TypeOK
  <2> USE <2>0 DEF CountersOrdered
  <2>1. CASE OpenEmpty
    BY <2>1 DEF OpenEmpty
  <2>2. CASE OpenExisting
    BY <2>2 DEF OpenExisting
  <2>3. ASSUME NEW k \in Key, NEW v \in Val, Put(k, v) PROVE CountersOrdered'
    BY <2>3, Zenon DEF Put, PutFirst, PutInLeaf, PutSplit
  <2>4. ASSUME NEW k \in Key, Delete(k) PROVE CountersOrdered'
    BY <2>4, Zenon DEF Delete
  <2>5. CASE Close
    BY <2>5 DEF Close, LoseVolatile
  <2>6. CASE Crash
    BY <2>6, Zenon DEF Crash, LoseVolatile, persistent
  <2>7. CASE UNCHANGED vars
    BY <2>7, Zenon DEF vars
  <2>8. QED
    BY <2>1, <2>2, <2>3, <2>4, <2>5, <2>6, <2>7, Zenon DEF Next
<1>3. QED
  BY <1>1, <1>2, TypeNext, PTL DEF Spec

-----------------------------------------------------------------------------
(***************************************************************************)
(* Proofs about the persistent strings of ScreeDBString, for any number of *)
(* strings, contents and addresses and any limit of short strings: every   *)
(* sequence of transactions that set and move strings and then commit or   *)
(* do not.  ScreeDBAPI takes these steps and no others on the strings.     *)
(***************************************************************************)

StringNext ==
  \/ Begin \/ Commit \/ Abort
  \/ \E s \in Strings, t \in Text : Set(s, t)
  \/ \E s, new \in Strings : Move(s, new)

StringSpec == StringInit /\ [][StringNext]_strings

\* Contents are sound with the addresses F about to be freed: memory that is
\* not has one owner, pointers are to such memory, sizes fit, strings of new
\* leaves point nowhere, and all strings read as stored.
Owned(st, h, F) ==
  \A a \in Address : h[a] # Null /\ a \notin F =>
    \E s \in Strings : \A x \in Strings : st[x] = a <=> x = s

Pointing(st, h, F) ==
  \A s \in Strings : st[s] # Null => h[st[s]] # Null /\ st[s] \notin F

Sized(h) ==
  \A a \in Address : h[a] # Null => h[a].size = Strlen[h[a].text] + 1

Readable(so, st, h, sd) ==
  \A s \in Strings :
    sd[s] = IF st[s] = Null THEN so[s] ELSE h[st[s]].text

Sound(so, st, h, un, sd, F) ==
  /\ Owned(st, h, F)
  /\ Pointing(st, h, F)
  /\ Sized(h)
  /\ \A s \in un : st[s] = Null
  /\ Readable(so, st, h, sd)

\* What the transaction would be rolled back to is as sound as what is there,
\* and the undo log has all that differs from it.
IInv ==
  /\ StringTypeOK
  /\ Sound(sso, str, heap, unused, stored, frees)
  /\ Sound(saved.sso, saved.str, saved.heap, saved.unused, saved.stored, {})
  /\ \A a \in frees : heap[a] # Null
  /\ ~active => frees = {}
  /\ active => \A s \in Strings \ undoSso : sso[s] = saved.sso[s]
-----------------------------------------------------------------------------
\* The types, variable by variable.
LEMMA Types ==
  StringTypeOK <=>
    /\ sso \in [Strings -> Text]
    /\ str \in [Strings -> Address \cup {Null}]
    /\ heap \in [Address -> Block \cup {Null}]
    /\ unused \in SUBSET Strings
    /\ stored \in [Strings -> Text]
    /\ active \in BOOLEAN
    /\ saved \in StringContents
    /\ undoSso \subseteq Strings
    /\ frees \subseteq Address
BY Zenon DEF StringTypeOK, StringContents

\* What a transaction is rolled back to has the same types.
LEMMA SavedTypes ==
  ASSUME saved \in StringContents
  PROVE  /\ saved.sso \in [Strings -> Text]
         /\ saved.str \in [Strings -> Address \cup {Null}]
         /\ saved.heap \in [Address -> Block \cup {Null}]
         /\ saved.unused \in SUBSET Strings
         /\ saved.stored \in [Strings -> Text]
BY Zenon DEF StringContents

\* The invariant holds of an empty pool.
LEMMA StringInitIInv ==
  ASSUME StringInit
  PROVE  IInv
<1>1. StringTypeOK
  BY Types, TextAssumption, Zenon DEF StringInit, Now, StringContents
<1>2. Sound(sso, str, heap, unused, stored, {})
  BY TextAssumption, Zenon DEF StringInit, Sound, Owned, Pointing, Sized, Readable
<1>3. saved = Now /\ frees = {} /\ active = FALSE
  BY Zenon DEF StringInit
<1>4. QED
  BY <1>1, <1>2, <1>3, Zenon DEF IInv, Now

\* Beginning a transaction keeps the invariant.
LEMMA BeginStep ==
  ASSUME IInv, Begin
  PROVE  IInv'
<1>1. StringTypeOK'
  BY Types, Zenon DEF IInv, Begin, Now, memory, StringTypeOK, StringContents
<1>2. /\ Sound(sso, str, heap, unused, stored, {})
      /\ saved' = Now /\ frees' = {}
      /\ UNCHANGED <<sso, str, heap, unused, stored>>
  BY Zenon DEF IInv, Begin, memory
<1>3. /\ saved'.sso = sso /\ saved'.str = str /\ saved'.heap = heap
      /\ saved'.unused = unused /\ saved'.stored = stored
  BY <1>2, Zenon DEF Now
<1>4. QED
  BY <1>1, <1>2, <1>3, Zenon DEF IInv

\* set() leaves the old memory to be freed and the string with its new
\* content, in a leaf that was there (s \notin unused) or is new.
LEMMA SetTextStep ==
  ASSUME IInv, active, UNCHANGED <<active, saved>>,
         NEW s \in Strings, NEW t \in Text,
         SetText(s, t), unused' = unused \ {s}
  PROVE  IInv'
<1>. USE TextAssumption DEF Block
<1>1. /\ sso \in [Strings -> Text]
      /\ str \in [Strings -> Address \cup {Null}]
      /\ heap \in [Address -> Block \cup {Null}]
      /\ unused \in SUBSET Strings
      /\ stored \in [Strings -> Text]
      /\ saved \in StringContents /\ undoSso \subseteq Strings
      /\ frees \subseteq Address
  BY Types, Zenon DEF IInv
<1>2. /\ Owned(str, heap, frees)
      /\ Pointing(str, heap, frees)
      /\ Sized(heap)
      /\ \A x \in unused : str[x] = Null
      /\ Readable(sso, str, heap, stored)
      /\ \A a \in frees : heap[a] # Null
      /\ \A x \in Strings \ undoSso : sso[x] = saved.sso[x]
  BY Zenon DEF IInv, Sound
<1>3. stored' = [stored EXCEPT ![s] = t] /\ stored' \in [Strings -> Text]
  BY <1>1, Zenon DEF SetText
<1>4. /\ frees' = frees \cup Release(s)
      /\ Release(s) \subseteq Address
      /\ \A a \in Release(s) : heap[a] # Null
  <2>1. frees' = frees \cup Release(s)
    BY Zenon DEF SetText, SetShort, SetLong
  <2>2. str[s] \in Address \cup {Null} /\ (str[s] # Null => heap[str[s]] # Null)
    BY <1>1, <1>2, Zenon DEF Pointing
  <2> QED BY <2>1, <2>2, Zenon DEF Release
<1>5. CASE SetShort(s, t)
  <2>1. /\ str' = [str EXCEPT ![s] = Null]
        /\ sso' = [sso EXCEPT ![s] = t]
        /\ undoSso' = undoSso \cup {s}
        /\ heap' = heap
    BY <1>5, Zenon DEF SetShort
  <2>2. StringTypeOK'
    BY <1>1, <1>3, <1>4, <2>1, Zenon DEF StringTypeOK, StringContents, IInv
  <2>3. Owned(str', heap', frees')
    <3>1. SUFFICES ASSUME NEW a \in Address, heap[a] # Null, a \notin frees'
                   PROVE  \E y \in Strings :
                            \A x \in Strings : str'[x] = a <=> x = y
      BY <2>1, Zenon DEF Owned
    <3>2. PICK y \in Strings : \A x \in Strings : str[x] = a <=> x = y
      BY <1>2, <1>4, <3>1, Zenon DEF Owned
    <3>3. y # s
      BY <3>1, <3>2, <1>4, Zenon DEF Release
    <3>4. QED
      BY <1>1, <2>1, <3>2, <3>3, Zenon
  <2>4. Pointing(str', heap', frees')
    <3>1. SUFFICES ASSUME NEW x \in Strings, str'[x] # Null
                   PROVE  heap[str'[x]] # Null /\ str'[x] \notin frees'
      BY <2>1, Zenon DEF Pointing
    <3>2. x # s /\ str'[x] = str[x]
      BY <1>1, <2>1, <3>1, Zenon
    <3>3. heap[str[x]] # Null /\ str[x] \notin frees /\ str[x] \in Address
      BY <1>1, <1>2, <3>1, <3>2, SMTT(30) DEF Pointing
    <3>4. str[x] # str[s]
      BY <1>2, <3>2, <3>3, SMTT(30) DEF Owned
    <3>5. QED
      BY <1>4, <3>2, <3>3, <3>4, Zenon DEF Release
  <2>5. Sized(heap') /\ \A x \in unused' : str'[x] = Null
    BY <1>1, <1>2, <2>1, Zenon DEF Sized
  <2>6. Readable(sso', str', heap', stored')
    BY <1>1, <1>2, <1>3, <2>1, Zenon DEF Readable
  <2>7. QED
    BY <1>1, <1>2, <1>4, <2>1, <2>2, <2>3, <2>4, <2>5, <2>6, Zenon DEF IInv, Sound
<1>6. CASE SetLong(s, t)
  <2>1. PICK a \in Address :
          /\ heap[a] = Null
          /\ heap' = [heap EXCEPT ![a] = [text |-> t, size |-> Strlen[t] + 1]]
          /\ str' = [str EXCEPT ![s] = a]
    BY <1>6, Zenon DEF SetLong
  <2>2. sso' = sso /\ undoSso' = undoSso
    BY <1>6, Zenon DEF SetLong
  <2>3. /\ heap'[a] # Null
        /\ heap'[a].text = t /\ heap'[a].size = Strlen[t] + 1
        /\ \A b \in Address \ {a} : heap'[b] = heap[b]
        /\ heap' \in [Address -> Block \cup {Null}]
    BY <1>1, <2>1
  <2>4. a \notin frees' /\ \A x \in Strings : str[x] # a
    BY <1>1, <1>2, <1>4, <2>1, Zenon DEF Pointing
  <2>5. StringTypeOK'
    BY <1>1, <1>3, <1>4, <2>1, <2>2, <2>3, Zenon DEF StringTypeOK, StringContents, IInv
  <2>6. Owned(str', heap', frees')
    <3>1. SUFFICES ASSUME NEW b \in Address, heap'[b] # Null, b \notin frees'
                   PROVE  \E y \in Strings :
                            \A x \in Strings : str'[x] = b <=> x = y
      BY Zenon DEF Owned
    <3>2. CASE b = a
      BY <1>1, <2>1, <2>4, <3>2, Zenon
    <3>3. CASE b # a
      <4>1. PICK y \in Strings : \A x \in Strings : str[x] = b <=> x = y
        BY <1>2, <1>4, <2>3, <3>1, <3>3, Zenon DEF Owned
      <4>2. y # s
        BY <3>1, <4>1, <1>4, Zenon DEF Release
      <4>3. QED
        BY <1>1, <2>1, <3>3, <4>1, <4>2, Zenon
    <3>4. QED
      BY <3>2, <3>3, Zenon
  <2>7. Pointing(str', heap', frees')
    <3>1. SUFFICES ASSUME NEW x \in Strings, str'[x] # Null
                   PROVE  heap'[str'[x]] # Null /\ str'[x] \notin frees'
      BY Zenon DEF Pointing
    <3>2. CASE x = s
      BY <1>1, <2>1, <2>3, <2>4, <3>2, SMTT(30)
    <3>3. CASE x # s
      <4>1. str'[x] = str[x]
        BY <1>1, <2>1, <3>3, Zenon
      <4>2. heap[str[x]] # Null /\ str[x] \notin frees /\ str[x] \in Address
        <5>1. str[x] # Null /\ str[x] \in Address \cup {Null}
          BY <1>1, <3>1, <4>1, Zenon
        <5> QED BY <1>2, <5>1, Zenon DEF Pointing
      <4>3. str[x] # str[s]
        BY <1>2, <3>3, <4>2, SMTT(30) DEF Owned
      <4>4. QED
        BY <1>4, <2>3, <2>4, <4>1, <4>2, <4>3, Zenon DEF Release
    <3>4. QED
      BY <3>2, <3>3, Zenon
  <2>8. Sized(heap') /\ \A x \in unused' : str'[x] = Null
    BY <1>1, <1>2, <2>1, <2>3 DEF Sized
  <2>9. Readable(sso', str', heap', stored')
    <3>1. SUFFICES ASSUME NEW x \in Strings
                   PROVE  stored'[x] = IF str'[x] = Null THEN sso[x]
                                       ELSE heap'[str'[x]].text
      BY <2>2, Zenon DEF Readable
    <3>2. CASE x = s
      BY <1>1, <1>3, <2>1, <2>3, <3>2, SMTT(30)
    <3>3. CASE x # s
      <4>1. str'[x] = str[x] /\ stored'[x] = stored[x] /\ str[x] # a
        BY <1>1, <1>3, <2>1, <2>4, <3>3, Zenon
      <4>2. stored[x] = IF str[x] = Null THEN sso[x] ELSE heap[str[x]].text
        BY <1>2, Zenon DEF Readable
      <4>3. str[x] # Null => heap'[str[x]] = heap[str[x]]
        BY <1>1, <2>3, <4>1, Zenon
      <4>4. QED
        BY <4>1, <4>2, <4>3, Zenon
    <3>4. QED
      BY <3>2, <3>3, Zenon
  <2>10. \A b \in frees' : heap'[b] # Null
    BY <1>1, <1>2, <1>4, <2>3, Zenon
  <2>11. QED
    BY <1>2, <2>2, <2>5, <2>6, <2>7, <2>8, <2>9, <2>10, Zenon DEF IInv, Sound
<1>7. QED
  BY <1>5, <1>6, Zenon DEF SetText

\* The exchange of LeafSplit: the new string was empty and pointed nowhere.
LEMMA SwapStep ==
  ASSUME IInv, NEW s \in Strings, NEW new \in Strings,
         Move(s, new), str[s] # Null
  PROVE  IInv'
<1>. USE TextAssumption
<1>1. /\ sso \in [Strings -> Text]
      /\ str \in [Strings -> Address \cup {Null}]
      /\ heap \in [Address -> Block \cup {Null}]
      /\ unused \in SUBSET Strings
      /\ stored \in [Strings -> Text]
      /\ saved \in StringContents /\ undoSso \subseteq Strings
      /\ frees \subseteq Address
  BY Types, Zenon DEF IInv
<1>2. /\ Owned(str, heap, frees)
      /\ Pointing(str, heap, frees)
      /\ \A x \in unused : str[x] = Null
      /\ Readable(sso, str, heap, stored)
      /\ \A x \in Strings \ undoSso : sso[x] = saved.sso[x]
  BY Zenon DEF IInv, Sound, Move
<1>3. /\ s # new /\ str[new] = Null /\ unused' = unused \ {new}
      /\ sso' = [sso EXCEPT ![s] = sso[new], ![new] = sso[s]]
      /\ str' = [str EXCEPT ![s] = str[new], ![new] = str[s]]
      /\ stored' = [stored EXCEPT ![s] = stored[new], ![new] = stored[s]]
      /\ undoSso' = undoSso \cup {s, new}
      /\ UNCHANGED <<heap, active, saved, frees>>
  BY <1>2, Zenon DEF Move
<1>4. /\ str'[s] = Null /\ str'[new] = str[s]
      /\ sso'[s] = sso[new] /\ sso'[new] = sso[s]
      /\ stored'[s] = stored[new] /\ stored'[new] = stored[s]
      /\ \A x \in Strings \ {s, new} :
           str'[x] = str[x] /\ sso'[x] = sso[x] /\ stored'[x] = stored[x]
  BY <1>1, <1>3, Zenon
<1>5. StringTypeOK'
  BY <1>1, <1>3, Zenon DEF IInv, StringTypeOK, StringContents
<1>6. Owned(str', heap', frees')
  <2>1. SUFFICES ASSUME NEW a \in Address, heap[a] # Null, a \notin frees
                 PROVE  \E y \in Strings :
                          \A x \in Strings : str'[x] = a <=> x = y
    BY <1>3, Zenon DEF Owned
  <2>2. PICK y \in Strings : \A x \in Strings : str[x] = a <=> x = y
    BY <1>2, <2>1, Zenon DEF Owned
  <2>3. a # Null
    BY Zenon
  <2>4. CASE y = s
    <3>1. ASSUME NEW x \in Strings PROVE str'[x] = a <=> x = new
      <4>1. CASE x = s
        BY <1>3, <1>4, <2>3, <4>1, Zenon
      <4>2. CASE x = new
        BY <1>4, <2>2, <2>4, <4>2, Zenon
      <4>3. CASE x \in Strings \ {s, new}
        BY <1>4, <2>2, <2>4, <4>3, Zenon
      <4> QED BY <4>1, <4>2, <4>3, Zenon
    <3>2. QED
      BY <3>1, Zenon
  <2>5. CASE y # s
    <3>1. y # new
      BY <1>3, <2>2, <2>3, Zenon
    <3>2. ASSUME NEW x \in Strings PROVE str'[x] = a <=> x = y
      <4>1. CASE x = s
        BY <1>4, <2>3, <2>5, <4>1, Zenon
      <4>2. CASE x = new
        BY <1>4, <2>2, <2>5, <3>1, <4>2, Zenon
      <4>3. CASE x \in Strings \ {s, new}
        BY <1>4, <2>2, <4>3, Zenon
      <4> QED BY <4>1, <4>2, <4>3, Zenon
    <3>3. QED
      BY <3>2, Zenon
  <2>6. QED
    BY <2>4, <2>5, Zenon
<1>7. Pointing(str', heap', frees')
  <2>1. SUFFICES ASSUME NEW x \in Strings, str'[x] # Null
                 PROVE  heap[str'[x]] # Null /\ str'[x] \notin frees
    BY <1>3, Zenon DEF Pointing
  <2>2. \E y \in Strings : str'[x] = str[y]
    BY <1>4, <2>1, Zenon
  <2>3. QED
    BY <1>2, <2>1, <2>2, Zenon DEF Pointing
<1>8. \A x \in unused' : str'[x] = Null
  BY <1>1, <1>2, <1>3, <1>4, Zenon
<1>9. Readable(sso', str', heap', stored')
  <2>1. SUFFICES ASSUME NEW x \in Strings
                 PROVE  stored'[x] = IF str'[x] = Null THEN sso'[x]
                                     ELSE heap'[str'[x]].text
    BY Zenon DEF Readable
  <2>2. \E y \in Strings : /\ stored'[x] = stored[y] /\ sso'[x] = sso[y]
                           /\ str'[x] = str[y]
    <3>1. CASE x = s
      BY <1>3, <1>4, <3>1, Zenon
    <3>2. CASE x = new
      BY <1>4, <3>2, Zenon
    <3>3. CASE x \notin {s, new}
      BY <1>4, <3>3, Zenon
    <3>4. QED
      BY <3>1, <3>2, <3>3, Zenon
  <2>3. QED
    BY <1>2, <1>3, <2>2, Zenon DEF Readable
<1>10. \A x \in Strings \ undoSso' : sso'[x] = saved.sso[x]
  BY <1>2, <1>3, <1>4, Zenon
<1>11. QED
  BY <1>3, <1>5, <1>6, <1>7, <1>8, <1>9, <1>10, Zenon DEF IInv, Sound

\* Moving a string to a new leaf, set or exchanged, keeps the invariant.
LEMMA MoveStep ==
  ASSUME IInv, NEW s \in Strings, NEW new \in Strings, Move(s, new)
  PROVE  IInv'
<1>1. CASE str[s] = Null
  <2>1. Data(s) \in Text
    BY <1>1, Types, Zenon DEF IInv, Data
  <2>2. /\ active /\ UNCHANGED <<active, saved>>
        /\ SetText(new, Data(s)) /\ unused' = unused \ {new}
    BY <1>1, Zenon DEF Move
  <2>3. QED
    BY <2>1, <2>2, SetTextStep, Zenon
<1>2. CASE str[s] # Null
  BY <1>2, SwapStep, Zenon
<1>3. QED
  BY <1>1, <1>2, Zenon

\* A commit, which frees what was replaced, keeps the invariant.
LEMMA CommitStep ==
  ASSUME IInv, Commit
  PROVE  IInv'
<1>1. /\ str \in [Strings -> Address \cup {Null}]
      /\ heap \in [Address -> Block \cup {Null}]
      /\ frees \subseteq Address
  BY Types, Zenon DEF IInv
<1>2. /\ heap' = [a \in Address |-> IF a \in frees THEN Null ELSE heap[a]]
      /\ frees' = {} /\ active' = FALSE
      /\ UNCHANGED <<sso, str, unused, saved, undoSso, stored>>
  BY Zenon DEF Commit
<1>3. StringTypeOK'
  BY <1>1, <1>2, Zenon DEF IInv, StringTypeOK, StringContents
<1>4. Sound(sso, str, heap', unused, stored, {})
  BY <1>1, <1>2, SMTT(30) DEF IInv, Sound, Owned, Pointing, Sized, Readable
<1>5. QED
  BY <1>2, <1>3, <1>4, Zenon DEF IInv

\* The undo log holds all that was written, so an abort restores what was there.
LEMMA AbortStep ==
  ASSUME IInv, Abort
  PROVE  IInv'
<1>1. /\ saved \in StringContents /\ undoSso \subseteq Strings
      /\ saved.sso \in [Strings -> Text]
  BY Types, SavedTypes, Zenon DEF IInv
<1>2. sso' = saved.sso
  <2>1. \A s \in Strings :
          (IF s \in undoSso THEN saved.sso[s] ELSE sso[s]) = saved.sso[s]
    BY Zenon DEF IInv, Abort
  <2>2. saved.sso = [s \in Strings |-> saved.sso[s]]
    BY <1>1, Zenon
  <2>3. QED
    BY <2>1, <2>2, Zenon DEF Abort
<1>3. /\ str' = saved.str /\ heap' = saved.heap
      /\ unused' = saved.unused /\ stored' = saved.stored
      /\ frees' = {} /\ active' = FALSE /\ UNCHANGED <<saved, undoSso>>
  BY Zenon DEF Abort
<1>4. StringTypeOK'
  BY <1>1, <1>2, <1>3, SavedTypes, Zenon DEF StringTypeOK, StringContents
<1>5. QED
  BY <1>2, <1>3, <1>4, Zenon DEF IInv

\* Every step on strings keeps the invariant.
LEMMA StringStep ==
  ASSUME IInv, [StringNext]_strings
  PROVE  IInv'
<1>1. CASE Begin
  BY <1>1, BeginStep, Zenon
<1>2. CASE Commit
  BY <1>2, CommitStep, Zenon
<1>3. CASE Abort
  BY <1>3, AbortStep, Zenon
<1>4. CASE \E s \in Strings, t \in Text : Set(s, t)
  <2>1. PICK s \in Strings, t \in Text : Set(s, t)
    BY <1>4, Zenon
  <2>2. active /\ UNCHANGED <<active, saved>> /\ SetText(s, t)
        /\ unused' = unused \ {s}
    BY <2>1, Zenon DEF Set
  <2>3. QED
    BY <2>2, SetTextStep, Zenon
<1>5. CASE \E s, new \in Strings : Move(s, new)
  BY <1>5, MoveStep, Zenon
<1>6. CASE UNCHANGED strings
  <2>1. UNCHANGED <<sso, str, heap, unused, active, saved, undoSso, frees, stored>>
    BY <1>6, Zenon DEF strings, memory, tx
  <2> QED BY <2>1, Zenon DEF IInv, StringTypeOK
<1>7. QED
  BY <1>1, <1>2, <1>3, <1>4, <1>5, <1>6 DEF StringNext

\* The invariant holds through every sequence of transactions.
LEMMA StringInvariant == StringSpec => []IInv
BY StringInitIInv, StringStep, PTL DEF StringSpec
-----------------------------------------------------------------------------
\* Whatever transactions run, commit, abort or are lost in a crash, no memory
\* of a string leaks, is shared or is freed twice, and no pointer dangles.
THEOREM StringsOwnTheirMemory == StringSpec => []MemoryOwnedOnce
<1>1. IInv => MemoryOwnedOnce
  BY Zenon DEF IInv, Sound, Owned, Pointing, MemoryOwnedOnce
<1>2. QED
  BY <1>1, StringInvariant, PTL

\* data() returns the content that set() was last given in a transaction that
\* was not undone, across the switches between buffer and memory and the moves
\* of LeafSplit.
THEOREM StringsReadBack == StringSpec => []ReadsBack
<1>1. IInv => ReadsBack
  BY Zenon DEF IInv, Sound, Readable, ReadsBack, Data
<1>2. QED
  BY <1>1, StringInvariant, PTL

\* delete_persistent is told the size that make_persistent allocated, which
\* set() computes again from the content.
THEOREM StringsFreeWhatTheyAllocated == StringSpec => []FreedAsAllocated
<1>1. IInv => FreedAsAllocated
  BY Types, Zenon DEF IInv, Sound, Sized, FreedAsAllocated, FreedSize
<1>2. QED
  BY <1>1, StringInvariant, PTL
=============================================================================
