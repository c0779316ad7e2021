----------------------------- MODULE InnerNode -----------------------------
(***************************************************************************)
(* One volatile inner node of the tree (struct ScreeDBInnerNode of         *)
(* utilities/screedb/screedb.h): which child a search goes to, where a     *)
(* split key and its new node are inserted, and how an overfull node is    *)
(* cut.  Only the first keycount keys and keycount + 1 children of the     *)
(* arrays are ever read, so they are sequences.                            *)
(***************************************************************************)
EXTENDS Integers, Sequences, SequencesExt

CONSTANT INNER_KEYS            \* maximum keys for inner nodes

ASSUME InnerKeysAssumption == INNER_KEYS \in Nat \ {0} /\ INNER_KEYS % 2 = 0

INNER_KEYS_MIDPOINT == INNER_KEYS \div 2
INNER_KEYS_UPPER == (INNER_KEYS \div 2) + 1

\* (Faulty variant: a key equal to a separator is sent to its right.)
ChildForBelow(inner, x) ==
  LET idx == SelectInSeq(inner.keys, LAMBDA key : x < key)
  IN  IF idx # 0 THEN inner.children[idx] ELSE Last(inner.children)

\* The child LeafSearch goes to: the first whose key is not below x, or else
\* the last.
ChildFor(inner, x) ==
  LET idx == SelectInSeq(inner.keys, LAMBDA key : x <= key)
  IN  IF idx # 0 THEN inner.children[idx] ELSE Last(inner.children)

\* LeafUpdateParentsAfterSplit: split_key goes in front of the first greater
\* key, and new_node to the right of the child at that place.
InsertChild(inner, splitKey, newNode) ==
  LET greater == SelectInSeq(inner.keys, LAMBDA key : key > splitKey)
      idx     == IF greater # 0 THEN greater ELSE Len(inner.keys) + 1
  IN  [keys     |-> InsertAt(inner.keys, idx, splitKey),
       children |-> InsertAt(inner.children, idx + 1, newNode)]

Overfull(inner) == Len(inner.keys) > INNER_KEYS

\* An overfull node is cut around the key at INNER_KEYS_MIDPOINT (from 0), which
\* goes to neither half.
LowerInner(inner) ==
  [keys     |-> SubSeq(inner.keys, 1, INNER_KEYS_MIDPOINT),
   children |-> SubSeq(inner.children, 1, INNER_KEYS_MIDPOINT + 1)]

\* (Faulty variant: off by one.)
KeyBelowMiddle(inner) == inner.keys[INNER_KEYS_MIDPOINT]

MiddleKey(inner) == inner.keys[INNER_KEYS_MIDPOINT + 1]

\* (Faulty variant: the loop over the children stops at keycount.)
UpperInnerShort(inner) ==
  [keys     |-> SubSeq(inner.keys, INNER_KEYS_UPPER + 1,
                       INNER_KEYS_UPPER + INNER_KEYS_MIDPOINT),
   children |-> SubSeq(inner.children, INNER_KEYS_UPPER + 1, Len(inner.children) - 1)]

UpperInner(inner) ==
  [keys     |-> SubSeq(inner.keys, INNER_KEYS_UPPER + 1,
                       INNER_KEYS_UPPER + INNER_KEYS_MIDPOINT),
   children |-> SubSeq(inner.children, INNER_KEYS_UPPER + 1, Len(inner.children))]
=============================================================================
