-------------------------- MODULE LeafStoreAborts --------------------------
(***************************************************************************)
(* LeafStore in an application that catches the exception of a transaction *)
(* that fails and goes on using the tree.  An allocation fails when the    *)
(* pool, whose size is fixed (screedb.cc:70), is full; adding to the undo  *)
(* log can fail too.  exec_tx then restores the pool and throws; the       *)
(* volatile hashes that the closure, or Delete before it, has already      *)
(* written are not restored.                                               *)
(***************************************************************************)
EXTENDS LeafStore

\* The volatile hashes of leaf l become h, and nothing else changes.
LeavesHashes(l, h) ==
  /\ cache' = [cache EXCEPT ![l] = h]
  /\ UNCHANGED <<persistent, isOpen, owner>>

\* LeafFillSpecificSlot has written the volatile hash when the value's string
\* cannot be allocated.  (When it is the key's string, nothing was written.)
PutInLeafAborts(k) ==
  LET l    == LeafSearch(k)
      slot == SlotForKey(Node(l), k)
  IN  /\ isOpen
      /\ l # 0
      /\ HasSlotForKey(Node(l), k)
      /\ LeavesHashes(l, [cache[l] EXCEPT ![slot] = PearsonHash[k]])

\* LeafSplit has moved the slots from the top down to "last" when a string
\* cannot be allocated, or all of them when the new entry's cannot.
PutSplitAborts(k, last) ==
  LET l     == LeafSearch(k)
      moved == MovedSlots(Node(l), SplitKey(Node(l), k))
  IN  /\ isOpen
      /\ l # 0
      /\ ~HasSlotForKey(Node(l), k)
      /\ LeavesHashes(l, [s \in Slot |-> IF s \in moved /\ s >= last THEN 0
                                         ELSE cache[l][s]])

\* LeafSplit has also written the volatile hash of the new entry in the old
\* leaf when the entry's value cannot be allocated.
PutSplitFillAborts(k, v) ==
  LET l     == LeafSearch(k)
      nodes == LeafSplit(Node(l), k, v)
  IN  /\ isOpen
      /\ l # 0
      /\ ~HasSlotForKey(Node(l), k)
      /\ LeavesHashes(l, nodes.low.hashes)

\* Delete clears the volatile hash before its transaction starts.
DeleteAborts(k) ==
  LET l == LeafSearch(k)
  IN  /\ isOpen
      /\ l # 0
      /\ LeavesHashes(l, LeafDelete(Node(l), k).hashes)

AbortsNext ==
  \/ Next
  \/ \E k \in Key : PutInLeafAborts(k) \/ DeleteAborts(k)
  \/ \E k \in Key, last \in Slot : PutSplitAborts(k, last)
  \/ \E k \in Key, v \in Val : PutSplitFillAborts(k, v)

AbortsSpec == Init /\ [][AbortsNext]_vars
=============================================================================
