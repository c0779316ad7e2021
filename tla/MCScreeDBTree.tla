--------------------------- MODULE MCScreeDBTree ---------------------------
(* Small instances of ScreeDBTree.  Slices are numbers, a slice is its own  *)
(* C string (no NUL inside).                                                *)
EXTENDS ScreeDBTree

MCCStr == [x \in Key \cup Val |-> x]

\* Keys 1 and 3 collide, and so do 2 and 4, and so on.
MCHash == [k \in Key |-> 1 + (k % 2)]

-----------------------------------------------------------------------------
(***************************************************************************)
(* Growth: entries are only added, each below or above all the others, so  *)
(* that the tree gets as high as the pool allows; then it may crash and be *)
(* rebuilt.  With INNER_KEYS = 2, eight leaves make a split pass through   *)
(* two inner nodes.                                                        *)
(***************************************************************************)
StoredKeys ==
  UNION {{leaves[l].kv_keys[s] : s \in UsedSlots(leaves[l].hashes)} : l \in LeafId}

\* The stored keys are an interval, which k extends at one end.
AtAnEnd(k) ==
  /\ CStr[k] \notin StoredKeys
  /\ StoredKeys # {} => {CStr[k] - 1, CStr[k] + 1} \cap StoredKeys # {}

GrowNext ==
  \/ OpenEmpty
  \/ RebuildStart
  \/ Progress
  \/ \E k \in Key, v \in Val : AtAnEnd(k) /\ (PutFirst(k, v) \/ PutSplit(k, v))
  \/ Crash

GrowSpec == Init /\ [][GrowNext]_vars /\ WF_vars(Progress)
=============================================================================
