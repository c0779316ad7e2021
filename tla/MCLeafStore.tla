---------------------------- MODULE MCLeafStore ----------------------------
(* Small instances of LeafStore.  Slices are numbers, a slice is its own    *)
(* C string (no NUL inside).                                                *)
EXTENDS LeafStore, PearsonHash

MCCStr == [x \in Key \cup Val |-> x]

\* The keys are "ar", "br", "dh" and "ds": the first collides with the third
\* and the second with the fourth.
KeyData == << <<97, 114>>, <<98, 114>>, <<100, 104>>, <<100, 115>> >>
MCHash == [k \in Key |-> <<214, 192, 214, 192>>[k]]

\* Keys that differ only behind a NUL byte: one C string, three hashes.
NulCStr == [x \in Key \cup Val |-> IF x \in Key THEN 1 ELSE x]
NulData == << <<97, 0, 98>>, <<97, 0, 99>>, <<97, 0, 100>> >>
NulHash == [k \in Key |-> <<114, 80, 174>>[k]]

ASSUME KeysHaveTheseHashes ==
  \/ \A k \in Key : PearsonHash[k] = Hash(KeyData[k])
  \/ \A k \in Key : PearsonHash[k] = Hash(NulData[k])
=============================================================================
