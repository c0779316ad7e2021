------------------------- MODULE MCLeafStoreAborts -------------------------
(* A small instance of LeafStoreAborts, as in MCLeafStore.                  *)
EXTENDS LeafStoreAborts

MCCStr == [x \in Key \cup Val |-> x]
MCHash == [k \in Key |-> 1 + (k % 2)]
=============================================================================
