------------------------------ MODULE KVStore ------------------------------
(***************************************************************************)
(* What ScreeDB promises its caller: a durable map from keys to values.    *)
(* Put and Delete (utilities/screedb/screedb.cc) take effect at one        *)
(* instant, on an open handle, and nothing else changes the map: not       *)
(* opening or closing the handle, and not a crash.                         *)
(***************************************************************************)
CONSTANTS Key,      \* the keys of the map
          Value,    \* the values of the map
          None      \* what an absent key maps to

VARIABLES kv,       \* the map
          isOpen    \* a handle is open

vars == <<kv, isOpen>>

Init ==
  /\ kv = [k \in Key |-> None]
  /\ isOpen = FALSE

Put(k, v) ==
  /\ isOpen
  /\ kv' = [kv EXCEPT ![k] = v]
  /\ UNCHANGED isOpen

Delete(k) ==
  /\ isOpen
  /\ kv' = [kv EXCEPT ![k] = None]
  /\ UNCHANGED isOpen

Open ==
  /\ ~isOpen
  /\ isOpen' = TRUE
  /\ UNCHANGED kv

\* A safe close and a crash look alike: the handle is gone, the map is not.
CloseOrCrash ==
  /\ isOpen
  /\ isOpen' = FALSE
  /\ UNCHANGED kv

Next ==
  \/ \E k \in Key, v \in Value : Put(k, v)
  \/ \E k \in Key : Delete(k)
  \/ Open
  \/ CloseOrCrash

Spec == Init /\ [][Next]_vars
=============================================================================
