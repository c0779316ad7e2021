--------------------------- MODULE ScreeDBCallers ---------------------------
(***************************************************************************)
(* Several threads that call Put and Delete on one ScreeDB handle, at the  *)
(* grain of their reads and writes of one leaf and its leaf node           *)
(* (screedb.cc).  ScreeDBTree takes no lock.                               *)
(*                                                                         *)
(* The leaf is there and has room: adding the first leaf and splitting a   *)
(* full one are not part of this module.  Transactions of different        *)
(* threads are atomic across a crash but not isolated from each other, so  *)
(* their writes are seen as they are made.  A string is written at once.   *)
(* Keys have distinct hashes here, and a key stands for its hash.          *)
(***************************************************************************)
EXTENDS Naturals

CONSTANTS Threads, Keys, Values,
          NODE_KEYS,      \* slots of a leaf
          MaxCalls,       \* bounds the calls of a thread
          None

Slot == 0..(NODE_KEYS - 1)

VARIABLES
  hashes,    \* hashes of the leaf node (volatile); None is 0
  phashes,   \* hashes of the leaf (persistent)
  keys,      \* keys of the slots (persistent)
  values,    \* values of the slots (persistent)
  pc, call,  \* of each thread: where it is, and its call
  scan,      \* of each thread: slots its scan has left
  slot,      \* of each thread: slot chosen, None if none
  calls,     \* of each thread: calls made
  alone,     \* of each thread: no other call on its key overlapped its own
  expected   \* of each key: the values it may have when no call runs

leaf == <<hashes, phashes, keys, values>>
caller == <<call, scan, slot, calls, alone>>
vars == <<leaf, pc, caller, expected>>

Calls == [op : {"Put"}, key : Keys, value : Values]
         \cup [op : {"Delete"}, key : Keys, value : {None}]

\* A leaf whose keys have all been deleted; one of them is still in slot 0.
Init ==
  /\ hashes = [s \in Slot |-> None]
  /\ phashes = [s \in Slot |-> None]
  /\ \E k \in Keys, v \in Values :
       /\ keys = [s \in Slot |-> IF s = 0 THEN k ELSE None]
       /\ values = [s \in Slot |-> IF s = 0 THEN v ELSE None]
  /\ pc = [t \in Threads |-> "idle"]
  /\ call = [t \in Threads |-> None]
  /\ scan = [t \in Threads |-> 0]
  /\ slot = [t \in Threads |-> None]
  /\ calls = [t \in Threads |-> 0]
  /\ alone = [t \in Threads |-> TRUE]
  /\ expected = [k \in Keys |-> {None}]

Goto(t, label) == pc' = [pc EXCEPT ![t] = label]

\* Threads in the middle of a call on a key.
Busy(k) == {t \in Threads : pc[t] # "idle" /\ call[t].key = k}

\* A call begins: LeafSearch finds the leaf.
Begin(t, c) ==
  /\ pc[t] = "idle"
  /\ calls[t] < MaxCalls
  /\ calls' = [calls EXCEPT ![t] = @ + 1]
  /\ call' = [call EXCEPT ![t] = c]
  /\ scan' = [scan EXCEPT ![t] = NODE_KEYS]
  /\ slot' = [slot EXCEPT ![t] = None]
  /\ alone' = [x \in Threads |-> IF x = t THEN Busy(c.key) = {}
                                ELSE alone[x] /\ x \notin Busy(c.key)]
  /\ Goto(t, "scan")
  /\ UNCHANGED <<leaf, expected>>

\* A call returns.  Its effect replaces what was expected of the key, or joins
\* it when calls on the key overlapped and may have taken effect in any order.
Return(t) ==
  /\ Goto(t, "idle")
  /\ expected' = [expected EXCEPT ![call[t].key] =
                    IF alone[t] THEN {call[t].value} ELSE @ \cup {call[t].value}]

\* One turn of a loop over the slots: the hash of a slot is read.
Scan(t) ==
  LET s == scan[t] - 1 IN
  /\ pc[t] = "scan"
  /\ scan[t] > 0
  /\ scan' = [scan EXCEPT ![t] = s]
  /\ slot' = [slot EXCEPT ![t] =
                IF call[t].op = "Put" /\ hashes[s] = None THEN s ELSE @]
  /\ Goto(t, IF hashes[s] = call[t].key THEN "compare" ELSE "scan")
  /\ UNCHANGED <<leaf, expected, call, calls, alone>>

\* strcmp with the key of a slot whose hash matches.
Compare(t) ==
  /\ pc[t] = "compare"
  /\ IF keys[scan[t]] = call[t].key
     THEN /\ slot' = [slot EXCEPT ![t] = scan[t]]
          /\ Goto(t, IF call[t].op = "Put" THEN "key" ELSE "hash")
     ELSE Goto(t, "scan") /\ UNCHANGED slot
  /\ UNCHANGED <<leaf, expected, call, scan, calls, alone>>

\* The scan is over: a Put fills the empty slot it saw last, Delete found
\* nothing.
ScanDone(t) ==
  /\ pc[t] = "scan"
  /\ scan[t] = 0
  /\ \/ /\ call[t].op = "Put" /\ slot[t] # None
        /\ Goto(t, "key")
        /\ UNCHANGED expected
     \/ /\ call[t].op = "Delete"
        /\ Return(t)
  /\ UNCHANGED <<leaf, caller>>

-----------------------------------------------------------------------------
\* LeafFillSpecificSlot: the key is written if the hash of the slot is 0,
FillKey(t) ==
  /\ pc[t] = "key"
  /\ keys' = IF hashes[slot[t]] = None
             THEN [keys EXCEPT ![slot[t]] = call[t].key] ELSE keys
  /\ Goto(t, "hash")
  /\ UNCHANGED <<hashes, phashes, values, caller, expected>>

\* then the hash of the leaf node (Delete clears it),
SetHash(t) ==
  /\ pc[t] = "hash"
  /\ hashes' = [hashes EXCEPT ![slot[t]] =
                  IF call[t].op = "Put" THEN call[t].key ELSE None]
  /\ Goto(t, "phash")
  /\ UNCHANGED <<phashes, keys, values, caller, expected>>

\* then the hash of the leaf,
FillPersistentHash(t) ==
  /\ pc[t] = "phash"
  /\ call[t].op = "Put"
  /\ phashes' = [phashes EXCEPT ![slot[t]] = call[t].key]
  /\ Goto(t, "value")
  /\ UNCHANGED <<hashes, keys, values, caller, expected>>

DeletePersistentHash(t) ==
  /\ pc[t] = "phash"
  /\ call[t].op = "Delete"
  /\ phashes' = [phashes EXCEPT ![slot[t]] = None]
  /\ Return(t)
  /\ UNCHANGED <<hashes, keys, values, caller>>

\* and last the value.
FillValue(t) ==
  /\ pc[t] = "value"
  /\ values' = [values EXCEPT ![slot[t]] = call[t].value]
  /\ Return(t)
  /\ UNCHANGED <<hashes, phashes, keys, caller>>

Step(t) ==
  \/ Scan(t) \/ Compare(t) \/ ScanDone(t) \/ FillKey(t) \/ SetHash(t)
  \/ FillPersistentHash(t) \/ DeletePersistentHash(t) \/ FillValue(t)

Next == \E t \in Threads : Step(t) \/ \E c \in Calls : Begin(t, c)

Spec == Init /\ [][Next]_vars

-----------------------------------------------------------------------------
\* What a Get with no other call running reads: the first match from the top.
Matching(k) == {s \in Slot : hashes[s] = k /\ keys[s] = k}
Lookup(k) ==
  IF Matching(k) = {} THEN None
  ELSE values[CHOOSE s \in Matching(k) : \A x \in Matching(k) : x <= s]

\* "A DB is safe for concurrent access from multiple threads without any
\* external synchronization": when no call runs, a key has the value of the
\* last Put or Delete of it that returned, or of one that overlapped it.
PutsAreKept ==
  (\A t \in Threads : pc[t] = "idle") => \A k \in Keys : Lookup(k) \in expected[k]
=============================================================================
