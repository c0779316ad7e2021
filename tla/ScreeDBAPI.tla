----------------------------- MODULE ScreeDBAPI -----------------------------
(***************************************************************************)
(* The key/value methods of class ScreeDB (screedb.h) as one caller sees   *)
(* them, on the strings that hold the values (ScreeDBString).  Which       *)
(* string that is, the tree decides: modules Leaf to ScreeDBTree.  A Put   *)
(* is a transaction, that may split a leaf first, or fail.  Output objects *)
(* are fresh: Get and MultiGet append to those they are given.             *)
(***************************************************************************)
EXTENDS ScreeDBString, Sequences, SequencesExt

CONSTANTS Keys,
          MaxKeys   \* bounds the keys of a MultiGet

VARIABLES
  at,             \* the string that holds the value of each key, or Null
  contents,       \* what the caller has stored: the text of each key, or Null
  committed,      \* at and contents before the transaction
  asked, answer   \* keys of the last read; for each, status and value

index == <<at, contents>>
outputs == <<asked, answer>>
vars == <<strings, index, committed, outputs>>

Init ==
  /\ StringInit
  /\ at = [k \in Keys |-> Null]
  /\ contents = [k \in Keys |-> Null]
  /\ committed = index
  /\ asked = <<>> /\ answer = <<>>

PutBegin ==
  /\ Begin
  /\ committed' = index
  /\ asked' = <<>> /\ answer' = <<>>
  /\ UNCHANGED index

\* Put sets the string of the key's slot, or of a slot that is free.  Merge is
\* the same, whatever the merge operator.
PutSlot(k) == IF at[k] # Null THEN {at[k]}
              ELSE {s \in Strings \ unused : \A x \in Keys : at[x] # s}

Put(k, t) ==
  /\ \E s \in PutSlot(k) : Set(s, t) /\ at' = [at EXCEPT ![k] = s]
  /\ contents' = [contents EXCEPT ![k] = t]
  /\ UNCHANGED <<committed, outputs>>

\* LeafSplit moves the slot of a key.
PutMove(s, new) ==
  /\ Move(s, new)
  /\ at' = [k \in Keys |-> IF at[k] = s THEN new ELSE at[k]]
  /\ UNCHANGED <<contents, committed, outputs>>

PutReturns == Commit /\ UNCHANGED <<index, committed, outputs>>

PutFails ==
  /\ Abort
  /\ at' = committed[1] /\ contents' = committed[2]
  /\ UNCHANGED <<committed, outputs>>

\* Delete frees the slot; its string keeps its text and memory.
Delete(k) ==
  /\ ~active
  /\ at' = [at EXCEPT ![k] = Null]
  /\ contents' = [contents EXCEPT ![k] = Null]
  /\ asked' = <<>> /\ answer' = <<>>
  /\ UNCHANGED <<strings, committed>>


\* What Get returns and appends to an empty string, for each of the keys; a
\* value that is not found is "".
Answers(keys) ==
  [i \in 1..Len(keys) |->
     IF at[keys[i]] = Null THEN [status |-> "notfound", value |-> EmptyText]
     ELSE [status |-> "ok", value |-> Data(at[keys[i]])]]

\* MultiGet, or Get when there is one key.
MultiGet(keys) ==
  /\ ~active
  /\ asked' = keys
  /\ answer' = Answers(keys)
  /\ UNCHANGED <<strings, index, committed>>

Next ==
  \/ PutBegin
  \/ \E k \in Keys, t \in Text : Put(k, t)
  \/ \E s, new \in Strings : PutMove(s, new)
  \/ PutReturns \/ PutFails
  \/ \E k \in Keys : Delete(k)
  \/ \E keys \in BoundedSeq(Keys, MaxKeys) : MultiGet(keys)

Spec == Init /\ [][Next]_vars

-----------------------------------------------------------------------------
=============================================================================
