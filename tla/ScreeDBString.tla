--------------------------- MODULE ScreeDBString ---------------------------
(***************************************************************************)
(* Persistent strings of a leaf (class ScreeDBString, screedb.h and        *)
(* screedb.cc): a short string is held in the object, a longer one in      *)
(* persistent memory that set() allocates and frees.  LeafSplit copies     *)
(* short strings to a new leaf and swaps long ones.                        *)
(*                                                                         *)
(* All of it runs inside NVML transactions: memory freed in one is         *)
(* released when it commits, and when it aborts or the machine crashes     *)
(* the words that were added to its undo log are restored and its          *)
(* allocations are undone.  What is not in the undo log stays as written.  *)
(***************************************************************************)
EXTENDS Naturals

CONSTANTS Strings,      \* string objects, in any leaf
          Text,         \* contents
          EmptyText,    \* the content of a string in a new leaf
          Strlen,       \* length of each content
          SSO_CHARS,    \* longest content held in the object
          Address,      \* where memory can be allocated
          Null

Block == [text : Text, size : Nat]

ASSUME TextAssumption ==
  /\ EmptyText \in Text
  /\ Strlen \in [Text -> Nat] /\ Strlen[EmptyText] = 0
  /\ SSO_CHARS \in Nat
  /\ Null \notin Address \cup Block

VARIABLES
  sso,        \* content of the buffer in each string
  str,        \* pointer of each string
  heap,       \* live allocations: [text, size], or Null
  unused,     \* strings of leaves that are not allocated yet
  active,     \* a transaction runs
  saved,      \* undo log: values of sso and str before the transaction
  undoSso,    \* strings whose buffer is in the undo log
  frees,      \* addresses to release at commit
  stored      \* content each string was last given, as its user sees it

memory == <<sso, str, heap, unused>>
tx == <<active, saved, undoSso, frees>>
strings == <<memory, tx, stored>>

StringContents == [sso : [Strings -> Text], str : [Strings -> Address \cup {Null}],
                   heap : [Address -> Block \cup {Null}], unused : SUBSET Strings,
                   stored : [Strings -> Text]]

StringTypeOK ==
  /\ [sso |-> sso, str |-> str, heap |-> heap, unused |-> unused,
      stored |-> stored] \in StringContents
  /\ active \in BOOLEAN
  /\ saved \in StringContents
  /\ undoSso \subseteq Strings
  /\ frees \subseteq Address

Now == [sso |-> sso, str |-> str, heap |-> heap, unused |-> unused,
        stored |-> stored]

\* A leaf with one string, and memory for the others.
StringInit ==
  /\ sso = [s \in Strings |-> EmptyText]
  /\ str = [s \in Strings |-> Null]
  /\ heap = [a \in Address |-> Null]
  /\ \E s \in Strings : unused = Strings \ {s}
  /\ active = FALSE
  /\ stored = [s \in Strings |-> EmptyText]
  /\ saved = Now
  /\ undoSso = {}
  /\ frees = {}

\* What data() points at.
Data(s) == IF str[s] = Null THEN sso[s] ELSE heap[str[s]].text

Begin ==
  /\ ~active
  /\ active' = TRUE
  /\ saved' = Now
  /\ undoSso' = {}
  /\ frees' = {}
  /\ UNCHANGED <<memory, stored>>

-----------------------------------------------------------------------------
\* The size delete_persistent is told, computed from the content.
FreedSize(a) == Strlen[heap[a].text] + 1

\* Memory of a string that is given a new content.
Release(s) == IF str[s] = Null THEN {} ELSE {str[s]}

\* (Faulty variant: the buffer is not added to the transaction.)
SetShortUnlogged(s, t) ==
  /\ frees' = frees \cup Release(s)
  /\ str' = [str EXCEPT ![s] = Null]
  /\ sso' = [sso EXCEPT ![s] = t]
  /\ UNCHANGED <<heap, undoSso>>

SetShort(s, t) ==
  /\ frees' = frees \cup Release(s)
  /\ str' = [str EXCEPT ![s] = Null]
  /\ undoSso' = undoSso \cup {s}
  /\ sso' = [sso EXCEPT ![s] = t]
  /\ UNCHANGED heap

\* (Faulty variant: a long string overwrites the pointer to the last one.)
SetLongLeaks(s, t) ==
  /\ \E a \in Address :
       /\ heap[a] = Null
       /\ heap' = [heap EXCEPT ![a] = [text |-> t, size |-> Strlen[t] + 1]]
       /\ str' = [str EXCEPT ![s] = a]
  /\ UNCHANGED <<sso, undoSso, frees>>

\* (Faulty variant: memory is allocated without room for the terminator.)
SetLongUnterminated(s, t) ==
  /\ frees' = frees \cup Release(s)
  /\ \E a \in Address :
       /\ heap[a] = Null
       /\ heap' = [heap EXCEPT ![a] = [text |-> t, size |-> Strlen[t]]]
       /\ str' = [str EXCEPT ![s] = a]
  /\ UNCHANGED <<sso, undoSso>>

SetLong(s, t) ==
  /\ frees' = frees \cup Release(s)
  /\ \E a \in Address :
       /\ heap[a] = Null
       /\ heap' = [heap EXCEPT ![a] = [text |-> t, size |-> Strlen[t] + 1]]
       /\ str' = [str EXCEPT ![s] = a]
  /\ UNCHANGED <<sso, undoSso>>

\* ScreeDBString::set, and the content its caller gave.
SetText(s, t) ==
  /\ IF Strlen[t] <= SSO_CHARS THEN SetShort(s, t) ELSE SetLong(s, t)
  /\ stored' = [stored EXCEPT ![s] = t]

\* LeafFillSpecificSlot sets the strings of a slot.
Set(s, t) ==
  /\ active
  /\ s \notin unused
  /\ SetText(s, t)
  /\ UNCHANGED <<unused, active, saved>>

\* LeafSplit moves a string to the same slot of a new leaf.  A short one is
\* set there and stays behind; a long one is exchanged for the empty one.
Move(s, new) ==
  /\ active
  /\ s \notin unused /\ new \in unused
  /\ unused' = unused \ {new}
  /\ \/ /\ str[s] = Null
        /\ SetText(new, Data(s))
        /\ UNCHANGED <<active, saved>>
     \/ /\ str[s] # Null
        /\ sso' = [sso EXCEPT ![s] = sso[new], ![new] = sso[s]]
        /\ str' = [str EXCEPT ![s] = str[new], ![new] = str[s]]
        /\ stored' = [stored EXCEPT ![s] = stored[new], ![new] = stored[s]]
        /\ undoSso' = undoSso \cup {s, new}
        /\ UNCHANGED <<heap, active, saved, frees>>

-----------------------------------------------------------------------------
Commit ==
  /\ active
  /\ active' = FALSE
  /\ heap' = [a \in Address |-> IF a \in frees THEN Null ELSE heap[a]]
  /\ frees' = {}
  /\ UNCHANGED <<sso, str, unused, saved, undoSso, stored>>

\* A failed allocation aborts the transaction and a crash loses it; the undo
\* log has the pointers (persistent_ptr adds itself) and the buffers in it.
Abort ==
  /\ active
  /\ active' = FALSE
  /\ sso' = [s \in Strings |-> IF s \in undoSso THEN saved.sso[s] ELSE sso[s]]
  /\ str' = saved.str
  /\ heap' = saved.heap
  /\ unused' = saved.unused
  /\ frees' = {}
  /\ stored' = saved.stored
  /\ UNCHANGED <<saved, undoSso>>

-----------------------------------------------------------------------------
\* Every live allocation that is not about to be freed belongs to exactly one
\* string, and every pointer is to live memory: nothing leaks, nothing is
\* freed twice or shared, through sets, moves, aborts and crashes.
MemoryOwnedOnce ==
  /\ \A a \in Address : heap[a] # Null /\ a \notin frees =>
       \E s \in Strings : \A x \in Strings : str[x] = a <=> x = s
  /\ \A s \in Strings : str[s] # Null => heap[str[s]] # Null /\ str[s] \notin frees

\* A string reads back as the last content given to it, whatever it held before.
ReadsBack == \A s \in Strings \ unused : Data(s) = stored[s]

\* The size that delete_persistent is told is the size allocated.
FreedAsAllocated == \A a \in frees : heap[a].size = FreedSize(a)
=============================================================================
