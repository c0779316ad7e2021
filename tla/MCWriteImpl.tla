---------------------------- MODULE MCWriteImpl ----------------------------
(***************************************************************************)
(* Instance of WriteImpl for TLC: a plain write and two others of several  *)
(* kinds; writers arrive in any order.                                     *)
(***************************************************************************)
EXTENDS WriteImpl, TLC

\* A plain write, and the ways in which another request differs from it.
Plain == [batch |-> TRUE, size |-> 1, count |-> 1, merge |-> FALSE,
          sync |-> FALSE, disableWAL |-> FALSE,
          callback |-> "none", batching |-> TRUE]
Synced == [Plain EXCEPT !.sync = TRUE]
NoLog == [Plain EXCEPT !.disableWAL = TRUE]
Merge == [Plain EXCEPT !.merge = TRUE]
Refused == [Plain EXCEPT !.callback = "refuses", !.count = 2]
Single == [Plain EXCEPT !.callback = "allows", !.batching = FALSE]
Large == [Plain EXCEPT !.size = 2, !.count = 2]
NoBatch == [Plain EXCEPT !.batch = FALSE]

Others == {<<Plain, x>> : x \in {Plain, Synced, NoLog, Merge, Refused, Single, Large, NoBatch}}
  \cup {<<Synced, Synced>>, <<Synced, NoLog>>, <<Synced, Refused>>,
        <<Refused, Merge>>, <<Refused, Large>>, <<Single, NoBatch>>}

Combinations == {<<Plain, o[1], o[2]>> : o \in Others}
=============================================================================
