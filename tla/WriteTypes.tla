----------------------------- MODULE WriteTypes -----------------------------
(***************************************************************************)
(* What the invariants of WriteImpl have in common (modules WriteGroups,   *)
(* WriteData and WriteSequence): the types of the variables, and how a     *)
(* writer looks before others meet it.                                     *)
(***************************************************************************)
EXTENDS WriteImpl

Labels == {"start", "joined", "enter", "log", "apply", "launch", "insert",
           "count", "wait", "unlink", "complete", "report", "done"}

Types ==
  /\ newest_writer \in Writer \cup {Null}
  /\ link_older \in [Writer -> Writer \cup {Null}]
  /\ link_newer \in [Writer -> Writer \cup {Null}]
  /\ state \in [Writer -> WriterState]
  /\ pc \in [Writer -> Labels]
  /\ status \in [Writer -> Status]
  /\ group \in [Writer -> Seq(Writer)]
  /\ parallel_group \in [Writer -> Writer \cup {Null}]
  /\ running \in [Writer -> Nat]
  /\ pgStatus \in [Writer -> Status]
  /\ cursor \in [Writer -> Writer \cup {Null}]

\* A writer nobody has changed since it was made.
Fresh(x) ==
  /\ state[x] = "INIT" /\ group[x] = <<>> /\ parallel_group[x] = Null
  /\ status[x] = "ok" /\ cursor[x] = Null /\ x \notin exited

\* Induction over the natural numbers, for a set in place of a predicate.
\* Lemmas that need it assume it; module WriteProofs proves it.
Induction ==
  \A S : 0 \in S /\ (\A n \in Nat : n \in S => n + 1 \in S) => Nat \subseteq S
=============================================================================
