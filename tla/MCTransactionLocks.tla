-------------------------- MODULE MCTransactionLocks --------------------------
(***************************************************************************)
(* Two transactions and one key, for TLC.  A state is told by what can     *)
(* matter: not by the operation that ended last, nor by what was known of  *)
(* keys that are not locked any more.                                      *)
(***************************************************************************)
EXTENDS TransactionLocks, TLC

OneStripe == [k \in Key |-> 1]

Symmetry == Permutations(Txn)

Operation(t) == IF pc[t] \in {"acquire", "validate"} THEN {op[t]} ELSE {}
Known(f) == [t \in Txn |-> [k \in tracked_keys_[t] |-> f[t][k]]]
View ==
  <<locks, database, pc, [t \in Txn |-> Operation(t)], to_unlock, after,
    tracked_keys_, Known(seq), Known(since), batch, snapshot_, save_points_>>
=============================================================================
