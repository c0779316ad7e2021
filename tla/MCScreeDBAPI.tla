---------------------------- MODULE MCScreeDBAPI ----------------------------
(***************************************************************************)
(* Instance of ScreeDBAPI for TLC: contents at and around the limit of a   *)
(* short string.                                                           *)
(***************************************************************************)
EXTENDS ScreeDBAPI, TLC

Texts == {"", "short", "long"}
Lengths == "" :> 0 @@ "short" :> 1 @@ "long" :> 2

Symmetry == Permutations(Strings) \cup Permutations(Address) \cup Permutations(Keys)
=============================================================================
