-------------------------- MODULE MCScreeDBCallers --------------------------
(***************************************************************************)
(* Instances of ScreeDBCallers for TLC.                                    *)
(***************************************************************************)
EXTENDS ScreeDBCallers, TLC

Symmetry == Permutations(Threads) \cup Permutations(Keys) \cup Permutations(Values)
=============================================================================
