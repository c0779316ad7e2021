--------------------------- MODULE MCFlushRecovery ---------------------------
EXTENDS FlushRecovery

CONSTANTS a, b

MCFamilies == <<a, b>>
Symmetry == Permutations(Jobs)
MCBatches == {{a}, {b}}
MCMinMerge == [cf \in {a, b} |-> IF cf = a THEN 1 ELSE 2]
=============================================================================
