--------------------------- MODULE MCStoragePrune ---------------------------
EXTENDS StoragePrune, TLC

\* The invocations are interchangeable.
Symmetry == Permutations(Pruners)

=============================================================================
