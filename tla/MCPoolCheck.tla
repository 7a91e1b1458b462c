----------------------------- MODULE MCPoolCheck -----------------------------
EXTENDS PoolCheck, TLC
Symmetry == Permutations(Conns) \cup Permutations(Borrowers)
=============================================================================
