------------------------------- MODULE MCPool -------------------------------
EXTENDS Pool, TLC
Symmetry == Permutations(Conns) \cup Permutations(Borrowers)
=============================================================================
