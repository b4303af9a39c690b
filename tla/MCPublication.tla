--------------------------- MODULE MCPublication ---------------------------
EXTENDS Publication, TLC

Symmetry == Permutations(Publishers) \cup Permutations(Inodes)
=============================================================================
