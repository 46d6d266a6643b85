---------------------------- MODULE MCBoardPage ----------------------------
EXTENDS BoardPage, TLC

Symmetry == Permutations(Requests)
=============================================================================
