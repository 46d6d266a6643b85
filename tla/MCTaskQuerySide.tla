-------------------------- MODULE MCTaskQuerySide --------------------------
EXTENDS TaskQuerySide, TLC

Symmetry == Permutations(Requests) \cup Permutations(Boards) \cup Permutations(Details)
=============================================================================
