---------------------------- MODULE MCBoardList ----------------------------
EXTENDS BoardList, TLC

Symmetry == Permutations(Boards) \cup Permutations(Users)
=============================================================================
