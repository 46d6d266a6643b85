--------------------------- MODULE MCTaskListing ---------------------------
EXTENDS TaskListing, TLC

Symmetry == Permutations(Requests)
=============================================================================
