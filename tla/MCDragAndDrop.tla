--------------------------- MODULE MCDragAndDrop ---------------------------
EXTENDS DragAndDrop, TLC

Symmetry == Permutations(Cards)
=============================================================================
