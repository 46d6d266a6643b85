CONSTANTS
    Boards = {b1, b2}
    Titles = {x1}
    Users = {u1, u2}
    Times = {1, 2}
    Null = Null
SPECIFICATION Spec
INVARIANTS
    ListTypeOK
    ListedOnceAsCreated
    LoadedListIsComplete
SYMMETRY Symmetry
CHECK_DEADLOCK FALSE
