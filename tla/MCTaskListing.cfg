CONSTANTS
    Boards = {b1, b2}
    MoveBoards = {b1, b2}
    Details = {d1}
    Requests = {r1, r2, r3}
    Tasks = {t1, t2}
    MaxRestarts = 1
    Null = Null
SPECIFICATION ListingSpec
INVARIANTS
    ListingTypeOK
    ListingIInv
PROPERTIES
    UnchangedTasksListedOnce
SYMMETRY Symmetry
CHECK_DEADLOCK FALSE
