CONSTANTS
    Boards = {b1, b2}
    MoveBoards = {b1, b2}
    Details = {d1}
    Requests = {r1, r2, r3}
    Tasks = {t1}
    MaxRestarts = 0
    Board = b1
    MaxMoves = 1
    Null = Null
SPECIFICATION PageSpec
INVARIANTS
    PageTypeOK
    ShowsOnlyItsBoard
    SettledPageShowsColumns
    PageIInv
SYMMETRY Symmetry
CHECK_DEADLOCK FALSE
