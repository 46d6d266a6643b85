CONSTANTS
    Boards = {b1}
    MoveBoards = {b1, Null}
    Details = {d1}
    Requests = {r1, r2, r3}
    Tasks = {t1}
    MaxRestarts = 2
    Null = Null
SPECIFICATION Spec
INVARIANTS
    CaughtUpViewIsProjection
SYMMETRY Symmetry
CHECK_DEADLOCK FALSE
