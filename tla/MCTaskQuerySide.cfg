CONSTANTS
    Boards = {b1, b2}
    MoveBoards = {b1, b2}
    Details = {d1, d2}
    Requests = {r1, r2, r3}
    Tasks = {t1}
    MaxRestarts = 2
    Null = Null
SPECIFICATION Spec
INVARIANTS
    TypeOK
    CaughtUpViewIsProjection
    OnlyDeletedTasksFail
    QueryIInv
PROPERTIES
    EventuallyConsistent
CHECK_DEADLOCK FALSE
