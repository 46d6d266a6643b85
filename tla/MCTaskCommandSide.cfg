CONSTANTS
    Boards = {b1}
    Details = {d1}
    Requests = {r1, r2, r3}
    Tasks = {t1}
    MaxAttempts = 2
    Null = Null
SPECIFICATION Spec
INVARIANTS
    HistoryStartsWithCreation
    ResponsesMatchHistory
    AtMostOnce
    IInv
PROPERTIES
    DeletionIsPermanent
    ImplementsAtomicTasks
    PublishesHistories
    RequestsEnd
CHECK_DEADLOCK FALSE
