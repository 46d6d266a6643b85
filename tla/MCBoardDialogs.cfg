CONSTANTS
    Typed <- MCTyped
    Lower <- MCLower
    None = None
    MaxTokens = 1
    MaxAuths = 2
    MaxCalls = 2
SPECIFICATION Spec
INVARIANTS
    DialogTypeOK
    StoredWithUser
    OneUser
    LocksFollowRequests
    HistoryIsAwaited
    DialogIInv
PROPERTIES
    LocksAreReleased
