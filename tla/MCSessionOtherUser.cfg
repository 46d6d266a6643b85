CONSTANTS
    Typed <- MCTyped
    Lower <- MCLower
    None = None
    MaxTokens = 2
    MaxAuths = 2
    MaxCalls = 2
SPECIFICATION Spec
INVARIANTS
    TokenNamesUser
