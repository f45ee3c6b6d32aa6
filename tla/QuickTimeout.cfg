SPECIFICATION Spec
CONSTANTS
    Request = {r1}
    AgentCore = TRUE
    StaticToken = FALSE
    CacheDir = FALSE
    KeysCap = 1
    MintCap = 1
    QueryTimeout = 4
INVARIANT QueryTimeoutIsHard
CHECK_DEADLOCK FALSE
