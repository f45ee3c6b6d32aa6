SPECIFICATION Spec
CONSTANTS
    Request = {r1, r2}
    AgentCore = TRUE
    StaticToken = FALSE
    CacheDir = TRUE
    KeysCap = 1
    MintCap = 1
    QueryTimeout = 4
INVARIANTS
    OnlyAdmittedReachCoa
    WaitIsBounded
PROPERTY EveryRequestEnds
CHECK_DEADLOCK FALSE
