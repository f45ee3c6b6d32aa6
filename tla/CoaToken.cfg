SPECIFICATION Spec
CONSTANTS
    Caller = {p, s1, s2}
    SourcesCaller = {s1, s2}
    CanMint = TRUE
    EnvToken = TRUE
    EnvExpiry = 2
    Lifetime = 4
    Skew = 1
    Fallback = 3
    MaxDelay = 1
    MaxHold = 1
    MaxTime = 6
    MaxMints = 3
INVARIANTS
    TypeOK
    NoMidRequest403
    SpacedMints
PROPERTY ImplementsService
CHECK_DEADLOCK FALSE
