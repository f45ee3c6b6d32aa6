SPECIFICATION Spec
CONSTANTS
    MaxLines = 5
    SessionTTL = 2
    MaxClock = 4
    Tab = {tab}
    Vertical = {otsec, energy}
    Configured = {otsec}
    MaxStray = 1
    Id = {n1, n2, n3}
    Relation = {"feeds", "near"}
    Transitive = "feeds"
    MaxRows = 4
    Hops = 2
    Chunk = {k1, k2, k3}
    TopK = 2
    MaxMembers = 4
    MaxLinks = 2
    MaxResultRows = 2
    MaxQuads = 3
    MaxLive = 2
    MaxTextLines = 4
    MaxDocuments = 3
    MaxSources = 2
    MaxStamp = 2
    EventLimit = 2
INVARIANTS
    StreamIsCutFree
    GateAdmits
    SettledBadgeIsRight
    PageMatchesBadge
    AnswersAreReachable
    NoDecoys
    MetricIsUnambiguous
    SchemaIsExplained
    LinesAreShownOnce
    SourcesAddUp
PROPERTIES
    SimilarChunksWin
    FlowIsHonest
CHECK_DEADLOCK FALSE
