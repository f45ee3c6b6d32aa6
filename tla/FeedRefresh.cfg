SPECIFICATION Spec
CONSTANTS
    Feed = {"kev", "nvd"}
    FeedOrder <- MCFeedOrder
    PagedFeed = {"nvd"}
    Doc = {"k", "n1", "n2"}
    DocsOf <- MCDocsOf
    MaxVersion = 2
    MaxRuns = 3
    Overlap = FALSE
    Reverts = FALSE
INVARIANTS
    ResultIsStored
    NoChurn
    FailuresAreIsolated
PROPERTIES
    ImplementsStore
CHECK_DEADLOCK FALSE
