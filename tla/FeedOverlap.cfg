SPECIFICATION Spec
CONSTANTS
    Feed = {"kev"}
    FeedOrder <- MCOneFeed
    PagedFeed = {}
    Doc = {"k"}
    DocsOf <- MCOneDoc
    MaxVersion = 2
    MaxRuns = 3
    Overlap = TRUE
    Reverts = FALSE
PROPERTIES
    SkippedIsUnchanged
CHECK_DEADLOCK FALSE
