SPECIFICATION FairSpec
CONSTANTS
    NSources = 2
    NGrants = 1
    DataSources = {1}
    HasMetrics = TRUE
    MaxRuns = 2
    MaxPolls = 1
INVARIANTS
    TypeOK
    OntologyReady
    MetricsReady
    RerunBringsMetricsOnline
    EarlyFailuresAreSafe
PROPERTIES
    RunEnds
CHECK_DEADLOCK FALSE
