SPECIFICATION Spec
CONSTANTS
    NSources = 1
    NGrants = 1
    DataSources = {1}
    HasMetrics = TRUE
    MaxRuns = 2
    MaxPolls = 1
INVARIANTS
    RetryIsSafe
CHECK_DEADLOCK FALSE
