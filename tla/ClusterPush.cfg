SPECIFICATION Spec
CONSTANTS
    Setups <- MCSetups
    MaxRetries = 2
    HttpTimeout = 1
    DiscoverTimeout = 1
    Interval = 2
    Staleness = 1
    MaxDelay = 2
    MaxTime = 11
    MaxTimeTogether = 4
    None = None
INVARIANTS PushIsBounded VisibleDataIsRecent OnlyMatchingWorkersAreStored
PROPERTIES AckedMeansStored OnlyAbandonedRequestsGoBack
