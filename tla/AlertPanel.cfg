SPECIFICATION SamplingSpec
CONSTANTS
    Containers = {c1}
    rules <- MCRules
    Metrics <- MCMetrics
    Levels <- MCLevels
    HistoryCap = 2
    MaxTime = 3
    MaxFetches = 1
    None = None
    SecuritySeverities <- MCSecuritySeverities
INVARIANTS ActiveAlertsAreCurrent AlertsFireAfterDuration
           HistoryKeepsTheLatest ShownAlertsAreTheWorst MarksShowTheWorst
PROPERTIES LifecycleSpec PersistentConditionsFire
