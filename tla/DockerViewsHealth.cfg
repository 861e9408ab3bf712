SPECIFICATION Spec
CONSTANTS
    Apps = {3}
    StressIds = {1}
    Confs <- MCConfs
    FirstConf <- Loose
    IncludeContainers = {"app"}
    NameOf <- MCNameOf
    NoDetails = NoDetails
    NoId = NoId
    Slots = {1, 2}
    MaxChanges = 1
CHECK_DEADLOCK FALSE
INVARIANT ListedHealthIsShown
