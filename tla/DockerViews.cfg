SPECIFICATION FairSpec
CONSTANTS
    Apps = {3}
    StressIds = {1, 2}
    Confs <- MCConfs
    FirstConf <- Loose
    IncludeContainers = {"app"}
    NameOf <- MCNameOf
    NoDetails = NoDetails
    NoId = NoId
    Slots = {1, 2}
    MaxChanges = 3
INVARIANTS RowsAreOfTheirContainers FindingsAreOfThisListing StressRaceHasAWinner
PROPERTIES DetailsAppear FindingsAppear GoneContainersDisappear
CHECK_DEADLOCK FALSE
