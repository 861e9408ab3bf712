SPECIFICATION FairSpec
CONSTANTS
    Files <- MCFiles
    Envs <- MCEnvs
    Hostnames <- MCHostnames
    NotLoaded = NotLoaded
    Locals = {"c1", "c2"}
    Hosts = {"h1"}
    NumVecs = 2
    Staleness = 1
CHECK_DEADLOCK FALSE
INVARIANTS  ScrapesShowNoGhosts UndisturbedScrapesAreWhole
PROPERTIES GoneSeriesDisappear ReportingHostsAreShown
