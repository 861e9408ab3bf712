SPECIFICATION FairSpec
CONSTANTS
    Containers = {1, 2}
    Loads <- MCLoads
    LogCap = 2
    LogTail = 1
    LinesCap = 2
    MaxStreams = 2
    MaxCmds = 2
INVARIANTS KeysGoToTheScreen CursorOnContainer StreamsKeepOrder
PROPERTIES LinesAreHandled ShowAllTakesEffect
CHECK_DEADLOCK FALSE
