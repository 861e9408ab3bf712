SPECIFICATION FairStoreSpec
CONSTANTS
    Producers = {p1, p2}
    Closers = {main, other}
    QueueCap = 2
    MaxSaves = 2
INVARIANTS QueueKeepsOrder TableKeepsOrder CloseFlushes NoInsertAfterClose
PROPERTY CloseTerminates
CHECK_DEADLOCK FALSE
