SPECIFICATION PruneSpec
CONSTANTS
    Producers = {"pruner"}
    Closers = {"main"}
    QueueCap = 1
    MaxSaves = 3
    MinGap = 2
    MaxTime = 6
    Never = Never
INVARIANT ExitLosesNothing
PROPERTIES PrunesAreSpaced QuitTerminates
