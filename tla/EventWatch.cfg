SPECIFICATION Spec
CONSTANTS
    Monitored = {1, 2, 4}
    MaxEvents = 4
    EventCap = 2
INVARIANTS OneWatchAtATime ShownOnceInOrder PanicsOnlyAfterCancel
PROPERTY WatchReturns
CHECK_DEADLOCK FALSE
