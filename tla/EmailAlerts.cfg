SPECIFICATION Spec
CONSTANTS
    Threads = {t1, t2}
    MaxCount = 1
    Lookback = 1
    Mute = 2
    MaxTime = 6
    MaxEvents = 3
INVARIANTS
    LimitHolds
    OffIsAnnounced
PROPERTIES
    DisconnectMailIsTrue
    MutedReturnWasNotTold
CHECK_DEADLOCK FALSE
