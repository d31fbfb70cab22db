\* The monitor may be left held for ever after a stray "upgrade off".
SPECIFICATION FairSpec
CONSTANTS
    Threads = {t1, t2, t3, t4}
    NoThread = NoThread
    StrayOff = TRUE
INVARIANTS
    Inv
PROPERTIES
    ImplementsAbstract
    WritersNotStarved
CHECK_DEADLOCK FALSE
