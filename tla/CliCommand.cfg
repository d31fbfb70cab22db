SPECIFICATION Spec
CONSTANTS
    Workers = {w1, w2}
    Pinger = p
    None = none
    MaxXid = 1
    MaxConn = 2
INVARIANTS
    AnswersAreOwn
    LeavesNothing
PROPERTIES
    NothingIsReadBehind
    ImplementsCommand
    CommandsEnd
    DeadAgentIsRemoved
CHECK_DEADLOCK FALSE
