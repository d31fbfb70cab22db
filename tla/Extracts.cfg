SPECIFICATION Spec
CONSTANTS
    Watches = {"duration"}
    Backlog = 2
    MaxJobs = 3
    MaxClock = 5
    MaxAge = 2
    MaxEvents = 1
INVARIANTS
    NothingIsRepeated
PROPERTIES
    NoWarningAfterError
    FinishedIsReported
    OverrunIsReported
