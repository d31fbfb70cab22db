SPECIFICATION FairSpec
CONSTANTS
    Users = {u1}
    Monitor = Monitor
    Nobody = Nobody
    Upgrader = Upgrader
    MaxConn = 1
    Kinds = {"cleanup", "start", "stop", "restart", "restore", "restore_url"}
    Faults = {"disconnect", "outside"}
    Pre82 = FALSE
INVARIANTS
    GreenIsHealthy
PROPERTIES
    TruthIsFound
    EverybodyEnds
