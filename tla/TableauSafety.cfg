SPECIFICATION Spec
CONSTANTS
    Users = {u1, u2}
    Monitor = Monitor
    Nobody = Nobody
    Upgrader = Upgrader
    MaxConn = 1
    Kinds = {"backup", "cleanup", "start", "stop", "restart", "restore", "restore_url", "support_case"}
    Faults = {"crash", "disconnect", "outside", "bad_status"}
    Pre82 = FALSE
SYMMETRY Symmetry
INVARIANTS
    LocksKeepApart
    NoStateIsATrap
PROPERTIES
    LockOwnerControlsState
