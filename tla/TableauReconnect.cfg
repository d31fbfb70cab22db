SPECIFICATION Spec
CONSTANTS
    Users = {u1, u2}
    Monitor = Monitor
    Nobody = Nobody
    Upgrader = Upgrader
    MaxConn = 2
    Kinds = {"stop"}
    Faults = {"disconnect"}
    Pre82 = FALSE
SYMMETRY Symmetry
PROPERTIES
    ImplementsLock
    OffersAreRight
