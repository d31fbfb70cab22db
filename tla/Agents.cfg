SPECIFICATION Spec
CONSTANTS
    Machines = {m1, m2}
    Installations = {{m1}, {m1, m2}}
    PortMachines = {m1}
    MaxConns = 3
    MaxChanges = 2
INVARIANTS
    OneConnectionPerMachine
PROPERTIES
    OldConnectionsDoNotHideNew
    LossIsFound
    TypesConverge
CHECK_DEADLOCK FALSE
