SPECIFICATION Spec
CONSTANTS
    Primary = p
    Gateways = {p}
    DegradedMin = 2
INVARIANTS
    DelayHolds
    MaintIsKnown
PROPERTIES
    NoHastyDegraded
    UsersAreTold
