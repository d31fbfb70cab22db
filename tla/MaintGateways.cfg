SPECIFICATION Spec
CONSTANTS
    Primary = p
    Gateways = {p, w}
    DegradedMin = 2
INVARIANT MaintIsKnown
