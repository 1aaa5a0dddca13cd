CONSTANTS
    User = {u1, u2}
    Reconnector = rc
    Conn = {c1, c2, c3}
    NoConn = NoConn
    EventCap = 1
    MaxFaults = 1
SPECIFICATION Spec
SYMMETRY ConnSymmetry
INVARIANTS
    ConnectionsOwned
PROPERTIES
    ImplementsLink
