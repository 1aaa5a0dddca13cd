CONSTANTS
    User = {u1}
    Reconnector = rc
    Conn = {c1, c2}
    NoConn = NoConn
    EventCap = 1
    MaxFaults = 2
SPECIFICATION Spec
INVARIANT ReconnectPending
