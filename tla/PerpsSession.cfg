SPECIFICATION FairSpec
CONSTANTS
    k1 = k1
    k2 = k2
    Calls = {k1, k2}
    Coids = {x}
    None = None
    EventCap = 1
    WireCap = 2
    Loads <- Mixed
CHECK_DEADLOCK FALSE
INVARIANTS
    CallsTracked
    GapsAnnounced
    NothingLeaks
PROPERTIES
    SessionEnds
