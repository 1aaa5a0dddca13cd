SPECIFICATION FairSpec
CONSTANTS
    k1 = k1
    k2 = k2
    u1 = u1
    u2 = u2
    Subs = {u1, u2}
    Keys = {k1, k2}
    Sessions = {s1}
    None = None
    Requests <- OneEach
    Target = 2
    BufferSize = 1
CHECK_DEADLOCK FALSE
PROPERTIES
    EverythingEnds
