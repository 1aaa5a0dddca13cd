SPECIFICATION ScenarioSpec
CONSTANTS
    k1 = k1
    k2 = k2
    u1 = u1
    u2 = u2
    Subs = {u1, u2}
    Keys = {k1, k2}
    Sessions = {s1, s2}
    None = None
    Requests <- EachOrBoth
    Target = 2
    BufferSize = 2
SYMMETRY Symmetry
CHECK_DEADLOCK FALSE
INVARIANTS
    SubscriptionsPlaced
    ServedAsReported
