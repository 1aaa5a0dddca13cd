CONSTANTS
    Caller = {p, q}
    NoCaller = NoCaller
    Token = {a, b}
    None = None
    MaxVersion = 1
    MaxDisturbances = 2
SPECIFICATION Spec
SYMMETRY CacheSymmetry
INVARIANTS
    LoadsShared
    
PROPERTIES
    TickStoredFresh
