CONSTANTS
    a = a
    b = b
    m = m
    User = {u1}
    Reconnector = rc
    Id = {a, b, m}
    Registration <- Registrations
    MaxSubs = 3
    MaxFaults = 2
SPECIFICATION Spec
INVARIANTS
    CountsMatch
    
