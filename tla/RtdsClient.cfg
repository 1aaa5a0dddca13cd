SPECIFICATION FairSpec
CONSTANTS
    User = {u1}
    Reconnector = Reconnector
    Conn = {c1, c2, c3}
    NoConn = NoConn
    NoProc = NoProc
    Registration <- MCRegistration
    KeyOf <- MCKeyOf
    AuthOf <- MCAuthOf
    MaxSubs = 1
    MaxFaults = 2
INVARIANTS
    LifeCycleSafe
    InSync
PROPERTIES
    RecoversAndCloses
