CONSTANTS
    i1 = i1
    i2 = i2
    All = all
    Handles = {h1, h2}
    Instruments = {i1}
    FilterChoices <- NoAll
    Lively = {i1}
    Lossy = {i1}
    QueueCap = 2
    InboxCap = 2
SYMMETRY HandleSymmetry
SPECIFICATION ScenarioSpec
INVARIANTS
    HandlesOwned
    GapsAnnounced
PROPERTIES
    ServesHandles
