CONSTANTS
    i1 = i1
    i2 = i2
    All = all
    Handles = {h1, h2}
    Instruments = {i1, i2}
    FilterChoices <- WithAll
    Lively = {all}
    Lossy = {all}
    QueueCap = 2
    InboxCap = 2
SPECIFICATION Spec
INVARIANT GapsAnnounced
