CONSTANTS
    i1 = i1
    i2 = i2
    All = all
    Handles = {h1}
    Instruments = {i1}
    FilterChoices <- WithAll
    Lively = {i1}
    Lossy = {i1}
    QueueCap = 1
    InboxCap = 2
SPECIFICATION FairSpec
CHECK_DEADLOCK FALSE
PROPERTIES
    EveryCallReturns
