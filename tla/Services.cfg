SPECIFICATION Spec
CONSTANTS
    RetryMax = 2
    LastCursor = 3
    MaxItems = 5
    MaxFetches = 6
    MaxRows = 4
    MaxMillis = 3
    MaxUpgrades = 2
    Trades = {"t1", "t2"}
    Amounts = {7, 1234, 1300, 20000}
    Bounds = {0, 400, 455, 500, 333}
    Budgets = {0, 30, 1000}
    SubmitRetryAttempts = 2
    PollMaxAttempts = 2
    MaxMoves = 2
    Conditions = {"c1", "c2"}
    Approvals = {"a1", "a2", "a3"}
    MaxBalance = 2
    MaxTrades = 1
    Callers = {"a", "b"}
    AckKeys = {"quote"}
    MaxCommands = 3
    EventBuffer = 1
    MaxEvents = 2
    Places = 2
    QuotedUnits = {0, 5, 50, 105, 1230}
    MaxAccepts = 2
    MaxLoops = 2
    MaxRotations = 4
    BufferSize = 1
    StaleTimeout = 2
    ReconnectMin = 2
    ReconnectMax = 7
    MaxSportsEvents = 3
    MaxFailures = 4
    BatchSize = 2
    CancelAttempts = 3
    CancelDeadlines = {1, 3}
    MaxClock = 4
    BuilderCallers = {1, 2}
    FeeRates = {0, 1, 2}
    MaxBuilderCalls = 3
CHECK_DEADLOCK FALSE
INVARIANTS
    
    ListingsWhole
    PostedOnce
    FillsAttributed
    LimitsKept
    BatchExecutedOnce
    RelayTruthful
    CallsAccounted
    PlanFitsBalances
    AckSettlesItsCommand
    SessionLosesNothing
    ComboOutcomeTruthful
    AmountsHonoured
    HeartbeatsKept
    SportsFaithful
    CancelsSettled
    
    BuilderTermsSafe
PROPERTIES
    HistoryComplete
