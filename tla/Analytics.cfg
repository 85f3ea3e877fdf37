\* The decision loop of the analytics engine.
CONSTANTS
    KnownTokens = {"SOL"}
    BaseThreshold = 70
    Day = 5
    Hour = 4
    Low = 1
    Steady = 3
    Trend = 1
    RetestFrom = 4
    RetestTo = 2
    PullbackFrom = 5
    PullbackTo = 3
    Symbols = {"SOL", "NEW", "OLD"}
    Scopes <- MCScopes
    MaxRead = 3
    Garbled <- NoUpdate
    NoData <- NoField
    Nameless <- NoSymbol
SPECIFICATION Spec
CHECK_DEADLOCK FALSE
INVARIANTS TypeOK UpdatesDecided AlertsEarned RegimeMeaning
