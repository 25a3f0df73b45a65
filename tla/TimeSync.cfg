SPECIFICATION Spec
CONSTANTS
    Slots = 3
    Enough = 2
    TooMany = 2
    SendTries = 2
    Limit = 5
    Unset = 1000
    Paths <- SomePaths
    Servers = {10, 30}
    MaxCopies = 2
    Window = 1
INVARIANTS
    BestCounts
PROPERTIES
    NegotiationEnds
    ClockFollows
CHECK_DEADLOCK FALSE
