SPECIFICATION Spec
CONSTANTS
    Commands = {c1, c2}
    Notices = {n}
INVARIANTS
    CompletedInOrder
    PendingIsUnanswered
    RefsBalanced
PROPERTIES
    WaitsEnd
    CancelledCompletes
CHECK_DEADLOCK FALSE
