SPECIFICATION Spec
CONSTANTS
    Sockets = {r}
    Timers = {t}
    MaxCalls = 3
INVARIANTS NoUseAfterFree SocketOpenInHandler
PROPERTIES Served ReleasedIsFreed
CHECK_DEADLOCK FALSE
