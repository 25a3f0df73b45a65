SPECIFICATION CnxSpec
CONSTANTS
    Requests = 3
    WithBody = {1, 2}
    Verify = 1
    ReadMax = 3
    WriteMax = 1
    SendBuffer = 2
INVARIANTS HandledWhole AnsweredInOrder AliveWhileUsed
PROPERTIES Answered ClosedIsFreed
CHECK_DEADLOCK FALSE
