SPECIFICATION BufferSpec
CONSTANTS
    Modulus = 64
    Nodes = 6
    D = 2
    L = 3
    BufferTS = 3
    Desired = 4
    First = 2
    MaxPackets = 6
    Late = 2
INVARIANTS NodesConserved InOrder HeardOnce RoomForNext
CHECK_DEADLOCK FALSE
