SPECIFICATION BufferSpec
CONSTANTS
    Modulus = 32
    Nodes = 6
    D = 2
    L = 3
    BufferTS = 3
    Desired = 4
    First = 28
    MaxPackets = 5
    Late = 2
INVARIANTS TossedWasLate
CHECK_DEADLOCK FALSE
