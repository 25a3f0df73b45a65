SPECIFICATION SpecAudio
CONSTANTS
    SeqMod = 16
    TSMod = 64
    DupWindow = 4
    NodeCount = 2
    RTCount = 2
    MaxLoss = 2
    Credits = 1
    FlushWindow = 5
    Latency = 0
    Units = 2
    ReadUnits = 3
    Delay = 2
    FirstRead = 1
    MaxSent = 7
    MaxReads = 3
    ShortSent = 3
    LongReads = 1
INVARIANTS
    TypeOK NodesConserved RequestsConserved FlushedNotQueued
CHECK_DEADLOCK FALSE
