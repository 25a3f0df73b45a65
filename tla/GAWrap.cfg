SPECIFICATION SpecUnflushed
CONSTANTS
    SeqMod = 8
    TSMod = 8
    DupWindow = 4
    NodeCount = 2
    RTCount = 2
    MaxLoss = 2
    Credits = 1
    FlushWindow = 8
    Latency = 0
    Units = 1
    ReadUnits = 1
    Delay = 3
    FirstRead = 1
    MaxSent = 10
    MaxReads = 1
INVARIANTS
    DuplicateCaught
    NoRequestForQueued
    BusyOrdered
CHECK_DEADLOCK FALSE
