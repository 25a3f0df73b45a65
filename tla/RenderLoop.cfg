SPECIFICATION Spec
CONSTANTS
    TSMod = 32
    Latency = 1
    Units = 3
    ReadUnits = 3
    StartTime = 29
    Late = 4
    Early = 2
    Sizes = {0, 3}
    QueueLimit = 2
    MaxReads = 3
INVARIANTS
    OnTime
    NoNeedlessSilence
PROPERTIES
    LoopIsOneStep
    ReadsEnd
CHECK_DEADLOCK FALSE
