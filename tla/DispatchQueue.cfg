SPECIFICATION Spec
CONSTANTS
    SerialQueues = 2
    MaxThreads = 3
    MaxTasks = 3
    Clients = {c}
    None = None
INVARIANTS QueueAlive PoolKeepsUp
PROPERTIES KeepsPromise
CHECK_DEADLOCK FALSE
