SPECIFICATION Spec
INVARIANTS
    NoWriteLost
PROPERTIES
    ReadYourWrites
    SyncWriteDurable
    ReadComplete
\* the worker ends when the device is closed
CHECK_DEADLOCK FALSE
CONSTANTS
    None = None
    BlockSize = 2
    TotalBlocks = 2
    ChunkBlocks = 2
    Word = 16
    Callers = {a}
    Reads <- MixedReads
    Writes <- MixedWrites
    SyncModes = {TRUE}
    QueueBound = 1
    CoalesceMax = 8
    SyncAtStart = TRUE
    RaMin = 1
    RaMax = 0
    MaxWrites = 2
    MayFail = TRUE
