SPECIFICATION Spec
PROPERTIES
    ReadYourWrites
\* the worker ends when the device is closed
CHECK_DEADLOCK FALSE
CONSTANTS
    None = None
    BlockSize = 1
    TotalBlocks = 2
    ChunkBlocks = 2
    Word = 16
    Callers = {a}
    Reads <- EachBlock
    Writes <- FirstBlock
    SyncModes = {}
    QueueBound = 1
    CoalesceMax = 8
    SyncAtStart = FALSE
    RaMin = 1
    RaMax = 0
    MaxWrites = 1
    MayFail = FALSE
