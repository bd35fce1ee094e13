SPECIFICATION Spec
SYMMETRY CallerSymmetry
INVARIANTS
    DirtyBytesExact
    ClosedIsDurable
PROPERTIES
    FlushMakesDurable
    ImplementsDisk
\* the worker ends when the device is closed
CHECK_DEADLOCK FALSE
CONSTANTS
    None = None
    BlockSize = 1
    TotalBlocks = 2
    ChunkBlocks = 1
    Word = 16
    Callers = {a, b}
    Reads <- EachBlock
    Writes <- EachBlock
    SyncModes = {TRUE, FALSE}
    QueueBound = 2
    CoalesceMax = 2
    SyncAtStart = FALSE
    RaMin = 1
    RaMax = 0
    MaxWrites = 2
    MayFail = FALSE
