SPECIFICATION FairSpec
INVARIANTS
    TypeOK
PROPERTIES
    EveryCallReturns
    ReadaheadReleased
    DirtyWrittenBackWhenIdle
\* the worker ends when the device is closed
CHECK_DEADLOCK FALSE
CONSTANTS
    None = None
    BlockSize = 1
    TotalBlocks = 3
    ChunkBlocks = 1
    Word = 16
    Callers = {a}
    Reads <- EachBlock
    Writes <- FirstBlock
    SyncModes = {}
    QueueBound = 1
    CoalesceMax = 8
    SyncAtStart = FALSE
    RaMin = 1
    RaMax = 2
    MaxWrites = 1
    MayFail = TRUE
