SPECIFICATION Spec
INVARIANTS
    ReadSurvivesUnitAttention
PROPERTIES
    ImplementsBlocks
    CapacityNeverOverstated
    SentCallsReturn
\* every call has been answered
CHECK_DEADLOCK FALSE
CONSTANTS
    None = None
    Calls = {a, b}
    Requests <- ThreeBlocks
    BlockSize = 2
    DeviceBlocks = 5
    MaxBurst = 5
    Max32 = 3
    Max16 = 1
    Sense <- FixedSense
    ShortReads = FALSE
