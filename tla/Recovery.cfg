SPECIFICATION Spec
INVARIANTS
    DetectionBounded
    RepliesReal
    QueueAccountsForAll
PROPERTIES
    SuspicionEarned
SYMMETRY PendingSymmetry
CONSTANTS
    Interval = 4
    Timeout = 3
    Stalls = FALSE
    Horizon = 12
    Pending = {p1, p2}
    Replacement = 2
