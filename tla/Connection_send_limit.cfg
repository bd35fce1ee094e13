SPECIFICATION Spec
INVARIANT SendLimitRespected
CHECK_DEADLOCK FALSE
CONSTANTS
    None = None
    Reject = Reject
    Align = 2
    Cmd = {c1, c2}
    Ops = {"read", "write"}
    OurOffers <- OurConfigs
    TheirOffers <- SmallSegment
    DefaultMaxRecv = 1
    DeclaresLimit = TRUE
    MayContinue = FALSE
    InitialStatSN = 0
    PaddingInDigest = FALSE
    PayloadLen = 3
    Lun = 0
