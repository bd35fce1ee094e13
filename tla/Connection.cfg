SPECIFICATION Spec
INVARIANTS
    ParametersAgree
    CommandsAccepted
    DataIntact
    QuietAckExact
PROPERTIES
    LoginEnds
\* all commands have ended, or the login has failed
CHECK_DEADLOCK FALSE
CONSTANTS
    None = None
    Reject = Reject
    Align = 2
    Cmd = {c1, c2}
    Ops = {"read", "write"}
    OurOffers <- OurConfigs
    TheirOffers <- TheirConfigs
    DefaultMaxRecv = 1
    DeclaresLimit = TRUE
    MayContinue = TRUE
    InitialStatSN = 3
    PaddingInDigest = TRUE
    PayloadLen = 4
    Lun = 0
