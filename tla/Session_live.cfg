SPECIFICATION FairSpec
PROPERTIES
    
    EverySlotFreed
\* every command may have ended and the target have nothing more to send
CHECK_DEADLOCK FALSE
CONSTANTS
    HalfRange = 8
    None = None
    Cmd = {c1, c2}
    Submitters = 2
    WordBits = 1
    Kinds = {"read", "writeR2t"}
    InitialCmdSN = 14
    Depth = 2
    DataIns = 1
    R2tPolls = 1
    EarlyStatus = FALSE
    MaxPings = 0
    MaxLogouts = 0
    ConnMayFail = TRUE
