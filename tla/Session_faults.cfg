SPECIFICATION Spec
SYMMETRY CmdSymmetry
INVARIANTS
    TypeOK
    SlotHeld
    OwnResponse
    ReadDataExact
PROPERTIES
    ImplementsService
\* every command may have ended and the target have nothing more to send
CHECK_DEADLOCK FALSE
CONSTANTS
    HalfRange = 8
    None = None
    Cmd = {c1, c2}
    Submitters = 2
    WordBits = 1
    Kinds = {"read", "writeImm", "writeR2t"}
    InitialCmdSN = 14
    Depth = 1
    DataIns = 2
    R2tPolls = 0
    EarlyStatus = TRUE
    MaxPings = 0
    MaxLogouts = 0
    ConnMayFail = TRUE
