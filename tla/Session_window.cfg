SPECIFICATION Spec
SYMMETRY CmdSymmetry
INVARIANTS
    OwnPayload
    CmdSNAccounted
    WindowOverrunBounded
\* every command may have ended and the target have nothing more to send
CHECK_DEADLOCK FALSE
CONSTANTS
    HalfRange = 8
    None = None
    Cmd = {c1, c2, c3}
    Submitters = 2
    WordBits = 1
    Kinds = {"writeR2t"}
    InitialCmdSN = 14
    Depth = 1
    DataIns = 1
    R2tPolls = 1
    EarlyStatus = FALSE
    MaxPings = 1
    MaxLogouts = 1
    ConnMayFail = FALSE
