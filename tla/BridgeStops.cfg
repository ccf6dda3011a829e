SPECIFICATION Spec
CONSTANTS
    Msgs = {m1, m2, m3}
    NoMsg = NoMsg
    Slash = {m3}
    Aborts = 1
    Raises = TRUE
    EarlyNext = TRUE
\* An idle session may stay idle.
CHECK_DEADLOCK FALSE
SYMMETRY Symmetric
INVARIANTS TypeOK LateDone Armed CleanSlate OwnRun
