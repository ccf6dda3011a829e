SPECIFICATION LiveSpec
CONSTANTS
    Msgs = {m1, m2}
    NoMsg = NoMsg
    Slash = {}
    Aborts = 2
    Raises = TRUE
    EarlyNext = FALSE
\* An idle session may stay idle.
CHECK_DEADLOCK FALSE
INVARIANTS OneComplete
PROPERTIES RunsEnd WaitingEnds
