SPECIFICATION SteadySpec
CONSTANTS
    Msgs = {m1, m2}
    NoMsg = NoMsg
    Stops = {a1}
    Exits = 0
    MainChat = TRUE
    Failures = TRUE
    GateRace = TRUE
    Paths = {"core", "socket", "--jump", "image", "wake"}
\* An idle session may stay idle.
CHECK_DEADLOCK FALSE
SYMMETRY Symmetric
INVARIANTS TypeOK OneRun
PROPERTIES NoResend
