SPECIFICATION SteadySpec
CONSTANTS
    Msgs = {m1, m2, m3, m4}
    NoMsg = NoMsg
    Stops = {}
    Exits = 0
    MainChat = FALSE
    Failures = TRUE
    GateRace = TRUE
    Paths = {"core"}
\* An idle session may stay idle.
CHECK_DEADLOCK FALSE
SYMMETRY Symmetric
INVARIANTS QueueOrder
PROPERTIES KeepsPromise
