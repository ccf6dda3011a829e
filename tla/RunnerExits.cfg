SPECIFICATION LiveSpec
CONSTANTS
    Msgs = {m1, m2}
    NoMsg = NoMsg
    Stops = {}
    Exits = 1
    MainChat = TRUE
    Failures = TRUE
    GateRace = FALSE
    Paths = {"core", "--jump"}
\* An idle session may stay idle.
CHECK_DEADLOCK FALSE
INVARIANTS StoredOnce NothingLost
PROPERTIES GateCloses
