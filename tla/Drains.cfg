SPECIFICATION LiveSpec
CONSTANTS
    Msgs = {m1, m2, m3}
    NoMsg = NoMsg
    Stops = {a1}
    Exits = 0
    MainChat = FALSE
    Failures = FALSE
    GateRace = FALSE
    Paths = {"core"}
\* An idle session may stay idle.
CHECK_DEADLOCK FALSE
INVARIANTS GateHonest AnswersAsked
PROPERTIES Drains
