SPECIFICATION Spec
CONSTANTS
    h1 = h1
    m1 = m1
    m2 = m2
    m3 = m3
    Msgs = {h1, m1, m2, m3}
    Own = {m1}
    History = {h1}
    NoMsg = NoMsg
    Steps = 1
    Backlog = 1
    Wire = 2
    Races = {}
    Cut = {"stop", "jump", "delete", "tell", "exit", "reload", "fail"}
    Most = 1
\* Messages, steps and cuts are bounded: the page falls quiet at the end.
CHECK_DEADLOCK FALSE
SYMMETRY Symmetric
INVARIANTS TypeOK Converges ShowsRun Readable
