SPECIFICATION LiveSpec
CONSTANTS
    t1 = t1
    i1 = i1
    i2 = i2
    i3 = i3
    d1 = d1
    d2 = d2
    m1 = m1
    m2 = m2
    s1 = s1
    Todos = {t1}
    Items = {i1, i2}
    Drafts = {d1, d2}
    Messages = {m1, m2}
    Sends = {s1}
    Clicks = 2
    Twists = 1
    Reads = 1
    NoList = NoList
\* Clicks and twists are bounded: the page falls quiet at the end.
CHECK_DEADLOCK FALSE
INVARIANTS TypeOK Agrees
PROPERTIES NoBlink Promised Settles
