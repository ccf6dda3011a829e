SPECIFICATION Spec
CONSTANTS
    Main = main
    Subs = {s1}
    Batch = {}
    Tags = {}
    Tasks = {t1}
    Reviews = {}
    Lookers = {"drain", "task"}
    Ends = {"asked", "failed"}
    Runs = 2
    Fires = 1
    Chats = 0
    Exits = 0
    Mortal = {}
    Crashes = 0
    Failures = TRUE
    Leaves = TRUE
    Races = TRUE
\* An idle main chat may stay idle.
CHECK_DEADLOCK FALSE
INVARIANTS OneWake HeldOnce Truthful
PROPERTIES NeverReread 
