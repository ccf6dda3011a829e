SPECIFICATION Spec
CONSTANTS
    Main = main
    Subs = {s1}
    Batch = {}
    Tags = {}
    Tasks = {t1}
    Reviews = {}
    Lookers = {"drain", "tick"}
    Ends = {"done"}
    Runs = 1
    Fires = 1
    Chats = 0
    Exits = 0
    Mortal = {}
    Crashes = 0
    Failures = FALSE
    Leaves = FALSE
    Races = TRUE
\* An idle main chat may stay idle.
CHECK_DEADLOCK FALSE
INVARIANTS SoundDrop
