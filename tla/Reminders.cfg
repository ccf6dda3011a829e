SPECIFICATION NoteSpec
CONSTANTS
    Main = main
    Subs = {}
    Batch = {}
    Tags = {}
    Tasks = {t1, t2}
    Reviews = {t2}
    Lookers = {"drain", "tick"}
    Ends = {"asked", "failed"}
    Runs = 0
    Fires = 1
    Chats = 2
    Exits = 0
    Mortal = {}
    Crashes = 1
    Failures = FALSE
    Leaves = TRUE
    Races = TRUE
\* An idle main chat may stay idle.
CHECK_DEADLOCK FALSE
INVARIANTS PendingHeld
PROPERTIES FireAskedAgain
