SPECIFICATION LiveSpec
CONSTANTS
    Main = main
    Subs = {s1, s2}
    Batch = {s1, s2}
    Tags = {}
    Tasks = {}
    Reviews = {}
    Lookers = {"drain", "tick"}
    Ends = {"done", "asked", "failed", "stopped"}
    Runs = 1
    Fires = 0
    Chats = 1
    Exits = 1
    Mortal = {s1}
    Crashes = 1
    Failures = FALSE
    Leaves = FALSE
    Races = FALSE
\* An idle main chat may stay idle.
CHECK_DEADLOCK FALSE
INVARIANTS TypeOK QuestionKept ToldOnce
PROPERTIES Together ReportsLeave
