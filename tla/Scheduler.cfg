SPECIFICATION FairSpec
CONSTANTS
    c = c
    p = p
    w1 = w1
    w2 = w2
    user = user
    Tasks <- TwoTasks
    Occurs <- SomeMinutes
    Period <- OneMinute
    Reloads = {w1, w2}
    Callers = {user}
    Minute = 2
    Cron = {c}
    Given = {c}
    NoTask = NoTask
    End = 6
    MaxEdits = 1
    MaxStops = 2
INVARIANTS
    OccurrencesOnce
    AgreeWhenQuiet
PROPERTIES
    MissedAreCaughtUp
CHECK_DEADLOCK FALSE
