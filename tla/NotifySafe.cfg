SPECIFICATION BoundedSpec
CONSTANTS
    r1 = r1
    a = a
    l1 = l1
    l2 = l2
    c1 = c1
    c2 = c2
    Runs <- OneRun
    Tasks <- OneTask
    RunOf <- TheRunOf
    Defined <- OneTask
    DependsOn <- NoDeps
    MaxRetries <- NoRetry
    MaxConcurrent = 1
    MaxCrashes = 1
    MayPanic = FALSE
    Loops = {l1, l2}
    Callers = {c1, c2}
INVARIANTS
    SysTypeOK
    NotifiedWasTold
    MessagesAgree
    DuplicatesBounded
    FlagTellsLoop
PROPERTIES
    EndedRunsAreNotified
