SPECIFICATION Spec
CONSTANTS
    r1 = r1
    a = a
    b = b
    c = c
    d = d
    Runs <- OneRun
    Tasks <- SideTasks
    RunOf <- SideRunOf
    Defined <- SideTasks
    DependsOn <- SideDeps
    MaxRetries <- SideRetry
    MaxConcurrent = 2
    MaxCrashes = 0
    MayPanic = FALSE
PROPERTIES
    CancelledRunStays
