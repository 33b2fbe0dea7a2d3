SPECIFICATION FairSpec
CONSTANTS
    r1 = r1
    a = a
    b = b
    c = c
    d = d
    Runs <- OneRun
    Tasks <- ForkTasks
    RunOf <- ForkRunOf
    Defined <- ForkDefined
    DependsOn <- ForkDeps
    MaxRetries <- ForkRetry
    MaxConcurrent = 1
    MaxCrashes = 1
    MayPanic = TRUE
INVARIANTS
    IInv
    AttemptsBounded
    CompletedRunIsDone
PROPERTIES
    StartsAfterDependencies
    OutcomeIsFinal
    ImplementsPromise
    StartedRunEnds
