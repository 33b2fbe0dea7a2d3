SPECIFICATION FairSpec
CONSTANTS
    r1 = r1
    r2 = r2
    r3 = r3
    a = a
    b = b
    c = c
    d = d
    x = x
    y = y
    z = z
    nobody = nobody
    Runs <- ThreeRuns
    Steps <- SevenSteps
    RunOf <- SevenRunOf
    Position <- SevenPosition
    Needs <- SevenNeeds
    Policy <- SevenPolicy
    MaxRetries <- OneRetry
    Parallel = {a, b}
    Conditional = {c}
    Looping = {d, y}
    MaxLoopSize = 2
    MaxFinished = 1
INVARIANTS
    WInv
    StatusIsTrue
    EndedIsOver
PROPERTIES
    DependenciesFirst
    AbortStopsRun
    OnlyOldResultsVanish
    RunsEnd
CHECK_DEADLOCK FALSE
