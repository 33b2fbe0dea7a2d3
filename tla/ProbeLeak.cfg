SPECIFICATION Spec
CONSTANTS
    o1 = o1
    o2 = o2
    a = a
    b = b
    c = c
    d = d
    e = e
    x = x
    Orchs <- TwoOrchs
    Subtasks <- Five
    OrchOf <- FiveOrch
    AgentOf <- AllX
    Deps <- FiveDeps
    Agents <- OneAgent
    Nested = {o2}
    MaxActive = 2
    MaxPermits = 1
    Threshold = 2
INVARIANTS
    ProbeOnItsWay
