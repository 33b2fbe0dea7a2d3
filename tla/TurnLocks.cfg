SPECIFICATION Spec
CONSTANTS
    t1 = t1
    t2 = t2
    p1 = p1
    Turns <- TwoTurns
    Tasks <- OneTask
    MaxRequests = 3
PROPERTIES
    OnlyConfigWritersHang
CHECK_DEADLOCK FALSE
