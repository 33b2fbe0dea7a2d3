SPECIFICATION Spec
CONSTANTS
    q1 = q1
    q2 = q2
    q3 = q3
    q4 = q4
    q5 = q5
    q6 = q6
    far = far
    near = near
    mid = mid
    k1 = k1
    k2 = k2
    k3 = k3
    k4 = k4
    bg = bg
    bc = bc
    bu = bu
    bv = bv
    bi = bi
    bj = bj
    Requests <- SixRequests
    Buckets <- SixBuckets
    Ip <- SixIp
    Key <- SixKey
    BucketOf <- SixBucket
    Capacity <- OneOrTwo
    Rate <- OneOrTwo
    Scenes <- SixScenes
    Ips = {far, near, mid}
    Exempt = {near}
    Keys = {k1, k2, k3, k4}
    Ids = {k1, k2, k3}
    GlobalBucket = bg
    MaxAttempts = 2
    Window = 2
    Lockout = 2
    MaxRecords = 1
    EventTtl = 2
    ContentWindow = 1
    MaxCache = 2
    TokenCost = 2
    StaleAfter = 2
INVARIANTS
    WebhookInv
    GuessesBounded
    EventsOnce
    RateBounded
CHECK_DEADLOCK FALSE
