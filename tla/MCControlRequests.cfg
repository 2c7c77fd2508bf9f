SPECIFICATION MCSpec
CONSTANTS
    r1 = r1
    r2 = r2
    r3 = r3
    r4 = r4
    k1 = k1
    k2 = k2
    k3 = k3
    home = home
    away = away
    Requests <- ThreeRequests
    Queries <- AnyQuery
    Keys <- TwoKeys
    Remotes <- TwoRemotes
    MaxConcurrentRequests = 1
    IdempotencyCapacity = 1
    IdempotencyTtl = 1
    AuthFailureCapacity = 1
    AuthFailureWindow = 1
    SseConnectionCapacity = 1
    RemoteCapacity = 1
    MaxTime = 1
INVARIANTS RequestsAccounted StopAfterAnswer ReplayStable
PROPERTIES SlotsReturn AcceptedStopHappens
CHECK_DEADLOCK FALSE
