SPECIFICATION FairSpec
CONSTANTS
    i1 = i1
    i2 = i2
    i3 = i3
    k1 = k1
    k2 = k2
    p1 = p1
    None = None
    Runtimes <- ThreeRuntimes
    Clients <- TwoClients
    Starters <- OneStarter
    RuntimeOf <- Spawn
    Leftover <- Crashed
    Ports <- OnePort
    Windows = TRUE
    Faults = TRUE
INVARIANTS
    ServingDiscoverable
    NothingLeftBehind
    RightRuntime
PROPERTIES
    StopsAndEnds
CHECK_DEADLOCK FALSE
