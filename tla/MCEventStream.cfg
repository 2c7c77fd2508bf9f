SPECIFICATION FairSpec
CONSTANTS
    c1 = c1
    c2 = c2
    Clients <- TwoClients
    SseConnectionCapacity = 2
    SseRetentionCapacity = 3
    SseMaxBuffered = 1
    SocketFrames = 1
    MaxPublished = 4
    MaxDrops = 1
INVARIANTS
    InOrderNoLoss
PROPERTIES
    CatchesUp
CHECK_DEADLOCK FALSE
