SPECIFICATION ClientSpec
CONSTANTS
    r1 = r1
    r2 = r2
    x1 = x1
    x2 = x2
    Requests <- MCRequests
    Closers <- MCClosers
    MaxQueueDepth = 2
    CanCrash = TRUE
INVARIANTS
    CallsDefinite
PROPERTIES
    OpenRequestsSettle
CHECK_DEADLOCK FALSE
