SPECIFICATION ClientSpec
CONSTANTS
    r1 = r1
    r2 = r2
    x1 = x1
    x2 = x2
    Requests <- FewRequests
    Closers <- FewClosers
    MaxQueueDepth = 2
    CanCrash = FALSE
PROPERTIES
    RequestsSettle
CHECK_DEADLOCK FALSE
