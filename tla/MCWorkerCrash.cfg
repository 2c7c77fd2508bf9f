SPECIFICATION ClientSpec
CONSTANTS
    r1 = r1
    r2 = r2
    x1 = x1
    x2 = x2
    Requests = {r1}
    Closers = {}
    MaxQueueDepth = 2
    CanCrash = TRUE
PROPERTIES
    RequestsSettle
CHECK_DEADLOCK FALSE
