SPECIFICATION MCSpec
CONSTANTS
    s1 = s1
    s2 = s2
    A = A
    B = B
    c1 = c1
    c2 = c2
    k1 = k1
    k2 = k2
    p1 = p1
    p2 = p2
    None = None
    MaxCalls = 2
    MaxCrashes = 1
    Workers <- MCWorkers
    Commands <- MCCommands
    Batches <- MCBatches
    Ids <- MCIds
    InboxRecords = {}
    Checkpoints = {}
INVARIANTS AnswersAgree NeverReplayInvalid
PROPERTIES
    ImplementsLedger
    ExecuteSettles

CHECK_DEADLOCK FALSE
