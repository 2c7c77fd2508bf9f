SPECIFICATION Spec
CONSTANTS
    w1 = w1
    w2 = w2
    A = A
    B = B
    c1 = c1
    c2 = c2
    c3 = c3
    c4 = c4
    k1 = k1
    k2 = k2
    k3 = k3
    k4 = k4
    h1 = h1
    h2 = h2
    h3 = h3
    h4 = h4
    h5 = h5
    e1 = e1
    e2 = e2
    e3 = e3
    e4 = e4
    e5 = e5
    e6 = e6
    t1 = t1
    t2 = t2
    a1 = a1
    a2 = a2
    a3 = a3
    x1 = x1
    x2 = x2
    None = None
    Workers <- MCWorkers
    Ids <- MCIds
    Batches <- MCBatches
    InboxRecords <- MCInbox
    Checkpoints <- MCCheckpoints
INVARIANTS
    StreamsDense
    CommitAtomic
    AcksSound
    SingleEffect
    LockAccounted
