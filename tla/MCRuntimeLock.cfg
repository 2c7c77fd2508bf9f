SPECIFICATION MCSpec
CONSTANTS
    p1 = p1
    p2 = p2
    None = None
    Attempts <- MCAttempts
    Pid <- MCPid
INVARIANTS MutualExclusion SomeoneWins
PROPERTIES ImplementsLock AttemptSettles RecoversFromCrash
