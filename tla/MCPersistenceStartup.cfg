SPECIFICATION Spec
CONSTANTS
    None = None
    w1 = w1
    w2 = w2
    Workers = {w1, w2}
    Files = {1, 2}
    MaxStarts = 4
    MaxCrashes = 2
    MaxDamages = 1
    MaxFailures = 1
INVARIANTS
    NeverReplaced
    ServesAuthority
    QuarantineSound
PROPERTIES
    StartSettles
CHECK_DEADLOCK FALSE
