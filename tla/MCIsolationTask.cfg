SPECIFICATION Spec
CONSTANTS
    MaxLive = 2
    MaxIncidents = 3
    None = None
INVARIANTS EvidenceTrue BudgetKept
PROPERTIES TaskEnds
CHECK_DEADLOCK FALSE
