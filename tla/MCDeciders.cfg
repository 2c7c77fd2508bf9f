SPECIFICATION DecidersSpec
CONSTANTS
    None = None
    NoText = NoText
    k1 = k1
    k2 = k2
    s1 = s1
    bad = bad
    Keys = {k1, k2}
    Scalars = {s1, bad}
    Unreadable = {bad}
    MaxLines = 9
    MaxDepth = 3
    MaxNodes = 7
    Documents <- DocumentSet
    Sources <- SourceSet
    Inputs <- InputSet
    SnapshotIds = {1}
    Replacements <- ReplacementSet
    Height <- ConditionHeight
    ConditionDepth = 2
    MaxConditions = 2
    FlowChanges = 3
    StartChanges = 2
    MaxOpen = 2
    Operations <- AllOperations
    Paths <- AllPaths
    ExecutionOperation <- RecordOperation
    EvidenceOperation <- EvidenceOwner
    GateIssue <- IssueOfGate
    AmendmentPaths <- Amendable
    ForbiddenPaths <- Forbidden
    PhaseRoot <- Phase1
    Pinned <- Pins
    ScopePath <- ScopeFile
    Manifest <- OperationManifest
    StartPath <- StartFile
    Patches <- Proposals
    Histories <- HistorySet
INVARIANTS
    FailClosed
    OrderIrrelevant
    RequirementsStrict
    YamlFaithful
    AcceptedAuthorized
    StartsReleased
CHECK_DEADLOCK FALSE
