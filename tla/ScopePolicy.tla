---------------------------- MODULE ScopePolicy ----------------------------
(* The rules of scripts/toolchain/scope-policy.mjs, by which a change of    *)
(* the repository is judged.  A rule of the source returns the list of its  *)
(* violations or throws; only whether there is one decides the check, so a  *)
(* rule is a predicate here.                                                *)
(*                                                                          *)
(* A path is a name; the globs that match it are sets of paths.  A file's   *)
(* content is a record, the record for `Missing' where there is no file;    *)
(* a SHA-256 of a content is the content, collisions being left out.  A     *)
(* list of strings that must be sorted and free of duplicates is a set, and *)
(* its document says in `canonical' whether it was written that way.  A     *)
(* field that may be absent is a set of at most one value.  The fields of a *)
(* document that must have one constant value are its `wellFormed'.         *)
EXTENDS Naturals

CONSTANTS
    Operations,          \* P1-O01 to P1-O09
    Paths,               \* the safe repository paths: isSafeRepositoryPath
    ExecutionOperation,  \* execution record path -> operation of its name
    EvidenceOperation,   \* evidence path -> operation of its directory
    GateIssue,           \* authorization gate path -> issue of its name
    AmendmentPaths,      \* paths the amendment patterns match
    ForbiddenPaths,      \* paths no amendment may list
    PhaseRoot,           \* paths under operations/phase-1/
    Pinned               \* operation -> what its start gate is pinned to

LockPath == "authority-lock.json"
Missing == [missing |-> TRUE]
O01 == "P1-O01"

IsSingle(set) == \E x \in set : set = {x}

operationIdFromExecutionPath(path) ==
    IF path \in DOMAIN ExecutionOperation THEN ExecutionOperation[path] ELSE "none"

operationIdFromEvidencePath(path) ==
    IF path \in DOMAIN EvidenceOperation THEN EvidenceOperation[path] ELSE "none"

\* Defined exactly once in the manifest and in the write scope.
resolveOperationDefinition(operation, manifest, scope) ==
    /\ operation \in Operations
    /\ operation \in DOMAIN manifest
    /\ operation \in DOMAIN scope.operations
    /\ manifest[operation] = operation

validateExecutionRecord(path, execution, manifest, scope) ==
    LET operation == operationIdFromExecutionPath(path) IN
    /\ operation # "none"
    /\ execution.operationId = operation
    /\ execution.writeScopeOperationId = operation
    /\ execution.baseCommit # 0
    /\ execution.implementationBranch # "none"
    /\ resolveOperationDefinition(operation, manifest, scope)

----------------------------------------------------------------------------
(* Governance amendments: an execution of P1-O01 that changes locked paths  *)
(* under an authorization gate that an earlier change put on main.          *)

IsAmendment(execution) == execution.executionType = "AMENDMENT"

validateGovernanceAmendmentExecution(execution) ==
    /\ execution.operationId = O01
    /\ execution.writeScopeOperationId = O01
    /\ execution.trackingIssue > 0
    /\ execution.gateRef \in DOMAIN GateIssue
    /\ GateIssue[execution.gateRef] = execution.trackingIssue

\* The gates of `candidates' (a function from paths) for this issue.
GatesFor(candidates, issue) ==
    {path \in DOMAIN candidates :
        /\ candidates[path].evidenceType = "AUTHORIZATION"
        /\ candidates[path].trackingIssue = issue}

selectGovernanceAmendmentAuthorizationGate(candidates, execution) ==
    GatesFor(candidates, execution.trackingIssue) = {execution.gateRef}

validateCanonicalAmendmentPaths(paths) ==
    /\ paths # {}
    /\ paths \subseteq Paths
    /\ paths \cap ForbiddenPaths = {}
    /\ paths \subseteq AmendmentPaths

validateAuthorityOwnershipDeltas(deltas) ==
    /\ \A d, e \in deltas : d.path = e.path => d = e
    /\ \A d \in deltas :
        /\ d.path \in Paths \ {LockPath}
        /\ d.before \subseteq Operations
        /\ d.after \subseteq Operations
        /\ d.before # d.after

validateGovernanceAmendmentAuthorizationGate(gate, execution, base, baseParent) ==
    /\ gate.wellFormed
    /\ gate.canonical
    /\ gate.trackingIssue = execution.trackingIssue
    /\ gate.authorizationBase = baseParent
    /\ gate.implementationBranch = execution.implementationBranch
    /\ execution.baseCommit = base
    /\ validateCanonicalAmendmentPaths(gate.allowedChangedPaths)
    /\ \A exact \in gate.exactAmendmentPaths :
        /\ validateCanonicalAmendmentPaths(exact)
        /\ exact \subseteq gate.allowedChangedPaths
    /\ \A deltas \in gate.authorityOwnershipDeltas :
        /\ validateAuthorityOwnershipDeltas(deltas)
        /\ \E exact \in gate.exactAmendmentPaths : LockPath \in exact

validateGovernanceAmendmentChangedPaths(changed, gate) ==
    /\ changed \subseteq Paths
    /\ changed \subseteq gate.allowedChangedPaths
    /\ \A exact \in gate.exactAmendmentPaths : changed = exact

----------------------------------------------------------------------------
(* The authority lock: for each locked path its hash, its policy, its role  *)
(* and the operations that own it.                                          *)

collectAuthorityEntries(lock) ==
    /\ lock.canonical
    /\ DOMAIN lock.entries \subseteq Paths
    /\ \A path \in DOMAIN lock.entries : lock.entries[path].owners \subseteq Operations

\* What neither kind of change may do to a lock.
SameShape(baseLock, headLock) ==
    /\ baseLock.top = headLock.top
    /\ collectAuthorityEntries(baseLock)
    /\ collectAuthorityEntries(headLock)
    /\ DOMAIN baseLock.entries = DOMAIN headLock.entries

SameFixedFields(b, h) == b.mutationPolicy = h.mutationPolicy /\ b.role = h.role

\* The delta that accounts for a change of owners.
Accounts(delta, path, b, h) ==
    /\ delta.path = path
    /\ b.mutationPolicy = "OPERATION_SCOPED"
    /\ delta.before = b.owners
    /\ delta.after = h.owners

\* authorityOwnershipDeltas defaults to no delta.
DeltasOf(gate) == UNION gate.authorityOwnershipDeltas

validateAuthorityLockTransition(baseLock, headLock, allowed, deltas) ==
    LET base == baseLock.entries
        head == headLock.entries
    IN  /\ SameShape(baseLock, headLock)
        /\ \A path \in DOMAIN base :
            /\ SameFixedFields(base[path], head[path])
            /\ base[path].owners # head[path].owners =>
                \E d \in deltas : Accounts(d, path, base[path], head[path])
            /\ path \notin allowed => base[path].sha256 = head[path].sha256
        /\ \A d \in deltas :
            /\ d.path \in DOMAIN base
            /\ base[d.path].owners # head[d.path].owners
            /\ Accounts(d, d.path, base[d.path], head[d.path])

Owns(entry, operation) ==
    entry.mutationPolicy = "OPERATION_SCOPED" /\ operation \in entry.owners

validateOperationAuthorityLockTransition(baseLock, headLock, operation, changed, tree) ==
    LET base == baseLock.entries
        head == headLock.entries
        refreshed == {path \in DOMAIN base : base[path].sha256 # head[path].sha256}
    IN  /\ SameShape(baseLock, headLock)
        /\ LockPath \notin DOMAIN head
        /\ \A path \in DOMAIN base :
            /\ SameFixedFields(base[path], head[path])
            /\ base[path].owners = head[path].owners
        /\ \A path \in refreshed :
            /\ LockPath \in changed
            /\ path \in changed
            /\ Owns(base[path], operation)
        /\ \A path \in changed \cap DOMAIN base :
            /\ Owns(base[path], operation)
            /\ LockPath \in changed
            /\ tree[path] # Missing
            /\ head[path].sha256 = tree[path]
            /\ tree[path] # base[path].sha256 => path \in refreshed
        /\ LockPath \in changed => refreshed # {}

validateAuthorityLockHashes(lock, tree) ==
    /\ LockPath \notin DOMAIN lock.entries
    /\ \A path \in DOMAIN lock.entries :
        path \in Paths /\ tree[path] # Missing /\ tree[path] = lock.entries[path].sha256

----------------------------------------------------------------------------
(* Operations and evidence.                                                 *)

\* The operation all the changed paths are evidence of, or "none".
selectEvidenceOperation(changed) ==
    LET found == {operationIdFromEvidencePath(path) : path \in changed} IN
    IF IsSingle(found) THEN CHOOSE operation \in found : TRUE ELSE "none"

isPhase1GovernedPath(path, scope, lock) ==
    \/ path \in PhaseRoot
    \/ path \in scope.allowed
    \/ path \in scope.denied
    \/ path \in DOMAIN lock.entries

validateOperationChangedPaths(changed, operation, scope, lock) ==
    /\ operation \in DOMAIN scope.operations
    /\ \A path \in changed :
        /\ path \in Paths
        /\ path \notin scope.denied \cup scope.operations[operation].denied
        /\ path \in scope.allowed \cap scope.operations[operation].allowed
        /\ path \in DOMAIN lock.entries =>
            /\ lock.entries[path].mutationPolicy # "IMMUTABLE"
            /\ lock.entries[path].mutationPolicy = "OPERATION_SCOPED" =>
                operation \in lock.entries[path].owners

\* The execution record of a merge: the one changed record with the base of
\* the event, or the only changed record, whose base its caller compares.
selectMergeExecutionRecord(changedRecords, tree, eventBase) ==
    LET matching == {path \in changedRecords : tree[path].baseCommit = eventBase} IN
    IF IsSingle(matching) THEN matching
    ELSE IF matching = {} /\ IsSingle(changedRecords) THEN changedRecords
    ELSE {}

\* Neither a record nor the absence of one.
AmbiguousMergeRecord(changedRecords, tree, eventBase) ==
    /\ changedRecords # {}
    /\ selectMergeExecutionRecord(changedRecords, tree, eventBase) = {}

----------------------------------------------------------------------------
(* Start gates: what the document that releases an operation must say.      *)

validateP1O02StartGate(gate) == gate.wellFormed /\ gate.remediation # 0

\* All commits named, those the verifier knows exactly as it knows them.
NamesCommits(gate, fields) == \A f \in fields : gate.commits[f] # 0

AmendmentCommits ==
    {"authorizationReviewedHead", "authorizationMain", "amendmentImplementation",
     "amendmentReviewedHead", "amendmentMain", "enforcementImplementation",
     "enforcementReviewedHead", "enforcementMain"}

validateP1O04StartGate(gate) ==
    /\ gate.wellFormed
    /\ NamesCommits(gate, AmendmentCommits \cup {"preliminaryMain"})
    /\ gate.commits["preliminaryMain"] = Pinned["P1-O04"].preliminaryMain
    /\ gate.amendmentIssue > 0

PinnedAmendment(gate, operation) ==
    /\ gate.wellFormed
    /\ NamesCommits(gate, AmendmentCommits)
    /\ gate.commits["authorizationMain"] = Pinned[operation].authorizationMain
    /\ gate.commits["amendmentMain"] = Pinned[operation].amendmentMain

validateP1O05StartGate(gate) == PinnedAmendment(gate, "P1-O05")

PinnedEnforcement(gate, operation) ==
    /\ PinnedAmendment(gate, operation)
    /\ gate.commits["enforcementBase"] = Pinned[operation].enforcementBase

validateP1O06StartGate(gate) == PinnedEnforcement(gate, "P1-O06")

validateP1O07StartGate(gate) == PinnedEnforcement(gate, "P1-O07")
=============================================================================
