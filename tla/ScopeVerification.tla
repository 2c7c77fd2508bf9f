------------------------- MODULE ScopeVerification -------------------------
(* The change gate of scripts/toolchain/verify-scope.mjs over the history   *)
(* of the repository: changes are proposed from any commit of main, checked *)
(* against the tip of main at that time, and merged later, when the tip may *)
(* have moved; the merge is checked once more as a push to main.            *)
(*                                                                          *)
(* A repository is a sequence of commits; a commit has its parents, the set *)
(* of its ancestors and itself, and its tree, a function from paths to      *)
(* contents.  The verifier is the one of this repository in every commit.   *)
EXTENDS ScopePolicy, Sequences, FiniteSets

CONSTANTS
    ScopePath,           \* operations/phase-1/write-scope.json
    Manifest,            \* operation.json: operation -> its write scope's
    StartPath,           \* operation -> path of its start gate
    Histories,           \* repositories and their main to start from
    Patches(_, _),       \* what a change from a commit may write, by path, and merge within
    MaxOpen              \* bound: changes at once

VARIABLES
    commits,             \* the repository
    main,                \* first-parent history: <<[commit, mode]>>
    changes,             \* checked and not yet merged: {[head, fork]}
    left                 \* bound: changes that may still be opened

vars == <<commits, main, changes, left>>

Tip == main[Len(main)].commit

\* changedPathsFrom: `git diff --no-renames --name-only'; CI's worktree is clean.
changedPathsFrom(repo, base, head) ==
    {path \in Paths : repo[base].tree[path] # repo[head].tree[path]}

assertAncestor(repo, base, head) == base \in repo[head].ancestors

\* The files of `paths' that are there.
Present(tree, paths) == {path \in paths : tree[path] # Missing}

----------------------------------------------------------------------------
(* Start gates against the history.                                         *)

IsMerge(repo, commit) == Len(repo[commit].parents) = 2

assertMergeSecondParent(repo, commit, second) ==
    IsMerge(repo, commit) /\ repo[commit].parents[2] = second

\* Mutant of assertExactMergeParents: a merge onto anything.
MergedAnywhere(repo, commit, first, second) == assertMergeSecondParent(repo, commit, second)

assertExactMergeParents(repo, commit, first, second) ==
    repo[commit].parents = <<first, second>>

\* A tree is named by a commit that has it.
assertExactTree(repo, commit, treeOf) == repo[commit].tree = repo[treeOf].tree

\* What the amendment that lets `operation' start did, read where it landed:
\* its gate was exact, it changed exactly its paths, its record and evidence
\* agree with the start gate, and it left the write scope and the ownership
\* the operation needs.
AmendmentOutcome(repo, operation, gate, issue, base) ==
    LET pin == Pinned[operation]
        c == gate.commits
        authorized == repo[c["authorizationMain"]].tree[pin.gatePath]
        landed == repo[c["amendmentMain"]].tree
        execution == landed[pin.executionPath]
        evidence == landed[pin.evidencePath]
        lock == landed[LockPath]
    IN  /\ Missing \notin {authorized, execution, evidence, landed[ScopePath], lock}
        /\ assertMergeSecondParent(repo, c["authorizationMain"], c["authorizationReviewedHead"])
        /\ validateGovernanceAmendmentAuthorizationGate(authorized,
                [trackingIssue |-> issue, implementationBranch |-> pin.branch,
                 baseCommit |-> c["authorizationMain"]],
                c["authorizationMain"], repo[c["authorizationMain"]].parents[1])
        /\ authorized.allowedChangedPaths = pin.changedPaths
        /\ authorized.exactAmendmentPaths = {pin.changedPaths}
        /\ authorized.authorityOwnershipDeltas = {pin.deltas}
        /\ changedPathsFrom(repo, c["authorizationMain"], c["amendmentReviewedHead"])
                = pin.changedPaths
        /\ IsAmendment(execution)
        /\ execution.operationId = O01
        /\ execution.writeScopeOperationId = O01
        /\ execution.status = "IMPLEMENTED"
        /\ execution.trackingIssue = issue
        /\ execution.implementationBranch = pin.branch
        /\ execution.baseCommit = c["authorizationMain"]
        /\ execution.gateRef = pin.gatePath
        /\ evidence.wellFormed
        /\ evidence.trackingIssue = issue
        /\ {execution.implementation, evidence.implementation} = {c["amendmentImplementation"]}
        /\ landed[ScopePath].enforcementMode = "DENY_BY_DEFAULT"
        /\ operation \in DOMAIN landed[ScopePath].operations
        /\ pin.scopePaths \subseteq landed[ScopePath].operations[operation].allowed
        /\ \A path \in pin.ownershipPaths :
            /\ path \in DOMAIN lock.entries
            /\ lock.entries[path].mutationPolicy = "OPERATION_SCOPED"
            /\ lock.entries[path].owners = pin.owners
        /\ assertAncestor(repo, c["amendmentMain"], base)

verifyP1O04FinalAmendmentOutcome(repo, gate, base) ==
    /\ assertMergeSecondParent(repo, gate.commits["authorizationMain"],
                                     gate.commits["authorizationReviewedHead"])
    /\ assertAncestor(repo, gate.commits["enforcementMain"],
                            repo[gate.commits["authorizationMain"]].parents[1])
    /\ AmendmentOutcome(repo, "P1-O04", gate, gate.amendmentIssue, base)

verifyP1O05ScopeAuthorityAmendmentOutcome(repo, gate, base) ==
    AmendmentOutcome(repo, "P1-O05", gate, Pinned["P1-O05"].issue, base)

verifyP1O06ScopeAuthorityAmendmentOutcome(repo, gate, base) ==
    AmendmentOutcome(repo, "P1-O06", gate, Pinned["P1-O06"].issue, base)

verifyP1O07ScopeAuthorityAmendmentOutcome(repo, gate, base) ==
    AmendmentOutcome(repo, "P1-O07", gate, Pinned["P1-O07"].issue, base)

\* The commits the gate names are commits of the repository: assertCommit.
CommitsExist(repo, gate) == \A f \in DOMAIN gate.commits : gate.commits[f] \in DOMAIN repo

\* A reviewed head carries its implementation, and was merged onto `onto'.
Landed(repo, onto, implementation, treeOf, reviewedHead, landing) ==
    /\ assertExactTree(repo, implementation, treeOf)
    /\ assertAncestor(repo, implementation, reviewedHead)
    /\ assertExactMergeParents(repo, landing, onto, reviewedHead)

AmendmentLanded(repo, gate) ==
    LET c == gate.commits IN
    /\ Landed(repo, c["authorizationMain"], c["amendmentImplementation"],
              gate.amendmentTree, c["amendmentReviewedHead"], c["amendmentMain"])
    /\ assertAncestor(repo, c["authorizationMain"], c["amendmentImplementation"])

EnforcementLanded(repo, gate, onto) ==
    LET c == gate.commits IN
    Landed(repo, onto, c["enforcementImplementation"], gate.enforcementTree,
           c["enforcementReviewedHead"], c["enforcementMain"])

P1O02Starts(repo, gate, base) ==
    /\ validateP1O02StartGate(gate)
    /\ gate.remediation \in DOMAIN repo
    /\ assertAncestor(repo, gate.remediation, base)

P1O04Starts(repo, gate, base) ==
    /\ validateP1O04StartGate(gate)
    /\ CommitsExist(repo, gate)
    /\ EnforcementLanded(repo, gate, gate.commits["preliminaryMain"])
    /\ AmendmentLanded(repo, gate)
    /\ verifyP1O04FinalAmendmentOutcome(repo, gate, base)

P1O05Starts(repo, gate, base) ==
    /\ validateP1O05StartGate(gate)
    /\ CommitsExist(repo, gate)
    /\ AmendmentLanded(repo, gate)
    /\ EnforcementLanded(repo, gate, gate.commits["amendmentMain"])
    /\ assertAncestor(repo, gate.commits["enforcementMain"], base)
    /\ verifyP1O05ScopeAuthorityAmendmentOutcome(repo, gate, base)

\* For P1-O06 and P1-O07 a remediation may come between the amendment and the
\* enforcement.
EnforcementOnItsBase(repo, gate, base) ==
    LET c == gate.commits IN
    /\ CommitsExist(repo, gate)
    /\ AmendmentLanded(repo, gate)
    /\ assertAncestor(repo, c["amendmentMain"], c["enforcementBase"])
    /\ assertAncestor(repo, c["enforcementBase"], c["enforcementImplementation"])
    /\ EnforcementLanded(repo, gate, c["enforcementBase"])
    /\ assertAncestor(repo, c["enforcementMain"], base)

P1O06Starts(repo, gate, base) ==
    /\ validateP1O06StartGate(gate)
    /\ EnforcementOnItsBase(repo, gate, base)
    /\ verifyP1O06ScopeAuthorityAmendmentOutcome(repo, gate, base)

P1O07Starts(repo, gate, base) ==
    /\ validateP1O07StartGate(gate)
    /\ EnforcementOnItsBase(repo, gate, base)
    /\ verifyP1O07ScopeAuthorityAmendmentOutcome(repo, gate, base)

\* The gate is read from the authorized base, never from the change.
verifyOperationStartGate(repo, operation, base) ==
    operation \in {"P1-O02", "P1-O04", "P1-O05", "P1-O06", "P1-O07"} =>
        LET gate == repo[base].tree[StartPath[operation]] IN
        /\ gate # Missing
        /\ CASE operation = "P1-O02" -> P1O02Starts(repo, gate, base)
             [] operation = "P1-O04" -> P1O04Starts(repo, gate, base)
             [] operation = "P1-O05" -> P1O05Starts(repo, gate, base)
             [] operation = "P1-O06" -> P1O06Starts(repo, gate, base)
             [] operation = "P1-O07" -> P1O07Starts(repo, gate, base)

----------------------------------------------------------------------------
(* The kinds of change.                                                     *)

verifyImmutableAuthority(lock, tree) ==
    \A path \in DOMAIN lock.entries :
        lock.entries[path].mutationPolicy = "IMMUTABLE" => tree[path] = lock.entries[path].sha256

verifyUnrelatedAuthorityBytes(repo, base, head, allowed) ==
    \A path \in DOMAIN repo[base].tree[LockPath].entries \ allowed :
        Missing # repo[base].tree[path] /\ repo[base].tree[path] = repo[head].tree[path]

\* The commit the event compares with is the one the record was made for.
validateEventBase(repo, event, branch, eventBase, executionBase, head) ==
    /\ assertAncestor(repo, eventBase, head)
    /\ \/ event = "pull_request"
       \/ event = "push" /\ branch = "main"
       \/ event = "local"
       => eventBase = executionBase
    /\ event = "push" /\ branch # "main" => assertAncestor(repo, executionBase, eventBase)

\* Mutant of IsPrior: a gate that any earlier commit may have brought.
AnyGate(repo, parent, path) == TRUE

\* GOVERNANCE_AMENDMENT_GATE_NOT_PRIOR: the base itself brought the gate.
IsPrior(repo, parent, path) == repo[parent].tree[path] = Missing

verifyGovernanceAmendment(repo, execution, event, branch, eventBase, head) ==
    LET base == execution.baseCommit
        tree == repo[head].tree
        before == repo[base].tree
        parent == repo[base].parents[1]
        candidates == [path \in Present(before, DOMAIN GateIssue) |-> before[path]]
        gate == before[execution.gateRef]
        changed == changedPathsFrom(repo, base, head)
    IN  /\ validateGovernanceAmendmentExecution(execution)
        /\ base \in DOMAIN repo
        /\ assertAncestor(repo, base, head)
        /\ validateEventBase(repo, event, branch, eventBase, base, head)
        /\ event # "push" \/ branch # "main" => branch = execution.implementationBranch
        /\ repo[base].parents # <<>>
        /\ selectGovernanceAmendmentAuthorizationGate(candidates, execution)
        /\ validateGovernanceAmendmentAuthorizationGate(gate, execution, base, parent)
        /\ IsPrior(repo, parent, execution.gateRef)
        /\ validateGovernanceAmendmentChangedPaths(changed, gate)
        /\ validateAuthorityLockTransition(before[LockPath], tree[LockPath],
                                           gate.allowedChangedPaths, DeltasOf(gate))
        /\ verifyUnrelatedAuthorityBytes(repo, base, head, gate.allowedChangedPaths)
        /\ validateAuthorityLockHashes(tree[LockPath], tree)

verifyOperationAuthorityTransition(repo, base, head, operation) ==
    validateOperationAuthorityLockTransition(repo[base].tree[LockPath],
        repo[head].tree[LockPath], operation, changedPathsFrom(repo, base, head), repo[head].tree)

VerifyOperation(repo, operation, base, head) ==
    LET tree == repo[head].tree IN
    /\ verifyImmutableAuthority(tree[LockPath], tree)
    /\ verifyOperationStartGate(repo, operation, base)
    /\ verifyOperationAuthorityTransition(repo, base, head, operation)
    /\ validateOperationChangedPaths(changedPathsFrom(repo, base, head) \ {LockPath},
                                     operation, tree[ScopePath], tree[LockPath])

\* A change on the branch an execution record names.
OperationExecution(repo, execution, event, branch, eventBase, head) ==
    /\ execution.baseCommit \in DOMAIN repo
    /\ assertAncestor(repo, execution.baseCommit, head)
    /\ validateEventBase(repo, event, branch, eventBase, execution.baseCommit, head)
    /\ VerifyOperation(repo, execution.operationId, execution.baseCommit, head)

\* A merge that brings the record in.
OperationMerge(repo, path, eventBase, head) ==
    /\ repo[head].tree[path].baseCommit = eventBase
    /\ VerifyOperation(repo, operationIdFromExecutionPath(path), eventBase, head)

IndependentEvidence(repo, operation, records, eventBase, head) ==
    LET tree == repo[head].tree IN
    /\ verifyImmutableAuthority(tree[LockPath], tree)
    /\ resolveOperationDefinition(operation, Manifest, tree[ScopePath])
    /\ \E path \in records : tree[path].operationId = operation
    /\ validateOperationChangedPaths(changedPathsFrom(repo, eventBase, head), operation,
                                     tree[ScopePath], tree[LockPath])

NonOperationGovernance(repo, eventBase, head) ==
    LET tree == repo[head].tree IN
    /\ \A path \in changedPathsFrom(repo, eventBase, head) :
        ~isPhase1GovernedPath(path, tree[ScopePath], tree[LockPath])
    /\ verifyImmutableAuthority(tree[LockPath], tree)

\* The mode of a check that passes; a failure of any kind is FAIL_CLOSED.
Passes(mode, passes) == IF passes THEN mode ELSE "FAIL_CLOSED"

VerifyMerge(repo, records, event, branch, eventBase, head) ==
    LET tree == repo[head].tree
        changed == changedPathsFrom(repo, eventBase, head)
        changedRecords == records \cap changed
        selected == selectMergeExecutionRecord(changedRecords, tree, eventBase)
        evidence == selectEvidenceOperation(changed)
    IN  IF ~assertAncestor(repo, eventBase, head) THEN "FAIL_CLOSED"
        ELSE IF AmbiguousMergeRecord(changedRecords, tree, eventBase) THEN "FAIL_CLOSED"
        ELSE IF \E path \in selected : IsAmendment(tree[path]) THEN
            Passes("GOVERNANCE_AMENDMENT", \A path \in selected :
                verifyGovernanceAmendment(repo, tree[path], event, branch, eventBase, head))
        ELSE IF selected # {} THEN
            Passes("OPERATION_MERGE", \A path \in selected :
                OperationMerge(repo, path, eventBase, head))
        ELSE IF evidence # "none" THEN
            Passes("INDEPENDENT_EVIDENCE",
                IndependentEvidence(repo, evidence, records, eventBase, head))
        ELSE Passes("NON_OPERATION_GOVERNANCE", NonOperationGovernance(repo, eventBase, head))

VerifySelected(repo, execution, event, branch, eventBase, head) ==
    IF IsAmendment(execution)
    THEN Passes("GOVERNANCE_AMENDMENT",
            verifyGovernanceAmendment(repo, execution, event, branch, eventBase, head))
    ELSE Passes("OPERATION_EXECUTION",
            OperationExecution(repo, execution, event, branch, eventBase, head))

\* main() of verify-scope.mjs, which CI gives no explicit operation.
Verify(repo, event, branch, eventBase, head) ==
    LET tree == repo[head].tree
        records == Present(tree, DOMAIN ExecutionOperation)
        ofBranch == {path \in records : tree[path].implementationBranch = branch}
    IN  IF \/ tree[ScopePath].enforcementMode # "DENY_BY_DEFAULT"
           \/ \E path \in records :
                ~validateExecutionRecord(path, tree[path], Manifest, tree[ScopePath])
           \/ branch # "main" /\ \E p, q \in ofBranch : p # q
        THEN "FAIL_CLOSED"
        ELSE IF branch # "main" /\ ofBranch # {}
        THEN VerifySelected(repo, tree[CHOOSE path \in ofBranch : TRUE],
                            event, branch, eventBase, head)
        ELSE VerifyMerge(repo, records, event, branch, eventBase, head)

----------------------------------------------------------------------------
(* The repository.                                                          *)

\* The steps of main so far were checked like any other; the first has no
\* base to be checked against.
Checked(repo, line) ==
    [i \in DOMAIN line |->
        [commit |-> line[i],
         mode |-> IF i = 1 THEN "FAIL_CLOSED"
                  ELSE Verify(repo, "push", "main", line[i - 1], line[i])]]

Init ==
    /\ \E history \in Histories :
        /\ commits = history.commits
        /\ main = Checked(history.commits, history.line)
        /\ left = history.left
    /\ changes = {}

Commit(repo, parents, tree) ==
    Append(repo, [parents |-> parents, tree |-> tree,
                  ancestors |-> {Len(repo) + 1} \cup
                        UNION {repo[parents[i]].ancestors : i \in DOMAIN parents}])

\* What a branch adds to the repository: a commit on its base, or one on a merge
\* made within the branch, of files it need not keep.
Branch(repo, fork, patch) ==
    LET tree(files) == [path \in Paths |-> IF path \in DOMAIN files THEN files[path]
                                           ELSE repo[fork].tree[path]]
        side == Commit(repo, <<fork>>, tree(patch.within))
        merged == Commit(side, <<fork, Len(side)>>, tree(patch.within))
    IN  IF DOMAIN patch.within = {} THEN Commit(repo, <<fork>>, tree(patch.files))
        ELSE Commit(merged, <<Len(merged)>>, tree(patch.files))

\* A pull request is opened from a commit of main and its check passes on the
\* tip of main; without that the branch protection lets nothing merge.
PullRequest ==
    /\ left > 0 /\ Cardinality(changes) < MaxOpen
    /\ left' = left - 1
    /\ \E at \in DOMAIN main : LET fork == main[at].commit IN
       \E patch \in Patches(commits, fork) :
        LET repo == Branch(commits, fork, patch)
            head == Len(repo)
        IN  /\ Verify(repo, "pull_request", patch.branch, Tip, head) # "FAIL_CLOSED"
            /\ commits' = repo
            /\ changes' = changes \cup {[head |-> head, fork |-> fork]}
    /\ UNCHANGED main

\* The change is merged onto the tip, which may have moved since its check,
\* if no file changed on both sides; the push is checked again.
Merge(change) ==
    LET fork == commits[change.fork].tree
        head == commits[change.head].tree
        tip == commits[Tip].tree
        tree == [path \in Paths |-> IF head[path] # fork[path] THEN head[path] ELSE tip[path]]
        repo == Commit(commits, <<Tip, change.head>>, tree)
    IN  /\ \A path \in Paths :
            head[path] # fork[path] => tip[path] \in {fork[path], head[path]}
        /\ commits' = repo
        /\ main' = Append(main, [commit |-> Len(repo),
                                 mode |-> Verify(repo, "push", "main", Tip, Len(repo))])
        /\ changes' = changes \ {change}
        /\ UNCHANGED left

Next == PullRequest \/ \E change \in changes : Merge(change)

Spec == Init /\ [][Next]_vars

----------------------------------------------------------------------------
(* Assumptions of the proofs.                                               *)

\* The lock has a governed path that is nobody's evidence.
PathsSound == LockPath \in (Paths \cap PhaseRoot) \ DOMAIN EvidenceOperation

\* A repository holds the first parents of its commits.
Parented(repo) ==
    \A c \in DOMAIN repo : repo[c].parents # <<>> => repo[c].parents[1] \in DOMAIN repo

----------------------------------------------------------------------------
(* Properties.                                                              *)

LockTrue(tree) ==
    \A path \in DOMAIN tree[LockPath].entries : tree[path] = tree[LockPath].entries[path].sha256

\* The authorization gates that came to main with `commit'.
FreshGates(repo, commit) ==
    {path \in DOMAIN GateIssue :
        /\ repo[commit].tree[path] # Missing
        /\ repo[commit].parents # <<>> => repo[repo[commit].parents[1]].tree[path] = Missing}

\* The records a change brought in.
NewRecords(before, after) ==
    {after[path] : path \in {p \in DOMAIN ExecutionOperation :
        after[p] # Missing /\ after[p] # before[p]}}

\* A locked file is changed by its owner, in work begun at `tip', or under a
\* gate that `tip' brought to main; owners change as such a gate says and not
\* otherwise; accepted decisions never change; and a lock that told the truth
\* still does.
Authorized(repo, tip, after) ==
    LET before == repo[tip].tree
        base == before[LockPath].entries
        head == after[LockPath].entries
        records == NewRecords(before, after)
        used == {g \in FreshGates(repo, tip) :
                    \E r \in records : IsAmendment(r) /\ r.gateRef = g}
    IN  /\ DOMAIN head = DOMAIN base
        /\ LockTrue(before) => LockTrue(after)
        /\ \A path \in DOMAIN base :
            /\ before[path] # after[path] =>
                \/ \E g \in used : path \in before[g].allowedChangedPaths \ ForbiddenPaths
                \/ \E r \in records : r.baseCommit = tip /\ Owns(base[path], r.operationId)
            /\ base[path].owners # head[path].owners =>
                \E g \in used : \E deltas \in before[g].authorityOwnershipDeltas :
                    \E d \in deltas : Accounts(d, path, base[path], head[path])

\* The lock lists files, and no operation's evidence.
LockOfFiles(tree) == DOMAIN tree[LockPath].entries \subseteq Paths \ DOMAIN EvidenceOperation

\* validateAuthorityLockTransition, validateOperationAuthorityLockTransition and
\* the choice of the mode in main(): what the check accepted onto main was
\* authorized by what main held before it, whatever was merged between the
\* check of the change and its merge.
AcceptedAuthorized ==
    \A i \in 2 .. Len(main) :
        main[i].mode # "FAIL_CLOSED" /\ LockOfFiles(commits[main[i - 1].commit].tree) =>
            Authorized(commits, main[i - 1].commit, commits[main[i].commit].tree)

\* A commit below main that was merged within a branch, and never by main.
WithinBranch(commit, i) ==
    commit \in commits[main[i].commit].ancestors /\ \A j \in 1 .. i : main[j].commit # commit

\* verifyOperationStartGate: the work of an operation that waits for an
\* amendment is accepted only on a main that had accepted that amendment, by
\* its own check, before a start gate that releases the work came to main.  The
\* gate of P1-O04 pins no amendment, and may name one merged within a branch.
StartsReleased ==
    \A i \in 2 .. Len(main) : main[i].mode = "OPERATION_MERGE" =>
        \A r \in NewRecords(commits[main[i - 1].commit].tree, commits[main[i].commit].tree) :
            (r.baseCommit = main[i - 1].commit /\ r.operationId \in DOMAIN Pinned) =>
                LET start == StartPath[r.operationId]
                    amendment == commits[r.baseCommit].tree[start].commits["amendmentMain"]
                IN  /\ r.operationId # "P1-O04" => amendment = Pinned[r.operationId].amendmentMain
                    /\ \/ \E j, k \in 2 .. i - 1 :
                            /\ j < k
                            /\ main[j].commit = amendment
                            /\ main[j].mode = "GOVERNANCE_AMENDMENT"
                            /\ commits[main[k].commit].tree[start] # Missing
                            /\ commits[main[k - 1].commit].tree[start] = Missing
                       \/ r.operationId = "P1-O04" /\ WithinBranch(amendment, i - 1)
=============================================================================
