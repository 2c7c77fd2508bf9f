--------------------------- MODULE DeciderProofs ---------------------------
(***************************************************************************)
(* Proofs about the two deciders of the repository.  The change gate: what *)
(* it accepts onto main is authorized, for every repository, every set of  *)
(* rules and every set of changes.  The policy engine: every decision is   *)
(* the one that the rules give as a set, for every policy set and every    *)
(* input.  The parts share nothing; each has its own specification.        *)
(***************************************************************************)
EXTENDS ScopeVerification, PolicyEvaluation, SequenceTheorems, FunctionTheorems,
        FiniteSetTheorems, NaturalsInduction, WellFoundedInduction, TLAPS

----------------------------------------------------------------------------
(* The change gate: its rules.                                              *)

\* validateOperationAuthorityLockTransition: when the lock told the truth
\* about `before', and `changed' holds whatever differs, the lock of `after'
\* tells the truth, owners are as they were, and an owner made the changes.
LEMMA OperationTransition ==
    ASSUME NEW before, NEW after, NEW operation,
           validateOperationAuthorityLockTransition(before[LockPath], after[LockPath],
                operation, {path \in Paths : before[path] # after[path]}, after)
    PROVE  /\ DOMAIN after[LockPath].entries = DOMAIN before[LockPath].entries
           /\ LockTrue(before) => LockTrue(after)
           /\ \A path \in DOMAIN before[LockPath].entries :
                /\ before[path] # after[path] => Owns(before[LockPath].entries[path], operation)
                /\ before[LockPath].entries[path].owners = after[LockPath].entries[path].owners
<1> DEFINE base == before[LockPath].entries
           head == after[LockPath].entries
           changed == {path \in Paths : before[path] # after[path]}
<1>1. /\ DOMAIN base = DOMAIN head
      /\ DOMAIN base \subseteq Paths
      BY DEF validateOperationAuthorityLockTransition, SameShape, collectAuthorityEntries
<1>2. \A path \in DOMAIN base :
        /\ base[path].owners = head[path].owners
        /\ base[path].sha256 # head[path].sha256 => path \in changed
        /\ path \in changed => Owns(base[path], operation) /\ head[path].sha256 = after[path]
      BY DEF validateOperationAuthorityLockTransition
<1>3. ASSUME LockTrue(before), NEW path \in DOMAIN base
      PROVE  after[path] = head[path].sha256
  <2>1. CASE path \in changed
        BY <1>2, <2>1
  <2>2. CASE path \notin changed
    <3>1. before[path] = after[path]
          BY <1>1, <2>2
    <3> QED BY <1>2, <1>3, <2>2, <3>1 DEF LockTrue
  <2> QED BY <2>1, <2>2
<1>4. LockTrue(before) => LockTrue(after)
      BY <1>1, <1>3 DEF LockTrue
<1>5. ASSUME NEW path \in DOMAIN base, before[path] # after[path]
      PROVE  Owns(base[path], operation)
      BY <1>1, <1>2, <1>5
<1> QED BY <1>1, <1>2, <1>4, <1>5

\* A change that leaves the lock and every locked file alone.
LEMMA Untouched ==
    ASSUME NEW repo, NEW tip, NEW after,
           repo[tip].tree[LockPath] = after[LockPath],
           \A path \in DOMAIN repo[tip].tree[LockPath].entries :
                repo[tip].tree[path] = after[path]
    PROVE  Authorized(repo, tip, after)
BY DEF Authorized, LockTrue

\* A path whose file differs is among the changed ones.
LEMMA ChangedPaths ==
    ASSUME NEW repo, NEW base, NEW head, NEW path \in Paths,
           path \notin changedPathsFrom(repo, base, head)
    PROVE  repo[base].tree[path] = repo[head].tree[path]
BY DEF changedPathsFrom

----------------------------------------------------------------------------
(* The modes of the check.                                                  *)

\* A record that came with the change, and says so.
LEMMA SelectedIsNew ==
    ASSUME NEW repo, NEW base, NEW head,
           NEW path \in Present(repo[head].tree, DOMAIN ExecutionOperation)
                            \cap changedPathsFrom(repo, base, head)
    PROVE  repo[head].tree[path] \in NewRecords(repo[base].tree, repo[head].tree)
BY DEF Present, changedPathsFrom, NewRecords

\* A record that is selected is one of the changed records.
LEMMA SelectedIsChanged ==
    ASSUME NEW records, NEW tree, NEW eventBase,
           NEW path \in selectMergeExecutionRecord(records, tree, eventBase)
    PROVE  path \in records
BY DEF selectMergeExecutionRecord

\* The work of an operation, merged, is the owner's, begun at the base.
LEMMA MergeAuthorized ==
    ASSUME NEW repo, NEW base, NEW head,
           NEW path \in Present(repo[head].tree, DOMAIN ExecutionOperation)
                            \cap changedPathsFrom(repo, base, head),
           validateExecutionRecord(path, repo[head].tree[path], Manifest,
                                   repo[head].tree[ScopePath]),
           OperationMerge(repo, path, base, head)
    PROVE  Authorized(repo, base, repo[head].tree)
<1> DEFINE before == repo[base].tree
           after == repo[head].tree
           record == after[path]
<1>1. record \in NewRecords(before, after)
      BY SelectedIsNew
<1>2. record.operationId = operationIdFromExecutionPath(path)
      BY DEF validateExecutionRecord
<1>3. /\ record.baseCommit = base
      /\ validateOperationAuthorityLockTransition(before[LockPath], after[LockPath],
            record.operationId, {p \in Paths : before[p] # after[p]}, after)
      BY <1>2 DEF OperationMerge, VerifyOperation, verifyOperationAuthorityTransition,
                  changedPathsFrom
<1>4. /\ DOMAIN after[LockPath].entries = DOMAIN before[LockPath].entries
      /\ LockTrue(before) => LockTrue(after)
      /\ \A p \in DOMAIN before[LockPath].entries :
            /\ before[p] # after[p] => Owns(before[LockPath].entries[p], record.operationId)
            /\ before[LockPath].entries[p].owners = after[LockPath].entries[p].owners
  <2> HIDE DEF before, after, record
  <2> QED BY <1>3, OperationTransition
<1> QED BY <1>1, <1>3, <1>4 DEF Authorized

\* A governance amendment is authorized by the gate its base brought in.
LEMMA AmendmentAuthorized ==
    ASSUME NEW repo, NEW base, NEW head,
           NEW record \in NewRecords(repo[base].tree, repo[head].tree),
           IsAmendment(record),
           verifyGovernanceAmendment(repo, record, "push", "main", base, head)
    PROVE  Authorized(repo, base, repo[head].tree)
<1> DEFINE before == repo[base].tree
           after == repo[head].tree
           gate == before[record.gateRef]
           old == before[LockPath]
           new == after[LockPath]
<1>1. record.baseCommit = base
      BY DEF verifyGovernanceAmendment, validateEventBase
<1>2. /\ validateGovernanceAmendmentExecution(record)
      /\ repo[base].parents # <<>>
      /\ selectGovernanceAmendmentAuthorizationGate(
            [p \in Present(before, DOMAIN GateIssue) |-> before[p]], record)
      /\ validateGovernanceAmendmentAuthorizationGate(gate, record, base, repo[base].parents[1])
      /\ repo[repo[base].parents[1]].tree[record.gateRef] = Missing
      /\ validateGovernanceAmendmentChangedPaths(changedPathsFrom(repo, base, head), gate)
      /\ validateAuthorityLockTransition(old, new, gate.allowedChangedPaths, DeltasOf(gate))
      /\ validateAuthorityLockHashes(new, after)
      BY <1>1 DEF verifyGovernanceAmendment, IsPrior
<1>3. record.gateRef \in Present(before, DOMAIN GateIssue)
      BY <1>2 DEF selectGovernanceAmendmentAuthorizationGate, GatesFor
<1>4. record.gateRef \in FreshGates(repo, base)
      BY <1>2, <1>3 DEF FreshGates, Present
<1>5. \E r \in NewRecords(before, after) : IsAmendment(r) /\ r.gateRef = record.gateRef
      OBVIOUS
<1>6. /\ DOMAIN new.entries = DOMAIN old.entries
      /\ DOMAIN old.entries \subseteq Paths
      BY <1>2 DEF validateAuthorityLockTransition, SameShape, collectAuthorityEntries
<1>7. LockTrue(after)
      BY <1>2 DEF validateAuthorityLockHashes, LockTrue
<1>8. ASSUME NEW p \in DOMAIN old.entries, before[p] # after[p]
      PROVE  p \in gate.allowedChangedPaths \ ForbiddenPaths
  <2>1. p \in changedPathsFrom(repo, base, head)
        BY <1>6, <1>8, ChangedPaths
  <2>2. p \in gate.allowedChangedPaths
        BY <1>2, <2>1 DEF validateGovernanceAmendmentChangedPaths
  <2>3. gate.allowedChangedPaths \cap ForbiddenPaths = {}
        BY <1>2 DEF validateGovernanceAmendmentAuthorizationGate, validateCanonicalAmendmentPaths
  <2> QED BY <2>2, <2>3
<1>9. ASSUME NEW p \in DOMAIN old.entries, old.entries[p].owners # new.entries[p].owners
      PROVE  \E deltas \in gate.authorityOwnershipDeltas :
                \E d \in deltas : Accounts(d, p, old.entries[p], new.entries[p])
      BY <1>2, <1>9 DEF validateAuthorityLockTransition, DeltasOf
<1> HIDE DEF before, after, gate, old, new
<1>10. Authorized(repo, base, after)
  <2> USE DEF before, after, gate, old, new
  <2> QED BY <1>4, <1>5, <1>6, <1>7, <1>8, <1>9 DEF Authorized
<1> QED BY <1>10 DEF after

\* Independent evidence of an operation touches no locked file.
LEMMA EvidenceAuthorized ==
    ASSUME PathsSound, NEW repo, NEW base, NEW head,
           LockOfFiles(repo[base].tree),
           selectEvidenceOperation(changedPathsFrom(repo, base, head)) # "none"
    PROVE  Authorized(repo, base, repo[head].tree)
<1> DEFINE changed == changedPathsFrom(repo, base, head)
           found == {operationIdFromEvidencePath(path) : path \in changed}
<1>1. PICK operation \in found : found = {operation}
      BY DEF selectEvidenceOperation, IsSingle
<1>2. operation # "none"
      BY <1>1 DEF selectEvidenceOperation, IsSingle
<1>3. changed \subseteq DOMAIN EvidenceOperation
  <2> SUFFICES ASSUME NEW path \in changed PROVE path \in DOMAIN EvidenceOperation
      OBVIOUS
  <2>1. operationIdFromEvidencePath(path) = operation
        BY <1>1
  <2> QED BY <1>2, <2>1 DEF operationIdFromEvidencePath
<1>4. \A path \in Paths \ DOMAIN EvidenceOperation :
        repo[base].tree[path] = repo[head].tree[path]
      BY <1>3, ChangedPaths
<1> QED BY <1>4, Untouched DEF PathsSound, LockOfFiles

\* A change without an operation touches neither the lock nor what it lists.
LEMMA UngovernedAuthorized ==
    ASSUME PathsSound, NEW repo, NEW base, NEW head,
           LockOfFiles(repo[base].tree),
           NonOperationGovernance(repo, base, head)
    PROVE  Authorized(repo, base, repo[head].tree)
<1> DEFINE before == repo[base].tree
           after == repo[head].tree
<1>1. \A path \in changedPathsFrom(repo, base, head) :
        path \notin PhaseRoot /\ path \notin DOMAIN after[LockPath].entries
      BY DEF NonOperationGovernance, isPhase1GovernedPath
<1>2. before[LockPath] = after[LockPath]
      BY <1>1, ChangedPaths DEF PathsSound
<1>3. \A path \in DOMAIN before[LockPath].entries : before[path] = after[path]
      BY <1>1, <1>2, ChangedPaths DEF LockOfFiles
<1> QED BY <1>2, <1>3, Untouched

\* main() of verify-scope.mjs as it runs after a push to main.
LEMMA PassesAuthorized ==
    ASSUME PathsSound, NEW repo, NEW base, NEW head,
           LockOfFiles(repo[base].tree),
           Verify(repo, "push", "main", base, head) # "FAIL_CLOSED"
    PROVE  Authorized(repo, base, repo[head].tree)
<1> DEFINE tree == repo[head].tree
           changed == changedPathsFrom(repo, base, head)
           records == Present(tree, DOMAIN ExecutionOperation)
           selected == selectMergeExecutionRecord(records \cap changed, tree, base)
           evidence == selectEvidenceOperation(changed)
<1>1. /\ VerifyMerge(repo, records, "push", "main", base, head) # "FAIL_CLOSED"
      /\ \A path \in records :
            validateExecutionRecord(path, tree[path], Manifest, tree[ScopePath])
      BY DEF Verify
<1>2. CASE \E path \in selected : IsAmendment(tree[path])
  <2>1. PICK path \in selected : IsAmendment(tree[path])
        BY <1>2
  <2>2. verifyGovernanceAmendment(repo, tree[path], "push", "main", base, head)
        BY <1>1, <1>2, <2>1 DEF VerifyMerge, Passes
  <2>3. tree[path] \in NewRecords(repo[base].tree, tree)
        BY <2>1, SelectedIsChanged, SelectedIsNew
  <2> QED BY <2>1, <2>2, <2>3, AmendmentAuthorized
<1>3. CASE selected # {} /\ ~\E path \in selected : IsAmendment(tree[path])
  <2>1. PICK path \in selected : TRUE
        BY <1>3
  <2>2. OperationMerge(repo, path, base, head)
        BY <1>1, <1>3, <2>1 DEF VerifyMerge, Passes
  <2>3. path \in records \cap changed
        BY <2>1, SelectedIsChanged
  <2> QED BY <1>1, <2>2, <2>3, MergeAuthorized
<1>4. CASE selected = {} /\ evidence # "none"
      BY <1>4, EvidenceAuthorized
<1>5. CASE selected = {} /\ evidence = "none"
  <2>1. NonOperationGovernance(repo, base, head)
        BY <1>1, <1>5 DEF VerifyMerge, Passes
  <2> QED BY <2>1, UngovernedAuthorized
<1> QED BY <1>2, <1>3, <1>4, <1>5

----------------------------------------------------------------------------
(* The repository.                                                          *)

IsSequence(s) == \E S : s \in Seq(S)

\* What the histories main may start from have to be: repositories that hold
\* the parents of their commits and the commits of main.
HistoriesSound ==
    \A history \in Histories :
        /\ IsSequence(history.commits) /\ Parented(history.commits)
        /\ history.line \in Seq(DOMAIN history.commits) /\ history.line # <<>>

Accepted(repo, line, i) ==
    line[i].mode # "FAIL_CLOSED" /\ LockOfFiles(repo[line[i - 1].commit].tree) =>
        Authorized(repo, line[i - 1].commit, repo[line[i].commit].tree)

IInv ==
    /\ IsSequence(commits) /\ Parented(commits)
    /\ IsSequence(main) /\ main # <<>>
    /\ \A i \in DOMAIN main : main[i].commit \in DOMAIN commits
    /\ \A i \in 2 .. Len(main) : Accepted(commits, main, i)

\* Appending a commit changes no earlier one and adds one as the last.
LEMMA Appended ==
    ASSUME NEW s, NEW x, IsSequence(s)
    PROVE  /\ IsSequence(Append(s, x))
           /\ Len(s) \in Nat /\ DOMAIN s = 1 .. Len(s)
           /\ Len(Append(s, x)) = Len(s) + 1
           /\ DOMAIN Append(s, x) = 1 .. Len(s) + 1
           /\ \A i \in 1 .. Len(s) : Append(s, x)[i] = s[i]
           /\ Append(s, x)[Len(s) + 1] = x
           /\ s # <<>> => Len(s) \in DOMAIN s
           /\ Append(s, x) # <<>>
<1>1. PICK S : s \in Seq(S)
      BY DEF IsSequence
<1>2. s \in Seq(S \cup {x}) /\ x \in S \cup {x}
      BY <1>1
<1>3. Append(s, x) \in Seq(S \cup {x})
      BY <1>2
<1> QED BY <1>2, <1>3 DEF IsSequence

\* The commits of a repository are those of a later one.
Extends(repo, later) ==
    \A c \in DOMAIN repo : c \in DOMAIN later /\ later[c] = repo[c]

\* A commit is judged alike when the repository has grown.
LEMMA Grown ==
    ASSUME NEW repo, NEW later, Extends(repo, later), Parented(repo),
           NEW tip \in DOMAIN repo, NEW commit \in DOMAIN repo,
           Authorized(repo, tip, repo[commit].tree)
    PROVE  Authorized(later, tip, later[commit].tree)
<1>1. \A c \in DOMAIN repo : later[c] = repo[c]
      BY DEF Extends
<1>2. FreshGates(later, tip) = FreshGates(repo, tip)
      BY <1>1 DEF FreshGates, Parented
<1> QED BY <1>1, <1>2 DEF Authorized

\* Commit extends a sound repository to a sound one.
LEMMA GrownRepository ==
    ASSUME NEW repo, NEW parents, NEW tree, IsSequence(repo), Parented(repo),
           parents[1] \in DOMAIN repo
    PROVE  /\ IsSequence(Commit(repo, parents, tree))
           /\ Parented(Commit(repo, parents, tree))
           /\ Extends(repo, Commit(repo, parents, tree))
           /\ Len(Commit(repo, parents, tree)) \in DOMAIN Commit(repo, parents, tree)
<1> DEFINE x == [parents |-> parents, tree |-> tree,
                 ancestors |-> {Len(repo) + 1} \cup
                    UNION {repo[parents[i]].ancestors : i \in DOMAIN parents}]
           grown == Append(repo, x)
<1>1. grown = Commit(repo, parents, tree)
      BY DEF Commit
<1>2. x.parents = parents
      OBVIOUS
<1> HIDE DEF x
<1>3. /\ IsSequence(grown) /\ Len(repo) \in Nat /\ DOMAIN repo = 1 .. Len(repo)
      /\ Len(grown) = Len(repo) + 1 /\ DOMAIN grown = 1 .. Len(repo) + 1
      /\ \A i \in 1 .. Len(repo) : grown[i] = repo[i]
      /\ grown[Len(repo) + 1] = x
      BY Appended
<1>4. Parented(grown)
  <2> SUFFICES ASSUME NEW c \in DOMAIN grown, grown[c].parents # <<>>
               PROVE  grown[c].parents[1] \in DOMAIN grown
      BY DEF Parented
  <2>1. CASE c \in DOMAIN repo
        BY <1>3, <2>1 DEF Parented
  <2>2. CASE c = Len(repo) + 1
        BY <1>2, <1>3, <2>2
  <2> QED BY <1>3, <2>1, <2>2
<1> HIDE DEF grown
<1> QED BY <1>1, <1>3, <1>4 DEF Extends

\* A branch does, too, with a merge of its own and without.
LEMMA GrownBranch ==
    ASSUME NEW repo, NEW fork \in DOMAIN repo, NEW patch,
           IsSequence(repo), Parented(repo)
    PROVE  LET grown == Branch(repo, fork, patch) IN
           IsSequence(grown) /\ Parented(grown) /\ Extends(repo, grown)
<1> DEFINE tree(files) == [path \in Paths |-> IF path \in DOMAIN files THEN files[path]
                                              ELSE repo[fork].tree[path]]
           side == Commit(repo, <<fork>>, tree(patch.within))
           merged == Commit(side, <<fork, Len(side)>>, tree(patch.within))
           whole == Commit(merged, <<Len(merged)>>, tree(patch.files))
           single == Commit(repo, <<fork>>, tree(patch.files))
<1>1. Branch(repo, fork, patch) \in {single, whole}
      BY DEF Branch
<1>2. IsSequence(single) /\ Parented(single) /\ Extends(repo, single)
      BY GrownRepository
<1>3. IsSequence(side) /\ Parented(side) /\ Extends(repo, side)
      BY GrownRepository
<1>4. /\ IsSequence(merged) /\ Parented(merged) /\ Extends(side, merged)
      /\ Len(merged) \in DOMAIN merged
  <2> HIDE DEF side
  <2>1. <<fork, Len(side)>>[1] \in DOMAIN side
        BY <1>3 DEF Extends
  <2> QED BY <1>3, <2>1, GrownRepository
<1>5. IsSequence(whole) /\ Parented(whole) /\ Extends(merged, whole)
  <2> HIDE DEF merged
  <2>1. <<Len(merged)>>[1] \in DOMAIN merged
        BY <1>4
  <2> QED BY <1>4, <2>1, GrownRepository
<1> HIDE DEF single, side, merged, whole
<1>6. Extends(repo, whole)
      BY <1>3, <1>4, <1>5 DEF Extends
<1> QED BY <1>1, <1>2, <1>5, <1>6

\* What was accepted before stays accepted when the repository has grown.
LEMMA GrownMain ==
    ASSUME IInv, NEW i \in 2 .. Len(main), NEW later, Extends(commits, later)
    PROVE  Accepted(later, main, i)
<1> DEFINE tip == main[i - 1].commit
           commit == main[i].commit
<1>1. i \in DOMAIN main /\ i - 1 \in DOMAIN main
      BY Appended DEF IInv
<1>2. tip \in DOMAIN commits /\ commit \in DOMAIN commits
      BY <1>1 DEF IInv
<1>3. later[tip] = commits[tip]
      BY <1>2 DEF Extends
<1>4. SUFFICES ASSUME main[i].mode # "FAIL_CLOSED", LockOfFiles(later[tip].tree)
               PROVE  Authorized(later, tip, later[commit].tree)
      BY DEF Accepted
<1>5. Authorized(commits, tip, commits[commit].tree)
      BY <1>3, <1>4 DEF IInv, Accepted
<1> QED BY <1>2, <1>5, Grown DEF IInv

\* The first state of a sound history satisfies the invariant.
LEMMA InitEstablishes ==
    ASSUME PathsSound, HistoriesSound, Init
    PROVE  IInv
<1>1. PICK history \in Histories :
        commits = history.commits /\ main = Checked(history.commits, history.line)
      BY DEF Init
<1> DEFINE line == history.line
<1>2. /\ IsSequence(commits) /\ Parented(commits)
      /\ line \in Seq(DOMAIN commits) /\ line # <<>>
      BY <1>1 DEF HistoriesSound
<1>3. /\ DOMAIN line = 1 .. Len(line) /\ Len(line) \in Nat \ {0}
      /\ \A i \in 1 .. Len(line) : line[i] \in DOMAIN commits
      BY <1>2
<1>4. main = [i \in 1 .. Len(line) |->
                [commit |-> line[i],
                 mode |-> IF i = 1 THEN "FAIL_CLOSED"
                          ELSE Verify(commits, "push", "main", line[i - 1], line[i])]]
      BY <1>1, <1>3 DEF Checked
<1> HIDE DEF line
<1>5. IsSequence(main) /\ Len(main) = Len(line) /\ DOMAIN main = 1 .. Len(main)
  <2> DEFINE S == {main[i] : i \in 1 .. Len(line)}
  <2>1. main \in [1 .. Len(line) -> S]
        BY <1>4
  <2> HIDE DEF S
  <2>2. main \in Seq(S)
        BY <1>3, <2>1
  <2> QED BY <1>3, <2>1, <2>2 DEF IsSequence
<1>6. \A i \in 1 .. Len(line) : main[i].commit = line[i]
      BY <1>4
<1>7. ASSUME NEW i \in 2 .. Len(main), main[i].mode # "FAIL_CLOSED",
             LockOfFiles(commits[main[i - 1].commit].tree)
      PROVE  Authorized(commits, main[i - 1].commit, commits[main[i].commit].tree)
  <2>1. i \in 1 .. Len(line) /\ i - 1 \in 1 .. Len(line) /\ i # 1
        BY <1>3, <1>5
  <2>2. Verify(commits, "push", "main", main[i - 1].commit, main[i].commit) # "FAIL_CLOSED"
        BY <1>4, <1>6, <1>7, <2>1
  <2> QED BY <1>7, <2>2, PassesAuthorized
<1>8. main # <<>> /\ \A i \in DOMAIN main : main[i].commit \in DOMAIN commits
      BY <1>3, <1>5, <1>6
<1> QED BY <1>2, <1>5, <1>7, <1>8 DEF IInv, Accepted

\* Opening a change adds a branch to the repository and leaves main alone.
LEMMA PullRequestPreserves ==
    ASSUME IInv, PullRequest
    PROVE  IInv'
<1>1. PICK at \in DOMAIN main :
        \E patch : commits' = Branch(commits, main[at].commit, patch)
      BY DEF PullRequest
<1>2. main' = main /\ main[at].commit \in DOMAIN commits
      BY DEF PullRequest, IInv
<1>3. IsSequence(commits') /\ Parented(commits') /\ Extends(commits, commits')
      BY <1>1, <1>2, GrownBranch DEF IInv
<1>4. ASSUME NEW i \in 2 .. Len(main)
      PROVE  Accepted(commits', main, i)
      BY <1>3, <1>4, GrownMain
<1>5. \A i \in DOMAIN main : main[i].commit \in DOMAIN commits'
      BY <1>3 DEF Extends, IInv
<1> QED BY <1>2, <1>3, <1>4, <1>5 DEF IInv

\* A merge is the new tip of main; the push that brings it is checked.
LEMMA MergePreserves ==
    ASSUME PathsSound, IInv, NEW change \in changes, Merge(change)
    PROVE  IInv'
<1>1. PICK tree : commits' = Commit(commits, <<Tip, change.head>>, tree)
      BY DEF Merge
<1> DEFINE last == Len(commits')
           x == [commit |-> last, mode |-> Verify(commits', "push", "main", Tip, last)]
<1>2. main' = Append(main, x)
      BY DEF Merge
<1>3. Len(main) \in DOMAIN main /\ Tip \in DOMAIN commits
      BY Appended DEF IInv, Tip
<1>4. /\ IsSequence(commits') /\ Parented(commits')
      /\ Extends(commits, commits') /\ last \in DOMAIN commits'
      BY <1>1, <1>3, GrownRepository DEF IInv
<1>5. x.commit = last /\ x.mode = Verify(commits', "push", "main", Tip, last)
      OBVIOUS
<1> HIDE DEF x
<1>6. /\ IsSequence(main') /\ main' # <<>>
      /\ Len(main) \in Nat /\ DOMAIN main = 1 .. Len(main)
      /\ Len(main') = Len(main) + 1 /\ DOMAIN main' = 1 .. Len(main) + 1
      /\ \A i \in 1 .. Len(main) : main'[i] = main[i]
      /\ main'[Len(main) + 1] = x
      BY <1>2, Appended DEF IInv
<1>7. ASSUME NEW i \in 2 .. Len(main)
      PROVE  Accepted(commits', main', i)
  <2>1. Accepted(commits', main, i)
        BY <1>4, <1>7, GrownMain
  <2> QED BY <1>6, <1>7, <2>1 DEF Accepted
<1>8. Accepted(commits', main', Len(main) + 1)
  <2>1. main'[Len(main) + 1 - 1].commit = Tip
        BY <1>3, <1>6 DEF Tip
  <2> QED BY <1>5, <1>6, <2>1, PassesAuthorized DEF Accepted
<1>9. \A i \in DOMAIN main' : main'[i].commit \in DOMAIN commits'
      BY <1>4, <1>5, <1>6 DEF IInv, Extends
<1> QED BY <1>4, <1>6, <1>7, <1>8, <1>9 DEF IInv

\* The check never accepts onto main what main had not authorized: for every
\* set of rules, histories and changes, in every order of checks and merges.
THEOREM GateAuthorizes ==
    ASSUME PathsSound, HistoriesSound
    PROVE  Spec => []AcceptedAuthorized
<1>1. Init => IInv
      BY InitEstablishes
<1>2. IInv /\ [Next]_vars => IInv'
  <2> SUFFICES ASSUME IInv, [Next]_vars PROVE IInv'
      OBVIOUS
  <2>1. CASE PullRequest
        BY <2>1, PullRequestPreserves
  <2>2. ASSUME NEW change \in changes, Merge(change) PROVE IInv'
        BY <2>2, MergePreserves
  <2>3. CASE UNCHANGED vars
        BY <2>3 DEF IInv, Accepted, vars
  <2> QED BY <2>1, <2>2, <2>3 DEF Next
<1>3. IInv => AcceptedAuthorized
      BY DEF IInv, Accepted, AcceptedAuthorized
<1> QED BY <1>1, <1>2, <1>3, PTL DEF Spec

-----------------------------------------------------------------------------
(* The policy engine: recursion over the height of a condition.            *)

\* A set of numbers that is not empty has a least one.
LEMMA LeastNumber ==
    ASSUME NEW S \in SUBSET Nat, S # {}
    PROVE  \E m \in S : \A n \in S : m <= n
<1> DEFINE less == {ss \in Nat \X Nat : ss[1] < ss[2]}
<1>1. IsWellFoundedOn(less, Nat)
    BY NatLessThanWellFounded, Zenon DEF OpToRel
<1>0. \A n, m \in Nat : n < m => <<n, m>> \in less
    OBVIOUS
<1> HIDE DEF less
<1>2. PICK m \in S : \A n \in S : ~(<<n, m>> \in less)
    BY <1>1, WFMin
<1>3. ASSUME NEW n \in S PROVE m <= n
  <2>1. n \in Nat /\ m \in Nat /\ ~(n < m)
    BY <1>0, <1>2
  <2> QED BY <2>1
<1> QED BY <1>3

\* Of the elements of a set one has the least height.
LEMMA LeastHeight ==
    ASSUME NEW C, NEW h \in [C -> Nat], NEW S \in SUBSET C, S # {}
    PROVE  \E c \in S : \A d \in S : h[c] <= h[d]
<1> DEFINE H == {h[c] : c \in S}
<1>3. H \in SUBSET Nat /\ H # {}
    OBVIOUS
<1> HIDE DEF H
<1>1. PICK m \in H : \A n \in H : m <= n
    BY <1>3, LeastNumber
<1> USE DEF H
<1>2. PICK c \in S : h[c] = m
    BY <1>1
<1> QED BY <1>1, <1>2

\* A step from functions to functions that looks at lower heights only.
LooksBelow(C, R, h, step) ==
    /\ h \in [C -> Nat] /\ [C -> R] # {} /\ step \in [[C -> R] -> [C -> R]]
    /\ \A f, g \in [C -> R] : \A c \in C :
          (\A p \in C : h[p] < h[c] => f[p] = g[p]) => step[f][c] = step[g][c]

\* What is defined by such a step is defined.
LEMMA Recursion ==
    ASSUME NEW C, NEW R, NEW h, NEW step, LooksBelow(C, R, h, step)
    PROVE  \E f \in [C -> R] : f = step[f]
<1>0. /\ h \in [C -> Nat] /\ step \in [[C -> R] -> [C -> R]]
      /\ \A f, g \in [C -> R] : \A c \in C :
            (\A p \in C : h[p] < h[c] => f[p] = g[p]) => step[f][c] = step[g][c]
    BY DEF LooksBelow
<1> USE <1>0
<1>9. PICK start : start \in [C -> R]
    BY DEF LooksBelow
<1> DEFINE Good(n) == {f \in [C -> R] : \A c \in C : h[c] < n => f[c] = step[f][c]}
           pick(n) == CHOOSE f : f \in Good(n)
           glued == [c \in C |-> pick(h[c] + 1)[c]]
<1>1. ASSUME NEW n \in Nat PROVE Good(n) # {}
  <2> DEFINE S == {m \in Nat : Good(m) = {}}
  <2>1. SUFFICES ASSUME S # {} PROVE FALSE
    <3> HIDE DEF Good
    <3> QED BY <1>1
  <2>2. PICK m \in S : \A k \in S : m <= k
    BY <2>1, LeastNumber
  <2>3. start \in Good(0)
    BY <1>9
  <2>4. m - 1 \in Nat /\ Good(m - 1) # {}
    BY <2>2, <2>3
  <2>5. PICK f \in Good(m - 1) : TRUE
    BY <2>4
  <2>6. step[f] \in [C -> R] /\ f \in [C -> R]
    BY <2>5
  <2>7. ASSUME NEW c \in C, h[c] < m PROVE step[f][c] = step[step[f]][c]
    <3>1. \A p \in C : h[p] < h[c] => f[p] = step[f][p]
      BY <2>2, <2>5, <2>7
    <3> QED BY <2>6, <3>1
  <2> QED BY <2>2, <2>6, <2>7
<1>2. ASSUME NEW n \in Nat, NEW f \in Good(n), NEW g \in Good(n), NEW c \in C, h[c] < n
      PROVE  f[c] = g[c]
  <2> DEFINE bad == {d \in C : h[d] < n /\ f[d] # g[d]}
  <2>1. SUFFICES ASSUME bad # {} PROVE FALSE
    BY <1>2
  <2>2. PICK d \in bad : \A e \in bad : h[d] <= h[e]
    BY <2>1, LeastHeight
  <2>3. \A p \in C : h[p] < h[d] => f[p] = g[p]
    BY <2>2
  <2>4. step[f][d] = step[g][d]
    BY <2>2, <2>3
  <2> QED BY <2>2, <2>4
<1>3. \A n \in Nat : pick(n) \in Good(n)
  <2> HIDE DEF Good
  <2> SUFFICES ASSUME NEW n \in Nat PROVE pick(n) \in Good(n)
    BY Zenon
  <2>1. Good(n) # {}
    BY <1>1
  <2>2. \E f : f \in Good(n)
    BY <2>1
  <2> QED BY <2>2, Zenon
<1> HIDE DEF pick
<1>4. \A c \in C : h[c] + 1 \in Nat /\ h[c] < h[c] + 1
    OBVIOUS
<1>5. glued \in [C -> R]
    BY <1>3, <1>4
<1>6. ASSUME NEW c \in C PROVE glued[c] = step[glued][c]
  <2> DEFINE f == pick(h[c] + 1)
  <2>1. f \in Good(h[c] + 1) /\ f[c] = step[f][c]
    BY <1>3, <1>4
  <2>2. ASSUME NEW p \in C, h[p] < h[c] PROVE f[p] = glued[p]
    <3>1. pick(h[p] + 1) \in Good(h[p] + 1) /\ h[p] + 1 \in Nat /\ h[p] < h[p] + 1
      BY <1>3, <1>4
    <3>2. f \in Good(h[p] + 1)
      BY <2>1, <2>2
    <3> HIDE DEF Good
    <3>3. f[p] = pick(h[p] + 1)[p]
      BY <1>2, <3>1, <3>2
    <3> QED BY <3>3
  <2>3. step[f][c] = step[glued][c]
    BY <1>5, <2>1, <2>2
  <2> QED BY <2>1, <2>3 DEF glued
<1>7. step[glued] \in [C -> R]
    BY <1>5
<1>8. glued = step[glued]
  <2> HIDE DEF glued
  <2> QED BY <1>5, <1>6, <1>7
<1> QED BY <1>5, <1>8

\* Two functions are one when each value follows from those at lower heights.
LEMMA SameFunction ==
    ASSUME NEW C, NEW h \in [C -> Nat], NEW f, NEW g,
           \A c \in C : (\A p \in C : h[p] < h[c] => f[p] = g[p]) => f[c] = g[c]
    PROVE  \A c \in C : f[c] = g[c]
<1> DEFINE bad == {c \in C : f[c] # g[c]}
<1>1. SUFFICES ASSUME bad # {} PROVE FALSE
    OBVIOUS
<1>2. PICK c \in bad : \A d \in bad : h[c] <= h[d]
    BY <1>1, LeastHeight
<1>3. \A p \in C : h[p] < h[c] => f[p] = g[p]
    BY <1>2
<1> QED BY <1>2, <1>3
-----------------------------------------------------------------------------
(* Checks and orders.                                                      *)

\* Checks fail unless each of them is good.
LEMMA NoFault ==
    ASSUME NEW checks, DOMAIN checks \in SUBSET Nat
    PROVE  FirstFault(checks) = "ok" <=> \A i \in DOMAIN checks : checks[i] = "ok"
<1> DEFINE failed == {i \in DOMAIN checks : checks[i] # "ok"}
<1>1. CASE failed = {}
    BY <1>1 DEF FirstFault
<1>2. CASE failed # {}
  <2>1. failed \in SUBSET Nat
    OBVIOUS
  <2>2. \E m \in failed : \A n \in failed : m <= n
    <3> HIDE DEF failed
    <3> QED BY <1>2, <2>1, LeastNumber
  <2>3. Min(failed) \in failed
    BY <2>2 DEF Min
  <2>4. FirstFault(checks) = checks[Min(failed)]
    BY <1>2 DEF FirstFault
  <2> QED BY <2>3, <2>4
<1> QED BY <1>1, <1>2

\* InOrder rearranges a sequence, and so that the keys go up.
LEMMA InOrderPermutes ==
    ASSUME NEW T, NEW s \in Seq(T), NEW keys \in [DOMAIN s -> Nat]
    PROVE  \E p \in Bijection(DOMAIN s, DOMAIN s) :
               /\ InOrder(s, keys) = [n \in DOMAIN s |-> s[p[n]]]
               /\ \A m, n \in DOMAIN s : m < n => keys[p[m]] <= keys[p[n]]
<1> DEFINE D == DOMAIN s
           before(i) == {j \in D : keys[j] < keys[i] \/ (keys[j] = keys[i] /\ j < i)}
           p == [n \in D |-> CHOOSE i \in D : Cardinality(before(i)) = n - 1]
           rank == [i \in D |-> Cardinality(before(i)) + 1]
<1>1. Len(s) \in Nat /\ D = 1 .. Len(s) /\ IsFiniteSet(D) /\ Cardinality(D) = Len(s)
    BY FS_Interval
<1>2. ASSUME NEW i \in D
      PROVE  /\ IsFiniteSet(before(i)) /\ Cardinality(before(i)) \in Nat
             /\ Cardinality(before(i)) < Len(s)
  <2>3. before(i) \subseteq D \ {i}
    BY <1>1
  <2> HIDE DEF before, D
  <2>1. before(i) \subseteq D \ {i} /\ IsFiniteSet(D \ {i}) /\ Cardinality(D \ {i}) = Len(s) - 1
    BY <1>1, <2>3, FS_RemoveElement
  <2>2. IsFiniteSet(before(i)) /\ Cardinality(before(i)) <= Cardinality(D \ {i})
    BY <2>1, FS_Subset
  <2> QED BY <1>1, <2>1, <2>2, FS_CardinalityType
<1>3. ASSUME NEW i \in D, NEW j \in D, j \in before(i)
      PROVE  Cardinality(before(j)) < Cardinality(before(i))
  <2>1. before(j) \subseteq before(i) \ {j}
    BY <1>1, <1>3
  <2>2. IsFiniteSet(before(i)) /\ Cardinality(before(i)) \in Nat
    BY <1>2
  <2>3. j \in before(i)
    BY <1>3
  <2> HIDE DEF before, D
  <2>4. IsFiniteSet(before(i) \ {j}) /\ Cardinality(before(i) \ {j}) = Cardinality(before(i)) - 1
    BY <2>2, <2>3, FS_RemoveElement
  <2>5. Cardinality(before(j)) <= Cardinality(before(i) \ {j}) /\ Cardinality(before(j)) \in Nat
    BY <2>1, <2>4, FS_Subset, FS_CardinalityType
  <2> QED BY <2>2, <2>4, <2>5
<1>4. \A i, j \in D : i # j => j \in before(i) \/ i \in before(j)
    BY <1>1
<1>5. rank \in Injection(D, D)
  <2>1. ASSUME NEW i \in D PROVE Cardinality(before(i)) + 1 \in D
    <3> HIDE DEF before, D
    <3> QED BY <1>1, <1>2
  <2>2. ASSUME NEW i \in D, NEW j \in D, i # j
        PROVE Cardinality(before(i)) + 1 # Cardinality(before(j)) + 1
    <3> HIDE DEF before, D
    <3> QED BY <1>2, <1>3, <1>4, <2>2
  <2> HIDE DEF before, D
  <2> QED BY <2>1, <2>2 DEF Injection, IsInjective
<1> HIDE DEF D, before
<1>6. rank \in Surjection(D, D)
  <2> HIDE DEF rank
  <2> QED BY <1>1, <1>5, FS_Injection
<1>7. ASSUME NEW n \in D PROVE p[n] \in D /\ Cardinality(before(p[n])) = n - 1
  <2>1. PICK i \in D : rank[i] = n
    BY <1>6 DEF Surjection
  <2>2. Cardinality(before(i)) = n - 1
    BY <1>2, <2>1
  <2>3. \E k \in D : Cardinality(before(k)) = n - 1
    BY <2>2
  <2>4. /\ (CHOOSE k \in D : Cardinality(before(k)) = n - 1) \in D
        /\ Cardinality(before(CHOOSE k \in D : Cardinality(before(k)) = n - 1)) = n - 1
    BY <2>3, Zenon
  <2> QED BY <2>4
<1>8. InOrder(s, keys) = [n \in D |-> s[p[n]]]
    BY DEF InOrder, before, D
<1> HIDE DEF p
<1>9. p \in [D -> D]
    BY <1>7 DEF p
<1>10. p \in Injection(D, D)
  <2>1. ASSUME NEW m \in D, NEW n \in D, p[m] = p[n] PROVE m = n
    <3>1. m - 1 = n - 1
      BY <1>7, <2>1
    <3> QED BY <1>1, <3>1
  <2> QED BY <1>9, <2>1 DEF Injection, IsInjective
<1>11. p \in Bijection(D, D)
    BY <1>1, <1>10, FS_Injection DEF Bijection
<1>12. ASSUME NEW m \in D, NEW n \in D, m < n PROVE keys[p[m]] <= keys[p[n]]
  <2>1. p[m] \in D /\ p[n] \in D /\ ~(p[n] \in before(p[m]))
    BY <1>1, <1>3, <1>7, <1>12
  <2> QED BY <2>1 DEF before, D
<1> QED BY <1>8, <1>11, <1>12 DEF D

\* Sorted names are the same names.
LEMMA SortedNames ==
    ASSUME NEW names \in Seq(Nat)
    PROVE  /\ Sorted(names) \in Seq(Nat) /\ Len(Sorted(names)) = Len(names)
           /\ ToSet(Sorted(names)) = ToSet(names)
           /\ IsInjective(names) => IsInjective(Sorted(names))
<1>1. names \in [DOMAIN names -> Nat] /\ DOMAIN names = 1 .. Len(names) /\ Len(names) \in Nat
    OBVIOUS
<1>2. PICK p \in Bijection(DOMAIN names, DOMAIN names) :
              Sorted(names) = [n \in DOMAIN names |-> names[p[n]]]
    BY <1>1, InOrderPermutes DEF Sorted
<1>3. /\ p \in [DOMAIN names -> DOMAIN names]
      /\ \A i \in DOMAIN names : \E n \in DOMAIN names : p[n] = i
      /\ \A m, n \in DOMAIN names : p[m] = p[n] => m = n
    BY <1>2 DEF Bijection, Surjection, Injection, IsInjective
<1>4. Sorted(names) \in Seq(Nat) /\ Len(Sorted(names)) = Len(names)
  <2>1. Sorted(names) = [n \in 1 .. Len(names) |-> names[p[n]]]
    BY <1>1, <1>2
  <2>2. \A n \in 1 .. Len(names) : names[p[n]] \in Nat
    BY <1>1, <1>3
  <2> QED BY <1>1, <2>1, <2>2
<1>5. ToSet(Sorted(names)) = ToSet(names)
    BY <1>2, <1>3 DEF ToSet
<1>6. IsInjective(names) => IsInjective(Sorted(names))
    BY <1>2, <1>3 DEF IsInjective
<1> QED BY <1>4, <1>5, <1>6

\* The elements of a sequence can be put in one strict order only.
LEMMA OneOrder ==
    ASSUME NEW T, NEW key \in [T -> Nat], NEW s \in Seq(T), NEW t \in Seq(T),
           Len(s) = Len(t), ToSet(s) = ToSet(t),
           \A i, j \in DOMAIN s : i < j => key[s[i]] < key[s[j]],
           \A i, j \in DOMAIN t : i < j => key[t[i]] < key[t[j]]
    PROVE  s = t
<1> DEFINE D == 1 .. Len(s)
           differ == {i \in D : s[i] # t[i]}
<1>1. DOMAIN s = D /\ DOMAIN t = D /\ D \in SUBSET Nat
    OBVIOUS
<1>2. SUFFICES ASSUME differ # {} PROVE FALSE
    BY <1>1
<1>3. PICK i \in differ : \A j \in differ : i <= j
  <2>1. differ \in SUBSET Nat
    BY <1>1
  <2> HIDE DEF differ
  <2> QED BY <1>2, <2>1, LeastNumber
<1>4. \A j \in D : j < i => s[j] = t[j]
    BY <1>1, <1>3
<1>5. PICK j \in D : t[j] = s[i]
    BY <1>1, <1>3 DEF ToSet
<1>6. PICK k \in D : s[k] = t[i]
    BY <1>1, <1>3 DEF ToSet
<1>7. s[i] \in T /\ t[i] \in T /\ i \in D /\ s[i] # t[i]
    BY <1>1, <1>3
<1>8. i < j
  <2>1. j # i
    BY <1>5, <1>7
  <2>2. ~(j < i)
    <3>1. SUFFICES ASSUME j < i PROVE FALSE
      OBVIOUS
    <3>2. s[j] = s[i] /\ key[s[j]] < key[s[i]] /\ key[s[i]] \in Nat
      BY <1>1, <1>4, <1>5, <1>7, <3>1
    <3> QED BY <3>2
  <2> QED BY <1>1, <1>5, <1>7, <2>1, <2>2
<1>9. i < k
  <2>1. k # i
    BY <1>6, <1>7
  <2>2. ~(k < i)
    <3>1. SUFFICES ASSUME k < i PROVE FALSE
      OBVIOUS
    <3>2. t[k] = t[i] /\ key[t[k]] < key[t[i]] /\ key[t[i]] \in Nat
      BY <1>1, <1>4, <1>6, <1>7, <3>1
    <3> QED BY <3>2
  <2> QED BY <1>1, <1>6, <1>7, <2>1, <2>2
<1>10. key[t[i]] < key[s[i]] /\ key[s[i]] < key[t[i]]
    BY <1>1, <1>5, <1>6, <1>7, <1>8, <1>9
<1>11. key[s[i]] \in Nat /\ key[t[i]] \in Nat
    BY <1>7
<1> QED BY <1>10, <1>11
-----------------------------------------------------------------------------
(* Compilation.                                                            *)

\* All that compilePolicySet asks of a policy set.
Acceptable(set) ==
    /\ set.form = "ok"
    /\ \A i \in DOMAIN set.rules : RuleFault(set.rules[i], set.constants) = "ok"
    /\ \A i, j \in DOMAIN set.rules :
          set.rules[i].ruleId = set.rules[j].ruleId => i = j

CompiledRules(set) ==
    RuleOrder([i \in DOMAIN set.rules |-> compileRule(set.rules[i])])
CompiledSet(set) == [set EXCEPT !.rules = CompiledRules(set)]

\* Checks before and after those of a sequence.
LEMMA ChecksAround ==
    ASSUME NEW X, NEW a \in X, NEW s \in Seq(X), NEW b \in X
    PROVE  FirstFault(<<a>> \o s \o <<b>>) = "ok"
              <=> a = "ok" /\ b = "ok" /\ \A i \in DOMAIN s : s[i] = "ok"
<1> DEFINE checks == <<a>> \o s \o <<b>>
<1>1. /\ Len(s) \in Nat /\ DOMAIN s = 1 .. Len(s)
      /\ checks \in Seq(X) /\ Len(checks) = Len(s) + 2
      /\ checks[1] = a /\ checks[Len(s) + 2] = b
      /\ \A i \in 1 .. Len(s) : checks[i + 1] = s[i]
    OBVIOUS
<1>2. DOMAIN checks = 1 .. Len(s) + 2 /\ DOMAIN checks \in SUBSET Nat
    BY <1>1
<1> HIDE DEF checks
<1>3. FirstFault(checks) = "ok" <=> \A i \in DOMAIN checks : checks[i] = "ok"
    BY <1>2, NoFault
<1>4. ASSUME a = "ok", b = "ok", \A i \in DOMAIN s : s[i] = "ok", NEW i \in DOMAIN checks
      PROVE  checks[i] = "ok"
  <2>1. i = 1 \/ i = Len(s) + 2 \/ (i - 1 \in 1 .. Len(s) /\ i = (i - 1) + 1)
    BY <1>1, <1>2
  <2> QED BY <1>1, <1>4, <2>1
<1>5. ASSUME \A i \in DOMAIN checks : checks[i] = "ok"
      PROVE  a = "ok" /\ b = "ok" /\ \A i \in DOMAIN s : s[i] = "ok"
  <2>1. 1 \in DOMAIN checks /\ Len(s) + 2 \in DOMAIN checks
        /\ \A i \in DOMAIN s : i + 1 \in DOMAIN checks
    BY <1>1, <1>2
  <2> QED BY <1>1, <1>5, <2>1
<1>6. FirstFault(checks) = "ok"
          <=> a = "ok" /\ b = "ok" /\ \A i \in DOMAIN s : s[i] = "ok"
    BY <1>3, <1>4, <1>5
<1> QED BY <1>6 DEF checks

\* What is acceptable is compiled, and nothing else.
LEMMA Compiles ==
    ASSUME NEW set, PolicySetType(set)
    PROVE  /\ compilePolicySet(set).ok <=> Acceptable(set)
           /\ Acceptable(set) =>
                 compilePolicySet(set) = [ok |-> TRUE, value |-> CompiledSet(set),
                                          sha256 |-> hashPolicyValue(CompiledSet(set))]
<1> DEFINE ids == [i \in DOMAIN set.rules |-> set.rules[i].ruleId]
           unique == Unless(IsInjective(ids), "INVALID_POLICY_SET")
           faults == [i \in DOMAIN set.rules |-> RuleFault(set.rules[i], set.constants)]
           fault == FirstFault(<<set.form>> \o faults \o <<unique>>)
           X == {set.form, unique} \cup {faults[i] : i \in DOMAIN set.rules}
<1>1. set.rules \in Seq(Rules) /\ DOMAIN set.rules = 1 .. Len(set.rules)
      /\ Len(set.rules) \in Nat
    BY DEF PolicySetType
<1>2. faults \in Seq(X) /\ DOMAIN faults = DOMAIN set.rules
    BY <1>1
<1>3. set.form \in X /\ unique \in X
    OBVIOUS
<1> HIDE DEF X
<1>4. unique = "ok" <=> IsInjective(ids)
    BY DEF Unless
<1>5. IsInjective(ids) <=> \A i, j \in DOMAIN set.rules :
                               set.rules[i].ruleId = set.rules[j].ruleId => i = j
    BY DEF IsInjective
<1>6. fault = "ok" <=> set.form = "ok" /\ unique = "ok"
                         /\ \A i \in DOMAIN faults : faults[i] = "ok"
  <2> HIDE DEF unique, faults
  <2> QED BY <1>2, <1>3, ChecksAround
<1>7. fault = "ok" <=> Acceptable(set)
  <2> HIDE DEF unique, ids
  <2>1. \A i \in DOMAIN set.rules : faults[i] = RuleFault(set.rules[i], set.constants)
    OBVIOUS
  <2> HIDE DEF faults
  <2> QED BY <1>2, <1>4, <1>5, <1>6, <2>1 DEF Acceptable
<1>8. compilePolicySet(set) =
          IF fault # "ok" THEN [ok |-> FALSE, code |-> fault]
          ELSE [ok |-> TRUE, value |-> CompiledSet(set),
                sha256 |-> hashPolicyValue(CompiledSet(set))]
    BY DEF compilePolicySet, CompiledSet, CompiledRules
<1> HIDE DEF fault
<1> QED BY <1>7, <1>8 DEF Acceptable

\* A rule that is compiled says the same.
LEMMA CompiledRule ==
    ASSUME NEW r \in Rules
    PROVE  /\ compileRule(r) \in Rules
           /\ compileRule(r).ruleId = r.ruleId /\ compileRule(r).when = r.when
           /\ compileRule(r).domain = r.domain /\ compileRule(r).action = r.action
           /\ ToSet(compileRule(r).subjectTypes) = ToSet(r.subjectTypes)
           /\ ToSet(compileRule(r).resourceTypes) = ToSet(r.resourceTypes)
           /\ compileRule(r).ruleEffect = r.ruleEffect
           /\ compileRule(r).reasonCode = r.reasonCode
           /\ compileRule(r).requirements \in Requirements
           /\ ScopesOf(compileRule(r).requirements) = ScopesOf(r.requirements)
           /\ compileRule(r).requirements.minimumIsolationLevel
                 = r.requirements.minimumIsolationLevel
           /\ compileRule(r).requirements.timeoutMs = r.requirements.timeoutMs
           /\ compileRule(r).requirements.maxConcurrency = r.requirements.maxConcurrency
           /\ compileRule(r).requirements.postVerificationRequired
                 = r.requirements.postVerificationRequired
<1> DEFINE q == r.requirements
           old == q.permissionScopes
           scopes == IF old = None THEN None ELSE Sorted(old)
           q2 == [q EXCEPT !.permissionScopes = scopes]
<1>1. r.subjectTypes \in Seq(Nat) /\ r.resourceTypes \in Seq(Nat) /\ q \in Requirements
    BY DEF Rules
<1>2. old \in Seq(Nat) \cup {None}
    BY <1>1 DEF Requirements, Optional
<1>3. None \notin Seq(Nat)
    BY ValuesAssumption
<1>4. /\ scopes \in Optional(Seq(Nat))
      /\ (IF scopes = None THEN {} ELSE ToSet(scopes))
            = (IF old = None THEN {} ELSE ToSet(old))
  <2>1. CASE old = None
    BY <2>1 DEF Optional
  <2>2. CASE old # None
    <3>1. old \in Seq(Nat)
      BY <1>2, <2>2
    <3>2. Sorted(old) \in Seq(Nat) /\ ToSet(Sorted(old)) = ToSet(old)
      BY <3>1, SortedNames
    <3> QED BY <1>3, <2>2, <3>2 DEF Optional
  <2> QED BY <2>1, <2>2
<1> HIDE DEF scopes
<1>5. q2 \in Requirements /\ q2.permissionScopes = scopes
      /\ q2.minimumIsolationLevel = q.minimumIsolationLevel
      /\ q2.timeoutMs = q.timeoutMs /\ q2.maxConcurrency = q.maxConcurrency
      /\ q2.postVerificationRequired = q.postVerificationRequired
    BY <1>1, <1>4 DEF Requirements
<1>6. compileRule(r) = [r EXCEPT !.subjectTypes = Sorted(@), !.resourceTypes = Sorted(@),
                                 !.requirements = q2]
    BY <1>1 DEF compileRule, scopes, Rules, Requirements
<1>7. Sorted(r.subjectTypes) \in Seq(Nat) /\ Sorted(r.resourceTypes) \in Seq(Nat)
      /\ ToSet(Sorted(r.subjectTypes)) = ToSet(r.subjectTypes)
      /\ ToSet(Sorted(r.resourceTypes)) = ToSet(r.resourceTypes)
    BY <1>1, SortedNames
<1>8. ScopesOf(q2) = ScopesOf(q)
    BY <1>4, <1>5 DEF ScopesOf
<1> HIDE DEF q2, q
<1>9. compileRule(r) \in Rules
    BY <1>5, <1>6, <1>7 DEF Rules
<1>10. /\ compileRule(r).ruleId = r.ruleId /\ compileRule(r).when = r.when
       /\ compileRule(r).domain = r.domain /\ compileRule(r).action = r.action
       /\ compileRule(r).subjectTypes = Sorted(r.subjectTypes)
       /\ compileRule(r).resourceTypes = Sorted(r.resourceTypes)
       /\ compileRule(r).ruleEffect = r.ruleEffect
       /\ compileRule(r).reasonCode = r.reasonCode
       /\ compileRule(r).requirements = q2
    BY <1>6 DEF Rules
<1>11. q = r.requirements
    BY DEF q
<1> QED BY <1>5, <1>7, <1>8, <1>9, <1>10, <1>11

\* The compiled rules are those of the set, by their ids.
LEMMA CompiledOrder ==
    ASSUME NEW set, PolicySetType(set)
    PROVE  \E p \in Bijection(DOMAIN set.rules, DOMAIN set.rules) :
              /\ CompiledRules(set) = [n \in DOMAIN set.rules |->
                                           compileRule(set.rules[p[n]])]
              /\ \A m, n \in DOMAIN set.rules :
                    m < n => set.rules[p[m]].ruleId <= set.rules[p[n]].ruleId
<1> DEFINE rules == [i \in DOMAIN set.rules |-> compileRule(set.rules[i])]
           ids == [i \in DOMAIN rules |-> rules[i].ruleId]
<1>1. set.rules \in Seq(Rules) /\ DOMAIN set.rules = 1 .. Len(set.rules)
      /\ Len(set.rules) \in Nat
    BY DEF PolicySetType
<1>2. ASSUME NEW i \in DOMAIN set.rules
      PROVE  /\ compileRule(set.rules[i]) \in Rules
             /\ compileRule(set.rules[i]).ruleId = set.rules[i].ruleId
             /\ set.rules[i].ruleId \in Nat
  <2>1. set.rules[i] \in Rules
    BY <1>1
  <2> QED BY <2>1, CompiledRule DEF Rules
<1>3. rules \in Seq(Rules) /\ DOMAIN rules = DOMAIN set.rules
    BY <1>1, <1>2
<1>4. ids \in [DOMAIN rules -> Nat] /\ \A i \in DOMAIN rules : ids[i] = set.rules[i].ruleId
    BY <1>2, <1>3
<1>5. CompiledRules(set) = InOrder(rules, ids)
    BY DEF CompiledRules, RuleOrder
<1>6. \A i \in DOMAIN set.rules : rules[i] = compileRule(set.rules[i])
    OBVIOUS
<1> HIDE DEF rules, ids
<1>7. PICK p \in Bijection(DOMAIN rules, DOMAIN rules) :
          /\ InOrder(rules, ids) = [n \in DOMAIN rules |-> rules[p[n]]]
          /\ \A m, n \in DOMAIN rules : m < n => ids[p[m]] <= ids[p[n]]
    BY <1>3, <1>4, InOrderPermutes
<1>8. \A n \in DOMAIN set.rules : p[n] \in DOMAIN set.rules
    BY <1>3, <1>7 DEF Bijection, Injection
<1>9. CompiledRules(set) = [n \in DOMAIN set.rules |-> compileRule(set.rules[p[n]])]
    BY <1>3, <1>5, <1>6, <1>7, <1>8
<1>10. ASSUME NEW m \in DOMAIN set.rules, NEW n \in DOMAIN set.rules, m < n
       PROVE  set.rules[p[m]].ruleId <= set.rules[p[n]].ruleId
  <2>1. ids[p[m]] <= ids[p[n]]
    BY <1>3, <1>7, <1>10
  <2>2. ids[p[m]] = set.rules[p[m]].ruleId /\ ids[p[n]] = set.rules[p[n]].ruleId
    BY <1>3, <1>4, <1>8
  <2> QED BY <2>1, <2>2
<1> QED BY <1>3, <1>7, <1>9, <1>10

\* A compiled policy set is a policy set.
LEMMA CompiledType ==
    ASSUME NEW set, PolicySetType(set)
    PROVE  CompiledRules(set) \in Seq(Rules) /\ PolicySetType(CompiledSet(set))
<1> DEFINE rules == CompiledRules(set)
<1>1. /\ set.rules \in Seq(Rules) /\ DOMAIN set.rules = 1 .. Len(set.rules)
      /\ Len(set.rules) \in Nat
    BY DEF PolicySetType
<1>2. PICK p \in Bijection(DOMAIN set.rules, DOMAIN set.rules) :
          rules = [n \in DOMAIN set.rules |-> compileRule(set.rules[p[n]])]
    BY CompiledOrder
<1>3. ASSUME NEW n \in DOMAIN set.rules PROVE compileRule(set.rules[p[n]]) \in Rules
  <2>1. p[n] \in DOMAIN set.rules
    BY <1>2 DEF Bijection, Injection
  <2>2. set.rules[p[n]] \in Rules
    BY <1>1, <2>1
  <2> QED BY <2>2, CompiledRule
<1> HIDE DEF rules
<1>4. rules \in Seq(Rules)
    BY <1>1, <1>2, <1>3
<1>5. PolicySetType(CompiledSet(set))
    BY <1>4 DEF PolicySetType, CompiledSet, rules
<1> QED BY <1>4, <1>5 DEF rules

\* A list of the same rules has the same rules at other places.
LEMMA Reordered ==
    ASSUME NEW set, PolicySetType(set), NEW order \in Orders(set.rules)
    PROVE  \E p \in Bijection(DOMAIN set.rules, DOMAIN set.rules) :
              /\ order = [i \in DOMAIN set.rules |-> set.rules[p[i]]]
              /\ order \in Seq(Rules) /\ DOMAIN order = DOMAIN set.rules
              /\ Len(order) = Len(set.rules)
              /\ PolicySetType([set EXCEPT !.rules = order])
<1> DEFINE D == DOMAIN set.rules
<1>1. set.rules \in Seq(Rules) /\ D = 1 .. Len(set.rules) /\ Len(set.rules) \in Nat
    BY DEF PolicySetType
<1>2. PICK p \in Injection(D, D) : order = [i \in D |-> set.rules[p[i]]]
    BY DEF Orders
<1>3. p \in Bijection(D, D)
  <2>1. IsFiniteSet(D)
    BY <1>1, FS_Interval
  <2> HIDE DEF D
  <2>2. p \in Surjection(D, D)
    BY <1>2, <2>1, FS_Injection
  <2> QED BY <1>2, <2>2 DEF Bijection
<1>4. \A i \in D : p[i] \in D /\ set.rules[p[i]] \in Rules
    BY <1>1, <1>3 DEF Bijection, Injection
<1>5. order \in Seq(Rules) /\ DOMAIN order = D /\ Len(order) = Len(set.rules)
    BY <1>1, <1>2, <1>4
<1>6. PolicySetType([set EXCEPT !.rules = order])
    BY <1>5 DEF PolicySetType
<1> QED BY <1>2, <1>3, <1>5, <1>6

\* The order of the rules changes neither whether a policy set is compiled nor
\* what it is compiled to.
LEMMA OrderOfSource ==
    ASSUME NEW set, PolicySetType(set), NEW order \in Orders(set.rules)
    PROVE  LET other == [set EXCEPT !.rules = order]
           IN  /\ PolicySetType(other)
               /\ compilePolicySet(other).ok <=> compilePolicySet(set).ok
               /\ compilePolicySet(set).ok => compilePolicySet(other) = compilePolicySet(set)
<1> DEFINE other == [set EXCEPT !.rules = order]
           D == DOMAIN set.rules
           key == [r \in Rules |-> r.ruleId]
<1>1. PICK p \in Bijection(D, D) :
              /\ order = [i \in D |-> set.rules[p[i]]]
              /\ order \in Seq(Rules) /\ DOMAIN order = D /\ Len(order) = Len(set.rules)
              /\ PolicySetType(other)
    BY Reordered
<1>2. /\ p \in [D -> D] /\ \A i \in D : \E n \in D : p[n] = i
      /\ \A m, n \in D : p[m] = p[n] => m = n
    BY <1>1 DEF Bijection, Surjection, Injection, IsInjective
<1>3. /\ other.rules = order /\ other.constants = set.constants /\ other.form = set.form
      /\ set.rules \in Seq(Rules) /\ D = 1 .. Len(set.rules) /\ Len(set.rules) \in Nat
    BY DEF PolicySetType
<1>10. /\ other.policySetId = set.policySetId /\ other.version = set.version
       /\ [other EXCEPT !.rules = CompiledRules(set)] = [set EXCEPT !.rules = CompiledRules(set)]
    BY DEF PolicySetType
<1>11. DOMAIN other.rules = D
    BY <1>1, <1>3
<1>4. \A i \in D : order[i] = set.rules[p[i]]
    BY <1>1
<1> HIDE DEF other
<1>5. Acceptable(other) <=> Acceptable(set)
  <2>1. (\A i \in D : RuleFault(order[i], set.constants) = "ok")
        <=> \A i \in D : RuleFault(set.rules[i], set.constants) = "ok"
    BY <1>2, <1>4
  <2>2. (\A i, j \in D : order[i].ruleId = order[j].ruleId => i = j)
        <=> \A i, j \in D : set.rules[i].ruleId = set.rules[j].ruleId => i = j
    BY <1>2, <1>4
  <2>3. Acceptable(other) <=>
            /\ set.form = "ok"
            /\ \A i \in D : RuleFault(order[i], set.constants) = "ok"
            /\ \A i, j \in D : order[i].ruleId = order[j].ruleId => i = j
    BY <1>3, <1>11 DEF Acceptable
  <2> QED BY <2>1, <2>2, <2>3 DEF Acceptable
<1>6. compilePolicySet(other).ok <=> compilePolicySet(set).ok
    BY <1>1, <1>5, Compiles
<1>7. ASSUME Acceptable(set) PROVE CompiledRules(other) = CompiledRules(set)
  <2>1. PICK q \in Bijection(D, D) :
              /\ CompiledRules(set) = [n \in D |-> compileRule(set.rules[q[n]])]
              /\ \A m, n \in D : m < n => set.rules[q[m]].ruleId <= set.rules[q[n]].ruleId
    BY CompiledOrder
  <2>2. PICK s \in Bijection(D, D) :
              /\ CompiledRules(other) = [n \in D |-> compileRule(order[s[n]])]
              /\ \A m, n \in D : m < n => order[s[m]].ruleId <= order[s[n]].ruleId
    <3>1. \E s \in Bijection(DOMAIN other.rules, DOMAIN other.rules) :
              /\ CompiledRules(other) = [n \in DOMAIN other.rules |->
                                             compileRule(other.rules[s[n]])]
              /\ \A m, n \in DOMAIN other.rules :
                    m < n => other.rules[s[m]].ruleId <= other.rules[s[n]].ruleId
      BY <1>1, CompiledOrder
    <3> QED BY <1>3, <1>11, <3>1
  <2>3. /\ q \in [D -> D] /\ \A i \in D : \E n \in D : q[n] = i
        /\ \A m, n \in D : q[m] = q[n] => m = n
    BY <2>1 DEF Bijection, Surjection, Injection, IsInjective
  <2>4. /\ s \in [D -> D] /\ \A i \in D : \E n \in D : s[n] = i
        /\ \A m, n \in D : s[m] = s[n] => m = n
    BY <2>2 DEF Bijection, Surjection, Injection, IsInjective
  <2>5. ASSUME NEW i \in D
        PROVE  /\ compileRule(set.rules[i]) \in Rules
               /\ compileRule(set.rules[i]).ruleId = set.rules[i].ruleId
               /\ set.rules[i].ruleId \in Nat
    <3>1. set.rules[i] \in Rules
      BY <1>3
    <3> QED BY <3>1, CompiledRule DEF Rules
  <2>6. \A i, j \in D : set.rules[i].ruleId = set.rules[j].ruleId => i = j
    BY <1>7 DEF Acceptable
  <2> DEFINE one == CompiledRules(set)
             two == CompiledRules(other)
  <2>7. one \in Seq(Rules) /\ DOMAIN one = D /\ Len(one) = Len(set.rules)
    <3>1. \A n \in D : compileRule(set.rules[q[n]]) \in Rules
      BY <2>3, <2>5
    <3> QED BY <1>3, <2>1, <3>1
  <2>8. two \in Seq(Rules) /\ DOMAIN two = D /\ Len(two) = Len(set.rules)
    <3>1. \A n \in D : compileRule(order[s[n]]) \in Rules
      BY <1>2, <1>4, <2>4, <2>5
    <3> QED BY <1>3, <2>2, <3>1
  <2>9. ToSet(one) = {compileRule(set.rules[i]) : i \in D}
    BY <2>1, <2>3 DEF ToSet
  <2>10. ToSet(two) = {compileRule(set.rules[i]) : i \in D}
    <3>1. ToSet(two) = {compileRule(order[i]) : i \in D}
      BY <2>2, <2>4 DEF ToSet
    <3> QED BY <1>2, <1>4, <3>1
  <2>11. ASSUME NEW i \in D, NEW j \in D, i < j PROVE key[one[i]] < key[one[j]]
    <3>1. /\ one[i] = compileRule(set.rules[q[i]]) /\ one[j] = compileRule(set.rules[q[j]])
          /\ q[i] \in D /\ q[j] \in D /\ q[i] # q[j]
      <4>1. i # j
        BY <1>3, <2>11
      <4> QED BY <2>1, <2>3, <4>1
    <3>2. set.rules[q[i]].ruleId <= set.rules[q[j]].ruleId
          /\ set.rules[q[i]].ruleId # set.rules[q[j]].ruleId
      BY <2>1, <2>6, <2>11, <3>1
    <3> QED BY <2>5, <3>1, <3>2
  <2>12. ASSUME NEW i \in D, NEW j \in D, i < j PROVE key[two[i]] < key[two[j]]
    <3>1. /\ two[i] = compileRule(set.rules[p[s[i]]])
          /\ two[j] = compileRule(set.rules[p[s[j]]])
          /\ p[s[i]] \in D /\ p[s[j]] \in D /\ p[s[i]] # p[s[j]]
      <4>1. i # j
        BY <1>3, <2>12
      <4>2. s[i] \in D /\ s[j] \in D /\ s[i] # s[j]
        BY <2>4, <4>1
      <4>3. p[s[i]] \in D /\ p[s[j]] \in D /\ p[s[i]] # p[s[j]]
        BY <1>2, <4>2
      <4>4. two[i] = compileRule(order[s[i]]) /\ two[j] = compileRule(order[s[j]])
        BY <2>2
      <4> QED BY <1>4, <4>2, <4>3, <4>4
    <3>2. set.rules[p[s[i]]].ruleId <= set.rules[p[s[j]]].ruleId
          /\ set.rules[p[s[i]]].ruleId # set.rules[p[s[j]]].ruleId
      <4>1. order[s[i]].ruleId <= order[s[j]].ruleId /\ s[i] \in D /\ s[j] \in D
        BY <2>2, <2>4, <2>12
      <4> QED BY <1>4, <2>6, <3>1, <4>1
    <3> QED BY <2>5, <3>1, <3>2
  <2>13. key \in [Rules -> Nat]
    BY DEF Rules
  <2> HIDE DEF key, one, two
  <2>14. one = two
    BY <2>7, <2>8, <2>9, <2>10, <2>11, <2>12, <2>13, OneOrder
  <2> QED BY <2>14 DEF one, two
<1>8. ASSUME Acceptable(set) PROVE compilePolicySet(other) = compilePolicySet(set)
  <2>1. CompiledSet(other) = CompiledSet(set)
    BY <1>7, <1>8, <1>10 DEF CompiledSet
  <2> QED BY <1>1, <1>5, <1>8, <2>1, Compiles
<1>9. compilePolicySet(set).ok <=> Acceptable(set)
    BY Compiles
<1> QED BY <1>1, <1>6, <1>8, <1>9 DEF other
-----------------------------------------------------------------------------
(* Conditions.                                                             *)

\* The parts of a condition are conditions of less height.
LEMMA PartsBelow ==
    ASSUME NEW c \in Conditions
    PROVE  /\ Height \in [Conditions -> Nat]
           /\ \A part \in Parts(c) : part \in Conditions /\ Height[part] < Height[c]
           /\ c.operator = "not" => Parts(c) = {c.condition}
    BY ConditionsAssumption DEF Parts

Outcomes == [ok : BOOLEAN, matched : BOOLEAN]

\* evaluateCondition calls itself on the parts of a condition, and returns.
LEMMA Evaluation ==
    ASSUME NEW in, NEW constants
    PROVE  LET result == evaluateCondition(in, constants)
           IN  /\ result \in [Conditions -> Outcomes]
               /\ \A c \in Conditions : result[c] =
                    IF c.operator \in {"all", "any"}
                    THEN Combine(c.operator, {result[part] : part \in Parts(c)})
                    ELSE IF c.operator = "not"
                    THEN [ok |-> result[c.condition].ok,
                          matched |-> result[c.condition].ok
                                        /\ ~result[c.condition].matched]
                    ELSE LET actual == referencedValue(c, in, constants)
                         IN  IF actual # None /\ Typed(c.operator, actual, c.operand)
                             THEN Match(Holds(c.operator, actual, c.operand))
                             ELSE Mismatch
<1> DEFINE Body(f, c) ==
               IF c.operator \in {"all", "any"}
               THEN Combine(c.operator, {f[part] : part \in Parts(c)})
               ELSE IF c.operator = "not"
               THEN [ok |-> f[c.condition].ok,
                     matched |-> f[c.condition].ok /\ ~f[c.condition].matched]
               ELSE LET actual == referencedValue(c, in, constants)
                    IN  IF actual # None /\ Typed(c.operator, actual, c.operand)
                        THEN Match(Holds(c.operator, actual, c.operand))
                        ELSE Mismatch
           H(f) == [c \in Conditions |-> Body(f, c)]
           F == [Conditions -> Outcomes]
           step == [f \in F |-> H(f)]
<1>1. evaluateCondition(in, constants) = CHOOSE f : f = H(f)
    BY Zenon DEF evaluateCondition
<1>2. ASSUME NEW f \in F, NEW c \in Conditions PROVE Body(f, c) \in Outcomes
  <2>1. CASE c.operator \in {"all", "any"}
    <3> DEFINE results == {f[part] : part \in Parts(c)}
               b == IF c.operator = "all" THEN Match(FALSE) \notin results
                    ELSE Match(TRUE) \in results
    <3>2. b \in BOOLEAN
      <4>1. CASE c.operator = "all"
        BY <4>1
      <4>2. CASE c.operator # "all"
        BY <4>2
      <4> QED BY <4>1, <4>2
    <3>3. Combine(c.operator, results) \in {Mismatch, Match(b)}
        BY DEF Combine
    <3> HIDE DEF b
    <3>4. Mismatch \in Outcomes /\ Match(b) \in Outcomes
        BY <3>2 DEF Mismatch, Match, Outcomes
    <3>1. Combine(c.operator, results) \in Outcomes
        BY <3>3, <3>4
    <3> QED BY <2>1, <3>1
  <2>2. CASE c.operator = "not"
    <3>1. f[c.condition] \in Outcomes
        BY <2>2, PartsBelow
    <3> HIDE DEF F
    <3>2. f[c.condition].ok \in BOOLEAN /\ f[c.condition].matched \in BOOLEAN
        BY <3>1 DEF Outcomes
    <3> DEFINE b == f[c.condition].ok /\ ~f[c.condition].matched
    <3>3. b \in BOOLEAN
        BY <3>2, Zenon
    <3>4. Body(f, c) = [ok |-> f[c.condition].ok, matched |-> b]
        BY <2>2, Zenon
    <3> HIDE DEF Body, b
    <3> QED BY <3>2, <3>3, <3>4 DEF Outcomes
  <2>3. CASE c.operator \notin {"all", "any", "not"}
    <3> DEFINE v == referencedValue(c, in, constants)
               h == Holds(c.operator, v, c.operand)
    <3>1. h \in BOOLEAN
        BY Zenon DEF Holds
    <3> HIDE DEF h
    <3>2. Match(h) \in Outcomes /\ Mismatch \in Outcomes
        BY <3>1 DEF Match, Mismatch, Outcomes
    <3>3. Body(f, c) \in {Match(h), Mismatch}
        BY <2>3, Zenon DEF h
    <3> HIDE DEF Body
    <3> QED BY <3>2, <3>3
  <2> HIDE DEF Body
  <2> QED BY <2>1, <2>2, <2>3
<1>3. ASSUME NEW f, NEW g, NEW c \in Conditions,
             \A p \in Conditions : Height[p] < Height[c] => f[p] = g[p]
      PROVE  Body(f, c) = Body(g, c)
  <2>1. \A part \in Parts(c) : f[part] = g[part]
    BY <1>3, PartsBelow
  <2>2. {f[part] : part \in Parts(c)} = {g[part] : part \in Parts(c)}
    BY <2>1
  <2>3. c.operator = "not" => f[c.condition] = g[c.condition]
    BY <2>1, PartsBelow
  <2> QED BY <2>2, <2>3, Zenon
<1> HIDE DEF Body
<1>4. step \in [F -> F]
    BY <1>2
<1>5. \A f \in F : step[f] = H(f)
    OBVIOUS
<1>6. ASSUME NEW f \in F, NEW g \in F, NEW c \in Conditions,
             \A p \in Conditions : Height[p] < Height[c] => f[p] = g[p]
      PROVE  step[f][c] = step[g][c]
    BY <1>3, <1>6
<1>7. [c \in Conditions |-> Mismatch] \in F
    BY DEF Mismatch, Outcomes
<1>8. Height \in [Conditions -> Nat]
    BY ConditionsAssumption
<1> HIDE DEF step
<1>16. \A f, g \in F : \A c \in Conditions :
          (\A p \in Conditions : Height[p] < Height[c] => f[p] = g[p])
              => step[f][c] = step[g][c]
    BY <1>6
<1>9. \E f \in F : f = step[f]
  <2>1. LooksBelow(Conditions, Outcomes, Height, step)
    BY <1>4, <1>7, <1>8, <1>16 DEF LooksBelow
  <2> QED BY <2>1, Recursion
<1>10. PICK known \in F : known = H(known)
    BY <1>5, <1>9
<1> DEFINE result == evaluateCondition(in, constants)
<1>11. result = H(result)
    BY <1>1, <1>10, Zenon
<1> HIDE DEF result
<1>12. \A c \in Conditions : result[c] = Body(result, c)
    BY <1>11
<1>13. ASSUME NEW c \in Conditions,
              \A p \in Conditions : Height[p] < Height[c] => result[p] = known[p]
       PROVE  result[c] = known[c]
    BY <1>3, <1>10, <1>12, <1>13
<1>14. \A c \in Conditions : result[c] = known[c]
    BY <1>8, <1>13, SameFunction
<1>15. result \in F
  <2> HIDE DEF F
  <2>1. \A c \in Conditions : Body(result, c) = known[c]
    BY <1>12, <1>14
  <2>2. result = [c \in Conditions |-> known[c]]
    BY <1>11, <2>1
  <2> QED BY <2>2 DEF F
<1> QED BY <1>12, <1>15 DEF result, Body

\* The leaves of a condition are those of its parts.
LEMMA LeavesEquation ==
    \A c \in Conditions : LeavesOf[c] = IF Parts(c) = {} THEN {c}
                                       ELSE UNION {LeavesOf[part] : part \in Parts(c)}
<1> DEFINE Body(f, c) == IF Parts(c) = {} THEN {c}
                         ELSE UNION {f[part] : part \in Parts(c)}
           H(f) == [c \in Conditions |-> Body(f, c)]
           R == SUBSET Conditions
           F == [Conditions -> R]
           step == [f \in F |-> H(f)]
<1>1. LeavesOf = CHOOSE f : f = H(f)
    BY Zenon DEF LeavesOf
<1>2. ASSUME NEW f \in F, NEW c \in Conditions PROVE Body(f, c) \in R
    BY PartsBelow
<1>3. ASSUME NEW f, NEW g, NEW c \in Conditions,
             \A p \in Conditions : Height[p] < Height[c] => f[p] = g[p]
      PROVE  Body(f, c) = Body(g, c)
  <2>1. \A part \in Parts(c) : f[part] = g[part]
    BY <1>3, PartsBelow
  <2>2. {f[part] : part \in Parts(c)} = {g[part] : part \in Parts(c)}
    BY <2>1
  <2> QED BY <2>2, Zenon
<1> HIDE DEF Body, R
<1>4. step \in [F -> F]
    BY <1>2
<1>5. \A f \in F : step[f] = H(f)
    OBVIOUS
<1>6. \A f, g \in F : \A c \in Conditions :
          (\A p \in Conditions : Height[p] < Height[c] => f[p] = g[p])
              => step[f][c] = step[g][c]
    BY <1>3
<1>7. [c \in Conditions |-> {}] \in F
    BY DEF R
<1> HIDE DEF step
<1>8. LooksBelow(Conditions, R, Height, step)
    BY <1>4, <1>6, <1>7, ConditionsAssumption DEF LooksBelow
<1>9. \E f \in F : f = step[f]
    BY <1>8, Recursion
<1>10. \E f : f = H(f)
    BY <1>5, <1>9
<1> HIDE DEF H
<1>11. LeavesOf = H(LeavesOf)
    BY <1>1, <1>10, Zenon
<1> QED BY <1>11 DEF H, Body

\* Whether a condition is satisfied follows from its parts.
LEMMA SatisfiedEquation ==
    ASSUME NEW in, NEW constants
    PROVE  LET satisfied == Satisfied(in, constants)
           IN  \A c \in Conditions : satisfied[c] =
                 IF c.operator = "all" THEN \A part \in Parts(c) : satisfied[part]
                 ELSE IF c.operator = "any" THEN \E part \in Parts(c) : satisfied[part]
                 ELSE IF c.operator = "not" THEN ~satisfied[c.condition]
                 ELSE Holds(c.operator, referencedValue(c, in, constants), c.operand)
<1> DEFINE leaf(c) == Holds(c.operator, referencedValue(c, in, constants), c.operand)
           Body(f, c) == IF c.operator = "all" THEN \A part \in Parts(c) : f[part]
                         ELSE IF c.operator = "any" THEN \E part \in Parts(c) : f[part]
                         ELSE IF c.operator = "not" THEN ~f[c.condition]
                         ELSE leaf(c)
           H(f) == [c \in Conditions |-> Body(f, c)]
           F == [Conditions -> BOOLEAN]
           step == [f \in F |-> H(f)]
<1>1. Satisfied(in, constants) = CHOOSE f : f = H(f)
    BY Zenon DEF Satisfied
<1>2. ASSUME NEW f \in F, NEW c \in Conditions PROVE Body(f, c) \in BOOLEAN
  <2>1. leaf(c) \in BOOLEAN
    BY Zenon DEF Holds
  <2> HIDE DEF leaf
  <2>2. CASE c.operator = "all"
    BY <2>2, Zenon
  <2>3. CASE c.operator = "any"
    BY <2>3, Zenon
  <2>4. CASE c.operator = "not"
    BY <2>4, Zenon
  <2>5. CASE c.operator \notin {"all", "any", "not"}
    BY <2>1, <2>5
  <2> HIDE DEF Body
  <2> QED BY <2>2, <2>3, <2>4, <2>5
<1> HIDE DEF leaf
<1>3. ASSUME NEW f, NEW g, NEW c \in Conditions,
             \A p \in Conditions : Height[p] < Height[c] => f[p] = g[p]
      PROVE  Body(f, c) = Body(g, c)
  <2>1. \A part \in Parts(c) : f[part] = g[part]
    BY <1>3, PartsBelow
  <2>2. c.operator = "not" => f[c.condition] = g[c.condition]
    BY <2>1, PartsBelow
  <2>3. (\A part \in Parts(c) : f[part]) = (\A part \in Parts(c) : g[part])
    BY <2>1, Zenon
  <2>4. (\E part \in Parts(c) : f[part]) = (\E part \in Parts(c) : g[part])
    BY <2>1, Zenon
  <2> QED BY <2>2, <2>3, <2>4, Zenon
<1> HIDE DEF Body
<1>4. step \in [F -> F]
    BY <1>2
<1>5. \A f \in F : step[f] = H(f)
    OBVIOUS
<1>6. \A f, g \in F : \A c \in Conditions :
          (\A p \in Conditions : Height[p] < Height[c] => f[p] = g[p])
              => step[f][c] = step[g][c]
    BY <1>3
<1>7. [c \in Conditions |-> TRUE] \in F
    OBVIOUS
<1> HIDE DEF step
<1>8. LooksBelow(Conditions, BOOLEAN, Height, step)
    BY <1>4, <1>6, <1>7, ConditionsAssumption DEF LooksBelow
<1>9. \E f \in F : f = step[f]
    BY <1>8, Recursion
<1>10. \E f : f = H(f)
    BY <1>5, <1>9
<1> HIDE DEF H
<1>11. Satisfied(in, constants) = H(Satisfied(in, constants))
    BY <1>1, <1>10, Zenon
<1>12. \A c \in Conditions : Satisfied(in, constants)[c] = Body(Satisfied(in, constants), c)
    BY <1>11 DEF H
<1> QED BY <1>12, Zenon DEF Body, leaf

Codes == {"ok", "INVALID_CONDITION", "INVALID_REFERENCE"}

\* The code that checks fail with is one of theirs.
LEMMA FaultCode ==
    ASSUME NEW checks, DOMAIN checks \in SUBSET Nat,
           \A i \in DOMAIN checks : checks[i] \in Codes
    PROVE  FirstFault(checks) \in Codes
<1> DEFINE failed == {i \in DOMAIN checks : checks[i] # "ok"}
<1>1. CASE failed = {}
  <2>1. FirstFault(checks) = "ok"
    BY <1>1 DEF FirstFault
  <2>2. "ok" \in Codes
    BY DEF Codes
  <2> QED BY <2>1, <2>2
<1>2. CASE failed # {}
  <2>1. failed \in SUBSET Nat
    OBVIOUS
  <2>2. \E m \in failed : \A n \in failed : m <= n
    <3> HIDE DEF failed
    <3> QED BY <1>2, <2>1, LeastNumber
  <2>3. Min(failed) \in failed
    BY <2>2 DEF Min
  <2>4. FirstFault(checks) = checks[Min(failed)]
    BY <1>2 DEF FirstFault
  <2>5. checks[Min(failed)] \in Codes
    BY <2>3
  <2> QED BY <2>4, <2>5
<1> HIDE DEF failed
<1> QED BY <1>1, <1>2

\* compileCondition looks at a condition, then at its parts one level down.
LEMMA FaultEquation ==
    ASSUME NEW constants
    PROVE  LET fault == ConditionFault(constants)
           IN  \A depth \in -1 .. ConditionDepth, c \in Conditions :
                 fault[depth][c] =
                   IF depth < 0 THEN "INVALID_CONDITION"
                   ELSE IF /\ c.operator \in {"all", "any"}
                           /\ Len(c.conditions) \in 1..MaxConditions
                   THEN FirstFault([i \in DOMAIN c.conditions |->
                                       fault[depth - 1][c.conditions[i]]])
                   ELSE IF c.operator = "not" THEN fault[depth - 1][c.condition]
                   ELSE IF c.operator \in LeafOperators
                   THEN FirstFault(<<
                           Unless(KnownReference(c, constants), "INVALID_REFERENCE"),
                           Unless((c.operator = "exists") = (c.operand = None),
                                  "INVALID_CONDITION")>>)
                   ELSE "INVALID_CONDITION"
<1> DEFINE leaf(c) == FirstFault(<<
                           Unless(KnownReference(c, constants), "INVALID_REFERENCE"),
                           Unless((c.operator = "exists") = (c.operand = None),
                                  "INVALID_CONDITION")>>)
           One(f, depth, c) ==
               IF depth < 0 THEN "INVALID_CONDITION"
               ELSE IF /\ c.operator \in {"all", "any"}
                       /\ Len(c.conditions) \in 1..MaxConditions
               THEN FirstFault([i \in DOMAIN c.conditions |-> f[depth - 1][c.conditions[i]]])
               ELSE IF c.operator = "not" THEN f[depth - 1][c.condition]
               ELSE IF c.operator \in LeafOperators THEN leaf(c)
               ELSE "INVALID_CONDITION"
           Body(f, depth) == [c \in Conditions |-> One(f, depth, c)]
           C == -1 .. ConditionDepth
           H(f) == [depth \in C |-> Body(f, depth)]
           R == [Conditions -> Codes]
           F == [C -> R]
           h == [depth \in C |-> depth + 1]
           step == [f \in F |-> H(f)]
<1>1. ConditionFault(constants) = CHOOSE f : f = H(f)
    BY Zenon DEF ConditionFault
<1>0. /\ \A depth \in C : depth \in Int /\ (~(depth < 0) => depth - 1 \in C)
      /\ h \in [C -> Nat] /\ \A depth \in C : ~(depth < 0) => h[depth - 1] < h[depth]
    BY ConditionsAssumption
<1>13. ASSUME NEW c \in Conditions PROVE leaf(c) \in Codes
  <2> DEFINE one == Unless(KnownReference(c, constants), "INVALID_REFERENCE")
             two == Unless((c.operator = "exists") = (c.operand = None), "INVALID_CONDITION")
  <2>1. one \in Codes /\ two \in Codes
    BY DEF Unless, Codes
  <2> HIDE DEF one, two
  <2>2. DOMAIN <<one, two>> \in SUBSET Nat
        /\ \A i \in DOMAIN <<one, two>> : <<one, two>>[i] \in Codes
    BY <2>1
  <2>3. FirstFault(<<one, two>>) \in Codes
    BY <2>2, FaultCode
  <2> QED BY <2>3 DEF one, two
<1> HIDE DEF leaf, C, h
<1>2. ASSUME NEW f \in F, NEW depth \in C PROVE Body(f, depth) \in R
  <2>1. SUFFICES ASSUME NEW c \in Conditions PROVE One(f, depth, c) \in Codes
    OBVIOUS
  <2>2. "INVALID_CONDITION" \in Codes
    BY DEF Codes
  <2>3. ASSUME ~(depth < 0), c.operator \in {"all", "any"}
        PROVE  FirstFault([i \in DOMAIN c.conditions |-> f[depth - 1][c.conditions[i]]])
                   \in Codes
    <3> DEFINE checks == [i \in DOMAIN c.conditions |-> f[depth - 1][c.conditions[i]]]
    <3>1. c.conditions \in Seq(Conditions)
      BY <2>3, ConditionsAssumption
    <3>2. f[depth - 1] \in R
      BY <1>0, <2>3
    <3>3. DOMAIN checks \in SUBSET Nat /\ \A i \in DOMAIN checks : checks[i] \in Codes
      BY <3>1, <3>2
    <3> HIDE DEF checks
    <3>4. FirstFault(checks) \in Codes
      BY <3>3, FaultCode
    <3> QED BY <3>4 DEF checks
  <2>4. ASSUME ~(depth < 0), c.operator = "not" PROVE f[depth - 1][c.condition] \in Codes
    BY <1>0, <2>4, PartsBelow
  <2> QED BY <1>13, <2>2, <2>3, <2>4
<1>3. ASSUME NEW f, NEW g, NEW depth \in C,
             \A p \in C : h[p] < h[depth] => f[p] = g[p]
      PROVE  Body(f, depth) = Body(g, depth)
  <2>1. ~(depth < 0) => f[depth - 1] = g[depth - 1]
    BY <1>0, <1>3
  <2>2. ASSUME NEW c \in Conditions PROVE One(f, depth, c) = One(g, depth, c)
    BY <2>1, Zenon
  <2> HIDE DEF One
  <2> QED BY <2>2
<1>14. \A f : \A depth : \A c \in Conditions : Body(f, depth)[c] = One(f, depth, c)
    OBVIOUS
<1> HIDE DEF Body, R
<1>4. step \in [F -> F]
    BY <1>2
<1>5. \A f \in F : step[f] = H(f)
    OBVIOUS
<1>6. \A f, g \in F : \A c \in C :
          (\A p \in C : h[p] < h[c] => f[p] = g[p]) => step[f][c] = step[g][c]
    BY <1>3
<1>7. F # {}
  <2>1. [c \in Conditions |-> "ok"] \in R
    BY DEF R, Codes
  <2>2. [depth \in C |-> [c \in Conditions |-> "ok"]] \in F
    BY <2>1
  <2> QED BY <2>2, Zenon
<1> HIDE DEF step
<1>8. LooksBelow(C, R, h, step)
    BY <1>0, <1>4, <1>6, <1>7 DEF LooksBelow
<1>9. \E f \in F : f = step[f]
    BY <1>8, Recursion
<1>10. \E f : f = H(f)
    BY <1>5, <1>9
<1> HIDE DEF H
<1>11. ConditionFault(constants) = H(ConditionFault(constants))
    BY <1>1, <1>10, Zenon
<1> DEFINE fault == ConditionFault(constants)
<1>12. \A depth \in C : fault[depth] = Body(fault, depth)
    BY <1>11 DEF H
<1> HIDE DEF fault, One
<1>15. \A depth \in C, c \in Conditions : fault[depth][c] = One(fault, depth, c)
    BY <1>12, <1>14
<1> QED BY <1>15, Zenon DEF C, One, leaf, fault

\* evaluateCondition finds what a condition means: it is defined when all of its
\* leaves are, and then matches when the condition is satisfied.
Meant(c, in, constants) ==
    LET result == evaluateCondition(in, constants)[c]
    IN  /\ result.ok <=> Defined(c, in, constants)
        /\ ~result.ok => result = Mismatch
        /\ result.ok => (result.matched <=> Satisfied(in, constants)[c])

\* A condition that compileCondition accepts has parts that it accepts.
LEMMA AcceptedParts ==
    ASSUME NEW constants, NEW depth \in -1 .. ConditionDepth, NEW c \in Conditions,
           ConditionFault(constants)[depth][c] = "ok"
    PROVE  /\ c.operator \in LeafOperators \cup {"all", "any", "not"}
           /\ c.operator \in {"all", "any"} => Parts(c) # {}
           /\ \A part \in Parts(c) :
                 \E d \in -1 .. ConditionDepth : ConditionFault(constants)[d][part] = "ok"
           /\ c.operator \in LeafOperators =>
                 /\ Parts(c) = {} /\ KnownReference(c, constants)
<1> DEFINE fault == ConditionFault(constants)
           leaf == FirstFault(<<Unless(KnownReference(c, constants), "INVALID_REFERENCE"),
                           Unless((c.operator = "exists") = (c.operand = None),
                                  "INVALID_CONDITION")>>)
           many == FirstFault([i \in DOMAIN c.conditions |-> fault[depth - 1][c.conditions[i]]])
<1>1. fault[depth][c] =
          IF depth < 0 THEN "INVALID_CONDITION"
          ELSE IF /\ c.operator \in {"all", "any"} /\ Len(c.conditions) \in 1..MaxConditions
          THEN many
          ELSE IF c.operator = "not" THEN fault[depth - 1][c.condition]
          ELSE IF c.operator \in LeafOperators THEN leaf
          ELSE "INVALID_CONDITION"
    BY FaultEquation, Zenon
<1>2. fault[depth][c] = "ok"
    OBVIOUS
<1> HIDE DEF fault
<1>3. ~(depth < 0) /\ depth - 1 \in -1 .. ConditionDepth
  <2>1. ~(depth < 0)
    <3> HIDE DEF many, leaf
    <3> QED BY <1>1, <1>2
  <2> QED BY <2>1, ConditionsAssumption
<1>4. c.operator \in LeafOperators \cup {"all", "any", "not"}
  <2> HIDE DEF many, leaf
  <2> QED BY <1>1, <1>2
<1>5. ASSUME c.operator \in {"all", "any"}
      PROVE  /\ Parts(c) # {}
             /\ \A part \in Parts(c) : fault[depth - 1][part] = "ok"
  <2> DEFINE checks == [i \in DOMAIN c.conditions |-> fault[depth - 1][c.conditions[i]]]
  <2>1. c.conditions \in Seq(Conditions) /\ Parts(c) = ToSet(c.conditions)
    BY <1>5, ConditionsAssumption DEF Parts
  <2>2. c.operator \notin LeafOperators /\ c.operator # "not"
    BY <1>5 DEF LeafOperators
  <2>3. many = "ok" /\ Len(c.conditions) \in 1 .. MaxConditions
    <3> HIDE DEF many, leaf
    <3> QED BY <1>1, <1>2, <1>3, <1>5, <2>2
  <2>4. DOMAIN checks \in SUBSET Nat /\ DOMAIN checks = DOMAIN c.conditions
        /\ DOMAIN c.conditions = 1 .. Len(c.conditions) /\ Len(c.conditions) \in Nat
    BY <2>1
  <2>5. \A i \in DOMAIN checks : checks[i] = fault[depth - 1][c.conditions[i]]
    OBVIOUS
  <2>6. FirstFault(checks) = "ok"
    BY <2>3
  <2> HIDE DEF checks, many
  <2>7. \A i \in DOMAIN checks : checks[i] = "ok"
    BY <2>4, <2>6, NoFault
  <2>8. \A part \in Parts(c) : fault[depth - 1][part] = "ok"
    BY <2>1, <2>4, <2>5, <2>7 DEF ToSet
  <2>9. 1 \in DOMAIN c.conditions
    BY <2>3, <2>4
  <2>10. c.conditions[1] \in Parts(c)
    BY <2>1, <2>9 DEF ToSet
  <2> QED BY <2>8, <2>10
<1>6. ASSUME c.operator = "not"
      PROVE  \A part \in Parts(c) : fault[depth - 1][part] = "ok"
  <2>1. Parts(c) = {c.condition}
    BY <1>6, PartsBelow
  <2>2. fault[depth - 1][c.condition] = "ok"
    <3> HIDE DEF many, leaf
    <3> QED BY <1>1, <1>2, <1>3, <1>6
  <2> QED BY <2>1, <2>2
<1>7. ASSUME c.operator \in LeafOperators
      PROVE  Parts(c) = {} /\ KnownReference(c, constants)
  <2>1. c.operator \notin {"all", "any", "not"}
    BY <1>7 DEF LeafOperators
  <2>2. leaf = "ok"
    <3> HIDE DEF many, leaf
    <3> QED BY <1>1, <1>2, <1>3, <1>7, <2>1
  <2> DEFINE one == Unless(KnownReference(c, constants), "INVALID_REFERENCE")
             two == Unless((c.operator = "exists") = (c.operand = None), "INVALID_CONDITION")
  <2>3. FirstFault(<<one, two>>) = "ok"
    BY <2>2
  <2>4. one = "ok" <=> KnownReference(c, constants)
    BY DEF Unless
  <2> HIDE DEF one, two
  <2>5. DOMAIN <<one, two>> \in SUBSET Nat /\ 1 \in DOMAIN <<one, two>> /\ <<one, two>>[1] = one
    OBVIOUS
  <2>6. \A i \in DOMAIN <<one, two>> : <<one, two>>[i] = "ok"
    BY <2>3, <2>5, NoFault, Zenon
  <2>7. one = "ok"
    BY <2>5, <2>6
  <2> QED BY <2>1, <2>4, <2>7 DEF Parts
<1>8. ASSUME NEW part \in Parts(c)
      PROVE  \E d \in -1 .. ConditionDepth : fault[d][part] = "ok"
  <2>1. c.operator \in {"all", "any"} \/ c.operator = "not"
    BY <1>8 DEF Parts
  <2>2. fault[depth - 1][part] = "ok"
    BY <1>5, <1>6, <2>1
  <2> QED BY <1>3, <2>2
<1> QED BY <1>4, <1>5, <1>7, <1>8 DEF fault

\* A condition that the compiler accepts is defined exactly when its leaves are,
\* and is then what its leaves say.
LEMMA ConditionMeaning ==
    ASSUME NEW in, NEW constants, \A n \in DOMAIN constants : constants[n] # None,
           \A reference \in InputReferences : in[reference] # None,
           NEW c \in Conditions, NEW depth \in -1 .. ConditionDepth,
           ConditionFault(constants)[depth][c] = "ok"
    PROVE  Meant(c, in, constants)
<1> DEFINE fault == ConditionFault(constants)
           Admitted(d) == \E n \in -1 .. ConditionDepth : fault[n][d] = "ok"
           bad == {d \in Conditions : Admitted(d) /\ ~Meant(d, in, constants)}
           result == evaluateCondition(in, constants)
           satisfied == Satisfied(in, constants)
<1>1. SUFFICES ASSUME bad # {} PROVE FALSE
    OBVIOUS
<1> HIDE DEF Admitted
<1>2. PICK b \in bad : \A d \in bad : Height[b] <= Height[d]
    BY <1>1, LeastHeight, ConditionsAssumption
<1>3. b \in Conditions /\ Admitted(b) /\ ~Meant(b, in, constants)
    BY <1>2
<1>4. PICK n \in -1 .. ConditionDepth : fault[n][b] = "ok"
    BY <1>3 DEF Admitted
<1>5. /\ b.operator \in LeafOperators \cup {"all", "any", "not"}
      /\ b.operator \in {"all", "any"} => Parts(b) # {}
      /\ \A part \in Parts(b) : Admitted(part)
      /\ b.operator \in LeafOperators => Parts(b) = {} /\ KnownReference(b, constants)
    BY <1>3, <1>4, AcceptedParts DEF Admitted
<1>6. \A part \in Parts(b) : Meant(part, in, constants)
  <2>1. ASSUME NEW part \in Parts(b), ~Meant(part, in, constants) PROVE FALSE
    <3>1. part \in Conditions /\ Height[part] < Height[b] /\ Height \in [Conditions -> Nat]
      BY <1>3, PartsBelow
    <3>2. part \in bad
      BY <1>5, <2>1, <3>1
    <3>3. Height[b] <= Height[part] /\ Height[b] \in Nat /\ Height[part] \in Nat
      BY <1>2, <1>3, <3>1, <3>2
    <3> QED BY <3>1, <3>3
  <2> QED BY <2>1
<1>7. LeavesOf[b] = IF Parts(b) = {} THEN {b}
                    ELSE UNION {LeavesOf[part] : part \in Parts(b)}
    BY <1>3, LeavesEquation
<1>8. satisfied[b] =
          IF b.operator = "all" THEN \A part \in Parts(b) : satisfied[part]
          ELSE IF b.operator = "any" THEN \E part \in Parts(b) : satisfied[part]
          ELSE IF b.operator = "not" THEN ~satisfied[b.condition]
          ELSE Holds(b.operator, referencedValue(b, in, constants), b.operand)
    BY <1>3, SatisfiedEquation, Zenon
<1>9. result \in [Conditions -> Outcomes]
    BY Evaluation, Zenon
<1>10. result[b] =
          IF b.operator \in {"all", "any"}
          THEN Combine(b.operator, {result[part] : part \in Parts(b)})
          ELSE IF b.operator = "not"
          THEN [ok |-> result[b.condition].ok,
                matched |-> result[b.condition].ok /\ ~result[b.condition].matched]
          ELSE LET actual == referencedValue(b, in, constants)
               IN  IF actual # None /\ Typed(b.operator, actual, b.operand)
                   THEN Match(Holds(b.operator, actual, b.operand)) ELSE Mismatch
    BY <1>3, Evaluation, Zenon
<1>11. \A part \in Parts(b) :
          /\ result[part] \in Outcomes
          /\ result[part].ok <=> Defined(part, in, constants)
          /\ ~result[part].ok => result[part] = Mismatch
          /\ result[part].ok => (result[part].matched <=> satisfied[part])
    BY <1>3, <1>6, <1>9, PartsBelow DEF Meant
<1>12. Parts(b) # {} =>
          (Defined(b, in, constants) <=> \A part \in Parts(b) : Defined(part, in, constants))
    BY <1>7 DEF Defined
<1> HIDE DEF result, satisfied
<1>13. ASSUME b.operator \in LeafOperators PROVE FALSE
  <2> DEFINE actual == referencedValue(b, in, constants)
             holds == Holds(b.operator, actual, b.operand)
             typed == Typed(b.operator, actual, b.operand)
  <2>1. b.operator \notin {"all", "any", "not"}
    BY <1>13 DEF LeafOperators
  <2>2. actual # None
    BY <1>5, <1>13 DEF KnownReference, referencedValue
  <2>3. Defined(b, in, constants) <=> typed
    BY <1>5, <1>7, <1>13 DEF Defined
  <2>4. result[b] = IF typed THEN Match(holds) ELSE Mismatch
    BY <1>10, <2>1, <2>2, Zenon
  <2>5. satisfied[b] = holds
    BY <1>8, <2>1, Zenon
  <2> HIDE DEF typed, holds
  <2>6. CASE typed
    <3>1. result[b].ok = TRUE /\ result[b].matched = holds
      BY <2>4, <2>6 DEF Match
    <3> QED BY <1>3, <2>3, <2>5, <2>6, <3>1, Zenon DEF Meant, result, satisfied
  <2>7. CASE ~typed
    <3>1. result[b] = Mismatch
      BY <2>4, <2>7
    <3>2. ~result[b].ok
      BY <3>1 DEF Mismatch
    <3> QED BY <1>3, <2>3, <2>7, <3>1, <3>2, Zenon DEF Meant, result, satisfied
  <2> QED BY <2>6, <2>7
<1>14. ASSUME b.operator = "not" PROVE FALSE
  <2> DEFINE d == b.condition
  <2>1. Parts(b) = {d}
    BY <1>3, <1>14, PartsBelow
  <2>2. result[b] = [ok |-> result[d].ok, matched |-> result[d].ok /\ ~result[d].matched]
    BY <1>10, <1>14
  <2>3. satisfied[b] = ~satisfied[d]
    BY <1>8, <1>14
  <2>4. /\ result[d] \in Outcomes
        /\ result[d].ok <=> Defined(d, in, constants)
        /\ result[d].ok => (result[d].matched <=> satisfied[d])
    BY <1>11, <2>1
  <2>5. Defined(b, in, constants) <=> Defined(d, in, constants)
    BY <1>12, <2>1
  <2> HIDE DEF d
  <2>6. CASE result[d].ok
    <3>1. result[b].ok = result[d].ok
          /\ result[b].matched = (result[d].ok /\ ~result[d].matched)
      BY <2>2
    <3> QED BY <1>3, <2>3, <2>4, <2>5, <2>6, <3>1, Zenon DEF Meant, result, satisfied
  <2>7. CASE ~result[d].ok
    <3>1. result[d].ok = FALSE
      BY <2>4, <2>7 DEF Outcomes
    <3>2. result[b] = Mismatch
      BY <2>2, <3>1 DEF Mismatch
    <3>3. ~result[b].ok
      BY <3>2 DEF Mismatch
    <3> QED BY <1>3, <2>4, <2>5, <2>7, <3>2, <3>3, Zenon DEF Meant, result, satisfied
  <2> QED BY <2>6, <2>7
<1>15. ASSUME b.operator \in {"all", "any"} PROVE FALSE
  <2> DEFINE results == {result[part] : part \in Parts(b)}
             all == IF b.operator = "all" THEN Match(FALSE) \notin results
                    ELSE Match(TRUE) \in results
  <2>1. Parts(b) # {} /\ b.operator # "not"
    BY <1>5, <1>15
  <2>2. result[b] = IF Mismatch \in results THEN Mismatch ELSE Match(all)
    BY <1>10, <1>15 DEF Combine
  <2>3. \A part \in Parts(b) :
            /\ result[part] = Mismatch <=> ~result[part].ok
            /\ result[part].ok => result[part] = Match(result[part].matched)
    <3>1. ASSUME NEW r \in Outcomes
          PROVE  r.ok => r = Match(r.matched)
      BY DEF Outcomes, Match
    <3>2. ~Mismatch.ok
      BY DEF Mismatch
    <3> HIDE DEF results
    <3> QED BY <1>11, <3>1, <3>2
  <2>4. CASE Mismatch \in results
    <3>1. PICK part \in Parts(b) : result[part] = Mismatch
      BY <2>4
    <3>2. ~Defined(b, in, constants)
      BY <1>11, <1>12, <2>1, <2>3, <3>1
    <3>3. result[b] = Mismatch /\ ~result[b].ok
      BY <2>2, <2>4 DEF Mismatch
    <3> QED BY <1>3, <3>2, <3>3, Zenon DEF Meant, result, satisfied
  <2>5. CASE Mismatch \notin results
    <3>1. \A part \in Parts(b) : result[part].ok
      BY <2>3, <2>5
    <3>2. Defined(b, in, constants)
      BY <1>11, <1>12, <2>1, <3>1
    <3>3. result[b].ok = TRUE /\ result[b].matched = all
      BY <2>2, <2>5 DEF Match
    <3>4. \A part \in Parts(b) :
              /\ result[part] = Match(TRUE) <=> satisfied[part]
              /\ result[part] = Match(FALSE) <=> ~satisfied[part]
      <4>1. ASSUME NEW part \in Parts(b)
            PROVE  /\ result[part] = Match(TRUE) <=> satisfied[part]
                   /\ result[part] = Match(FALSE) <=> ~satisfied[part]
        <5>1. result[part].matched \in BOOLEAN
          BY <1>11 DEF Outcomes
        <5>2. result[part] = Match(result[part].matched)
          BY <2>3, <3>1
        <5>3. Match(TRUE) # Match(FALSE)
          BY DEF Match
        <5>4. result[part].matched <=> satisfied[part]
          BY <1>11, <3>1
        <5>5. CASE result[part].matched = TRUE
          BY <5>2, <5>3, <5>4, <5>5
        <5>6. CASE result[part].matched = FALSE
          BY <5>2, <5>3, <5>4, <5>6
        <5> QED BY <5>1, <5>5, <5>6
      <4> QED BY <4>1
    <3>5. all <=> satisfied[b]
      <4>1. CASE b.operator = "all"
        <5>1. satisfied[b] <=> \A part \in Parts(b) : satisfied[part]
          BY <1>8, <4>1, Zenon
        <5>2. Match(FALSE) \notin results <=> \A part \in Parts(b) : satisfied[part]
          BY <3>4
        <5> QED BY <4>1, <5>1, <5>2, Zenon
      <4>2. CASE b.operator = "any"
        <5>1. satisfied[b] <=> \E part \in Parts(b) : satisfied[part]
          BY <1>8, <4>2, Zenon
        <5>2. Match(TRUE) \in results <=> \E part \in Parts(b) : satisfied[part]
          BY <3>4
        <5>3. b.operator # "all"
          BY <4>2
        <5> QED BY <5>1, <5>2, <5>3, Zenon
      <4> QED BY <1>15, <4>1, <4>2
    <3> HIDE DEF all
    <3> QED BY <1>3, <3>2, <3>3, <3>5, Zenon DEF Meant, result, satisfied
  <2> QED BY <2>4, <2>5
<1> QED BY <1>5, <1>13, <1>14, <1>15
-----------------------------------------------------------------------------
(* Requirements.                                                           *)

\* A bound that was merged is the least of those demanded.
BoundOf(bound, S) == IF S = {} THEN bound = None
                     ELSE bound \in S /\ \A n \in S : bound <= n
\* A level that was merged is the strong one that was demanded, if any.
LevelOf(level, S) ==
    LET strong == S \ {"PROCESS_RESTRICTED"}
    IN  IF S = {} THEN level = None
        ELSE IF strong = {} THEN level = "PROCESS_RESTRICTED"
        ELSE IF \E one, two \in strong : one # two THEN level = "CONFLICT"
        ELSE level \in strong
DemandsOf(A, field) == {r.requirements[field] : r \in A} \ {None}
ScopesOfAll(A) == UNION {ScopesOf(r.requirements) : r \in A}

\* What the rules of A were merged to.
MergeOf(m, A) ==
    /\ m.scopes = ScopesOfAll(A) /\ m.scopes \in SUBSET Nat /\ IsFiniteSet(m.scopes)
    /\ LevelOf(m.level, DemandsOf(A, "minimumIsolationLevel"))
    /\ BoundOf(m.timeoutMs, DemandsOf(A, "timeoutMs"))
    /\ BoundOf(m.maxConcurrency, DemandsOf(A, "maxConcurrency"))
    /\ m.verify <=> \E r \in A : r.requirements.postVerificationRequired = TRUE

\* A rule that compileRule accepts, as far as merging needs.
Leveled(r) == r \in Rules /\ r.requirements.minimumIsolationLevel \in Levels \cup {None}

\* An absent value is none of the values that a field may have.
LEMMA Absent ==
    /\ None \notin Int /\ None \notin Levels /\ None \notin Seq(Nat) /\ None # TRUE
    /\ None # FALSE /\ None # "CONFLICT"
    BY ValuesAssumption

\* A bound that was merged from demands and another demand is their least.
LEMMA BoundStep ==
    ASSUME NEW S \in SUBSET Int, NEW n \in Int \cup {None}, NEW bound, BoundOf(bound, S)
    PROVE  BoundOf(MergeBound(bound, n), (S \cup {n}) \ {None})
<1>1. None \notin S /\ None \notin Int
    BY Absent
<1>2. CASE n = None
  <2>1. (S \cup {n}) \ {None} = S /\ MergeBound(bound, n) = bound
    BY <1>1, <1>2 DEF MergeBound
  <2> QED BY <2>1
<1>3. CASE n # None
  <2>1. (S \cup {n}) \ {None} = S \cup {n} /\ n \in Int
    BY <1>1, <1>3
  <2>2. CASE S = {}
    <3>1. MergeBound(bound, n) = n
      BY <1>3, <2>2 DEF MergeBound, BoundOf
    <3> QED BY <2>1, <2>2, <3>1 DEF BoundOf
  <2>3. CASE S # {}
    <3>1. bound \in S /\ bound \in Int /\ bound # None /\ \A k \in S : bound <= k
      BY <1>1, <2>3 DEF BoundOf
    <3>2. MergeBound(bound, n) = IF bound < n THEN bound ELSE n
      BY <1>3, <3>1 DEF MergeBound
    <3> QED BY <2>1, <2>3, <3>1, <3>2 DEF BoundOf
  <2> QED BY <2>2, <2>3
<1> QED BY <1>2, <1>3

\* A level that was merged from demands and another demand is the strong one
\* among them, or the conflict of two.
LEMMA LevelStep ==
    ASSUME NEW S \in SUBSET Levels, NEW c \in Levels \cup {None}, NEW level, LevelOf(level, S)
    PROVE  LevelOf(MergeIsolation(level, c), (S \cup {c}) \ {None})
<1> DEFINE weak == "PROCESS_RESTRICTED"
           T == (S \cup {c}) \ {None}
           strong == S \ {weak}
           new == MergeIsolation(level, c)
<1>1. None \notin S /\ None \notin Levels /\ "CONFLICT" \notin Levels /\ weak # "CONFLICT"
      /\ None # weak /\ None # "CONFLICT"
    BY Absent DEF Levels
<1>2. CASE c = None
  <2>1. T = S /\ new = level
    BY <1>1, <1>2 DEF MergeIsolation
  <2> QED BY <2>1
<1>3. CASE c # None
  <2>1. T = S \cup {c} /\ c \in Levels
    BY <1>1, <1>3
  <2>2. CASE S = {}
    <3>1. new = c /\ T = {c}
      BY <1>3, <2>1, <2>2 DEF MergeIsolation, LevelOf
    <3> HIDE DEF T, new
    <3> QED BY <3>1 DEF LevelOf, T, new
  <2>3. CASE S # {} /\ strong = {}
    <3>1. level = weak /\ new = c /\ T \ {weak} = {c} \ {weak}
      BY <1>3, <2>1, <2>3 DEF MergeIsolation, LevelOf
    <3> QED BY <2>1, <3>1 DEF LevelOf
  <2>4. CASE strong # {} /\ \E one, two \in strong : one # two
    <3>1. level = "CONFLICT" /\ level # None /\ level # weak /\ c # level
      <4>1. level = "CONFLICT"
        BY <2>4 DEF LevelOf
      <4> HIDE DEF strong
      <4> QED BY <1>1, <2>1, <4>1
    <3>2. new = "CONFLICT"
      BY <1>3, <3>1 DEF MergeIsolation
    <3>3. strong \subseteq T \ {weak}
      BY <2>1
    <3> QED BY <2>4, <3>2, <3>3 DEF LevelOf
  <2>5. CASE strong # {} /\ ~\E one, two \in strong : one # two
    <3>1. level \in strong /\ level # None /\ level # weak
      BY <1>1, <2>5 DEF LevelOf
    <3>2. strong = {level}
      BY <2>5, <3>1
    <3>3. CASE c \in {level, weak}
      <4>1. new = level /\ T \ {weak} = {level} /\ T # {}
        BY <1>3, <2>1, <3>1, <3>2, <3>3 DEF MergeIsolation
      <4> HIDE DEF T, new
      <4> QED BY <4>1 DEF LevelOf, T, new
    <3>4. CASE c \notin {level, weak}
      <4>1. new = "CONFLICT" /\ level \in T \ {weak} /\ c \in T \ {weak} /\ c # level
        BY <1>3, <2>1, <3>1, <3>2, <3>4 DEF MergeIsolation
      <4> HIDE DEF T, new
      <4> QED BY <4>1 DEF LevelOf, T, new
    <3> QED BY <3>3, <3>4
  <2> QED BY <2>2, <2>3, <2>4, <2>5
<1> QED BY <1>2, <1>3

\* A rule asks for finitely many scopes.
LEMMA FiniteScopes ==
    ASSUME NEW r \in Rules
    PROVE  ScopesOf(r.requirements) \in SUBSET Nat /\ IsFiniteSet(ScopesOf(r.requirements))
<1> DEFINE s == r.requirements.permissionScopes
<1>1. s \in Seq(Nat) \cup {None}
    BY DEF Rules, Requirements, Optional
<1> HIDE DEF s
<1>2. CASE s = None
    BY <1>2, FS_EmptySet DEF ScopesOf, s
<1>3. CASE s # None
  <2>1. s \in Seq(Nat) /\ DOMAIN s = 1 .. Len(s) /\ Len(s) \in Nat
    BY <1>1, <1>3
  <2>2. s \in Surjection(DOMAIN s, ToSet(s))
    BY <2>1 DEF Surjection, ToSet
  <2>3. IsFiniteSet(DOMAIN s)
    BY <2>1, FS_Interval
  <2>4. IsFiniteSet(ToSet(s)) /\ ToSet(s) \in SUBSET Nat
    <3>1. IsFiniteSet(ToSet(s))
      BY <2>2, <2>3, FS_Surjection
    <3> QED BY <2>1, <3>1 DEF ToSet
  <2> QED BY <1>3, <2>4 DEF ScopesOf, s
<1> QED BY <1>2, <1>3

\* Merging one more rule gives what the rules so far and that rule demand.
LEMMA MergeStep ==
    ASSUME NEW A, \A r \in A : Leveled(r), NEW r, Leveled(r), NEW m, MergeOf(m, A)
    PROVE  MergeOf(MergeOne(m, r.requirements), A \cup {r})
<1> DEFINE q == r.requirements
           M == MergeOne(m, q)
           B == A \cup {r}
<1>1. /\ \A s \in B : /\ s.requirements \in Requirements
                      /\ s.requirements.timeoutMs \in Int \cup {None}
                      /\ s.requirements.maxConcurrency \in Int \cup {None}
                      /\ s.requirements.minimumIsolationLevel \in Levels \cup {None}
    BY DEF Leveled, Rules, Requirements, Optional
<1>2. /\ DemandsOf(A, "timeoutMs") \in SUBSET Int
      /\ DemandsOf(A, "maxConcurrency") \in SUBSET Int
      /\ DemandsOf(A, "minimumIsolationLevel") \in SUBSET Levels
    BY <1>1 DEF DemandsOf
<1>3. /\ M.scopes = m.scopes \cup ScopesOf(q)
      /\ M.level = MergeIsolation(m.level, q.minimumIsolationLevel)
      /\ M.timeoutMs = MergeBound(m.timeoutMs, q.timeoutMs)
      /\ M.maxConcurrency = MergeBound(m.maxConcurrency, q.maxConcurrency)
      /\ M.verify <=> m.verify \/ q.postVerificationRequired = TRUE
    BY DEF MergeOne
<1>4. M.scopes = ScopesOfAll(B) /\ M.scopes \in SUBSET Nat /\ IsFiniteSet(M.scopes)
  <2>1. ScopesOf(q) \in SUBSET Nat /\ IsFiniteSet(ScopesOf(q))
    BY FiniteScopes DEF Leveled
  <2>2. m.scopes = ScopesOfAll(A) /\ m.scopes \in SUBSET Nat /\ IsFiniteSet(m.scopes)
    BY DEF MergeOf
  <2>3. ScopesOfAll(B) = ScopesOfAll(A) \cup ScopesOf(q)
    BY DEF ScopesOfAll
  <2> HIDE DEF M, B, q
  <2>4. IsFiniteSet(m.scopes \cup ScopesOf(q))
    BY <2>1, <2>2, FS_Union
  <2> QED BY <1>3, <2>1, <2>2, <2>3, <2>4
<1>5. LevelOf(M.level, DemandsOf(B, "minimumIsolationLevel"))
  <2> DEFINE d == DemandsOf(A, "minimumIsolationLevel")
             n == q.minimumIsolationLevel
  <2>1. d \in SUBSET Levels /\ n \in Levels \cup {None} /\ LevelOf(m.level, d)
    BY <1>1, <1>2 DEF MergeOf
  <2>2. M.level = MergeIsolation(m.level, n)
    BY <1>3
  <2>3. DemandsOf(B, "minimumIsolationLevel") = (d \cup {n}) \ {None}
    BY DEF DemandsOf
  <2> HIDE DEF d, n, M, B
  <2> QED BY <2>1, <2>2, <2>3, LevelStep
<1>6. BoundOf(M.timeoutMs, DemandsOf(B, "timeoutMs"))
  <2> DEFINE d == DemandsOf(A, "timeoutMs")
             n == q.timeoutMs
  <2>1. d \in SUBSET Int /\ n \in Int \cup {None} /\ BoundOf(m.timeoutMs, d)
    BY <1>1, <1>2 DEF MergeOf
  <2>2. M.timeoutMs = MergeBound(m.timeoutMs, n)
    BY <1>3
  <2>3. DemandsOf(B, "timeoutMs") = (d \cup {n}) \ {None}
    BY DEF DemandsOf
  <2> HIDE DEF d, n, M, B
  <2> QED BY <2>1, <2>2, <2>3, BoundStep
<1>7. BoundOf(M.maxConcurrency, DemandsOf(B, "maxConcurrency"))
  <2> DEFINE d == DemandsOf(A, "maxConcurrency")
             n == q.maxConcurrency
  <2>1. d \in SUBSET Int /\ n \in Int \cup {None} /\ BoundOf(m.maxConcurrency, d)
    BY <1>1, <1>2 DEF MergeOf
  <2>2. M.maxConcurrency = MergeBound(m.maxConcurrency, n)
    BY <1>3
  <2>3. DemandsOf(B, "maxConcurrency") = (d \cup {n}) \ {None}
    BY DEF DemandsOf
  <2> HIDE DEF d, n, M, B
  <2> QED BY <2>1, <2>2, <2>3, BoundStep
<1>8. M.verify <=> \E s \in B : s.requirements.postVerificationRequired = TRUE
  <2> HIDE DEF M
  <2> QED BY <1>3 DEF MergeOf
<1> HIDE DEF M
<1>9. MergeOf(M, B)
  <2> HIDE DEF B
  <2> QED BY <1>4, <1>5, <1>6, <1>7, <1>8 DEF MergeOf
<1> QED BY <1>9 DEF M

\* mergeRequirements goes through the rules one after another.
MergedInTurn(merged, rules, allowed) ==
    \A n \in 0 .. Len(rules) :
        merged[n] = IF n = 0 THEN NothingMerged
                    ELSE IF rules[n] \in allowed
                    THEN MergeOne(merged[n - 1], rules[n].requirements)
                    ELSE merged[n - 1]

\* The rules are merged one after another.
LEMMA MergedEquation ==
    ASSUME NEW rules \in Seq(Rules), NEW allowed
    PROVE  MergedInTurn(MergedUpTo(rules, allowed), rules, allowed)
<1> DEFINE Body(f, n) == IF n = 0 THEN NothingMerged
                         ELSE IF rules[n] \in allowed
                         THEN MergeOne(f[n - 1], rules[n].requirements)
                         ELSE f[n - 1]
           C == 0 .. Len(rules)
           L == {None, "CONFLICT"} \cup {r.requirements.minimumIsolationLevel : r \in Rules}
           R == [scopes : SUBSET Nat, level : L, timeoutMs : Optional(Int),
                 maxConcurrency : Optional(Int), verify : BOOLEAN]
           H(f) == [n \in C |-> Body(f, n)]
           F == [C -> R]
           h == [n \in C |-> n]
           step == [f \in F |-> H(f)]
<1>1. MergedUpTo(rules, allowed) = CHOOSE f : f = H(f)
    BY Zenon DEF MergedUpTo
<1>2. Len(rules) \in Nat /\ \A n \in C : n # 0 => n - 1 \in C /\ rules[n] \in Rules
    OBVIOUS
<1>3. h \in [C -> Nat] /\ \A n \in C : n # 0 => h[n - 1] < h[n]
    BY <1>2
<1>4. NothingMerged \in R
    BY DEF NothingMerged, Optional
<1>5. ASSUME NEW m \in R, NEW r \in Rules PROVE MergeOne(m, r.requirements) \in R
  <2> DEFINE q == r.requirements
             verify == m.verify \/ q.postVerificationRequired = TRUE
  <2>1. q.timeoutMs \in Optional(Int) /\ q.maxConcurrency \in Optional(Int)
    BY DEF Rules, Requirements
  <2>2. ScopesOf(q) \in SUBSET Nat
    BY FiniteScopes
  <2>3. q.minimumIsolationLevel \in L
    OBVIOUS
  <2> HIDE DEF q, L
  <2>4. /\ m.scopes \in SUBSET Nat /\ m.level \in L /\ m.timeoutMs \in Optional(Int)
        /\ m.maxConcurrency \in Optional(Int)
    OBVIOUS
  <2>5. MergeIsolation(m.level, q.minimumIsolationLevel) \in L
    BY <2>3, <2>4 DEF MergeIsolation, L
  <2>6. /\ MergeBound(m.timeoutMs, q.timeoutMs) \in Optional(Int)
        /\ MergeBound(m.maxConcurrency, q.maxConcurrency) \in Optional(Int)
    BY <2>1, <2>4 DEF MergeBound
  <2>7. verify \in BOOLEAN
    BY Zenon
  <2> DEFINE M == MergeOne(m, q)
  <2>8. M = [scopes |-> m.scopes \cup ScopesOf(q),
             level |-> MergeIsolation(m.level, q.minimumIsolationLevel),
             timeoutMs |-> MergeBound(m.timeoutMs, q.timeoutMs),
             maxConcurrency |-> MergeBound(m.maxConcurrency, q.maxConcurrency),
             verify |-> verify]
    BY Zenon DEF MergeOne
  <2> HIDE DEF verify, M
  <2>9. M \in R
    BY <2>2, <2>4, <2>5, <2>6, <2>7, <2>8
  <2> QED BY <2>9 DEF M, q
<1> HIDE DEF R, C, h
<1>6. ASSUME NEW f \in F, NEW n \in C PROVE Body(f, n) \in R
    BY <1>2, <1>4, <1>5
<1>7. ASSUME NEW f, NEW g, NEW n \in C,
             \A p \in C : h[p] < h[n] => f[p] = g[p]
      PROVE  Body(f, n) = Body(g, n)
  <2>1. n # 0 => f[n - 1] = g[n - 1]
    BY <1>2, <1>3, <1>7
  <2> QED BY <2>1, Zenon
<1> HIDE DEF Body
<1>8. step \in [F -> F]
    BY <1>6
<1>9. \A f \in F : step[f] = H(f)
    OBVIOUS
<1>10. \A f, g \in F : \A c \in C :
          (\A p \in C : h[p] < h[c] => f[p] = g[p]) => step[f][c] = step[g][c]
    BY <1>7
<1>11. F # {}
  <2>1. [n \in C |-> NothingMerged] \in F
    BY <1>4
  <2> QED BY <2>1, Zenon
<1> HIDE DEF step
<1>12. LooksBelow(C, R, h, step)
    BY <1>3, <1>8, <1>10, <1>11 DEF LooksBelow
<1>13. \E f \in F : f = step[f]
    BY <1>12, Recursion
<1>14. \E f : f = H(f)
    BY <1>9, <1>13
<1> HIDE DEF H
<1>15. MergedUpTo(rules, allowed) = H(MergedUpTo(rules, allowed))
    BY <1>1, <1>14, Zenon
<1> DEFINE merged == MergedUpTo(rules, allowed)
<1>16. \A n \in C : merged[n] = Body(merged, n)
    BY <1>15 DEF H
<1> HIDE DEF merged
<1> QED BY <1>16, Zenon DEF C, Body, merged, MergedInTurn

\* All that are allowed are merged.
LEMMA AllMerged ==
    ASSUME NEW rules \in Seq(Rules), \A i \in DOMAIN rules : Leveled(rules[i]),
           NEW allowed, allowed \subseteq ToSet(rules)
    PROVE  MergeOf(MergedUpTo(rules, allowed)[Len(rules)], allowed)
<1>0. MergedInTurn(MergedUpTo(rules, allowed), rules, allowed)
    BY MergedEquation
<1> DEFINE merged == MergedUpTo(rules, allowed)
           Taken(n) == {r \in allowed : \E i \in 1 .. n : rules[i] = r}
           C == 0 .. Len(rules)
           bad == {n \in C : ~MergeOf(merged[n], Taken(n))}
<1>1. Len(rules) \in Nat /\ DOMAIN rules = 1 .. Len(rules)
    OBVIOUS
<1>2. ASSUME NEW n \in C
      PROVE  merged[n] = IF n = 0 THEN NothingMerged
                         ELSE IF rules[n] \in allowed
                         THEN MergeOne(merged[n - 1], rules[n].requirements)
                         ELSE merged[n - 1]
    BY <1>0, Zenon DEF MergedInTurn
<1> HIDE DEF merged
<1>3. MergeOf(merged[0], Taken(0))
  <2>1. Taken(0) = {} /\ merged[0] = NothingMerged
    BY <1>1, <1>2
  <2>2. MergeOf(NothingMerged, {})
    BY FS_EmptySet DEF MergeOf, NothingMerged, ScopesOfAll, DemandsOf, LevelOf, BoundOf
  <2> QED BY <2>1, <2>2
<1>4. bad = {}
  <2>1. SUFFICES ASSUME bad # {} PROVE FALSE
    OBVIOUS
  <2>2. /\ bad \in SUBSET Nat
        /\ \A n \in C : n \in bad <=> ~MergeOf(merged[n], Taken(n))
        /\ \A n \in bad : n \in C
    BY <1>1
  <2>3. PICK n \in bad : \A k \in bad : n <= k
    <3> HIDE DEF bad
    <3> QED BY <2>1, <2>2, LeastNumber
  <2> HIDE DEF bad
  <2>9. n \in C /\ n # 0
    <3>1. 0 \in C
      BY <1>1
    <3>2. 0 \notin bad
      BY <1>3, <2>2, <3>1
    <3> QED BY <2>2, <2>3, <3>2, Zenon
  <2>4. n \in C /\ n # 0 /\ n - 1 \in C /\ n - 1 < n /\ n \in DOMAIN rules
    BY <1>1, <2>9
  <2>5. MergeOf(merged[n - 1], Taken(n - 1))
    <3>1. n - 1 \notin bad
      BY <2>2, <2>3, <2>4
    <3> QED BY <2>2, <2>4, <3>1
  <2>6. \A r \in Taken(n - 1) : Leveled(r)
    BY <1>1, <2>4
  <2>7. CASE rules[n] \in allowed
    <3>1. Taken(n) = Taken(n - 1) \cup {rules[n]}
      <4>1. 1 .. n = (1 .. n - 1) \cup {n}
        BY <1>1, <2>4
      <4> QED BY <2>7, <4>1
    <3>2. merged[n] = MergeOne(merged[n - 1], rules[n].requirements)
      BY <1>2, <2>4, <2>7
    <3>3. Leveled(rules[n])
      BY <2>4
    <3> HIDE DEF Taken
    <3>4. MergeOf(MergeOne(merged[n - 1], rules[n].requirements),
                  Taken(n - 1) \cup {rules[n]})
      BY <2>5, <2>6, <3>3, MergeStep
    <3> QED BY <2>2, <2>3, <2>4, <3>1, <3>2, <3>4
  <2>8. CASE rules[n] \notin allowed
    <3>1. Taken(n) = Taken(n - 1)
      <4>1. 1 .. n = (1 .. n - 1) \cup {n}
        BY <1>1, <2>4
      <4> QED BY <2>8, <4>1
    <3>2. merged[n] = merged[n - 1]
      BY <1>2, <2>4, <2>8
    <3> HIDE DEF Taken
    <3> QED BY <2>2, <2>3, <2>4, <2>5, <3>1, <3>2
  <2> QED BY <2>7, <2>8
<1>5. Taken(Len(rules)) = allowed
    BY <1>1 DEF ToSet
<1>6. Len(rules) \in C
    BY <1>1
<1>7. MergeOf(merged[Len(rules)], Taken(Len(rules)))
  <2> HIDE DEF Taken
  <2> QED BY <1>4, <1>6
<1> HIDE DEF Taken
<1> QED BY <1>5, <1>7 DEF merged

\* The elements of a finite set, one after another.
LEMMA Listed ==
    ASSUME NEW S, IsFiniteSet(S)
    PROVE  SetToSeq(S) \in Seq(S) /\ ToSet(SetToSeq(S)) = S
<1> DEFINE n == Cardinality(S)
           s == SetToSeq(S)
<1>1. n \in Nat /\ ExistsBijection(1 .. n, S)
    BY FS_CardinalityType
<1>2. PICK f \in [1 .. n -> S] : IsInjective(f)
    BY <1>1 DEF ExistsBijection, Bijection, Injection
<1>3. s \in [1 .. n -> S] /\ IsInjective(s)
    BY <1>2, Zenon DEF SetToSeq
<1> HIDE DEF s
<1>4. s \in Injection(1 .. n, S)
    BY <1>3 DEF Injection
<1>5. Cardinality(1 .. n) = n
    BY <1>1, FS_Interval
<1>6. s \in Surjection(1 .. n, S)
    BY <1>4, <1>5, FS_Injection
<1>7. s \in Seq(S)
    BY <1>1, <1>3
<1>8. ToSet(s) = S
    BY <1>1, <1>3, <1>6 DEF ToSet, Surjection
<1> QED BY <1>7, <1>8 DEF s

\* The requirements that the rules of A come to.
Merges(merged, A) ==
    /\ ToSet(IF merged.permissionScopes = None THEN <<>> ELSE merged.permissionScopes)
          = ScopesOfAll(A)
    /\ LevelOf(merged.minimumIsolationLevel, DemandsOf(A, "minimumIsolationLevel"))
    /\ BoundOf(merged.timeoutMs, DemandsOf(A, "timeoutMs"))
    /\ BoundOf(merged.maxConcurrency, DemandsOf(A, "maxConcurrency"))
    /\ merged.postVerificationRequired = TRUE
          <=> \E r \in A : r.requirements.postVerificationRequired = TRUE
    /\ merged = NoRequirements <=>
          /\ ScopesOfAll(A) = {} /\ DemandsOf(A, "minimumIsolationLevel") = {}
          /\ DemandsOf(A, "timeoutMs") = {} /\ DemandsOf(A, "maxConcurrency") = {}
          /\ ~\E r \in A : r.requirements.postVerificationRequired = TRUE

\* mergeRequirements gives what the rules that allow demand, as a set.
LEMMA MergedRequirements ==
    ASSUME NEW rules \in Seq(Rules), \A i \in DOMAIN rules : Leveled(rules[i]),
           NEW allowed, allowed \subseteq ToSet(rules)
    PROVE  Merges(mergeRequirements(rules, allowed), allowed)
<1> DEFINE m == MergedUpTo(rules, allowed)[Len(rules)]
           scopes == Sorted(SetToSeq(m.scopes))
           merged == mergeRequirements(rules, allowed)
<1>1. MergeOf(m, allowed)
    BY AllMerged
<1>2. merged = [permissionScopes |-> IF m.scopes = {} THEN None ELSE scopes,
                minimumIsolationLevel |-> m.level,
                timeoutMs |-> m.timeoutMs, maxConcurrency |-> m.maxConcurrency,
                postVerificationRequired |-> IF m.verify THEN TRUE ELSE None]
    BY DEF mergeRequirements
<1> HIDE DEF m, merged
<1>3. m.scopes = ScopesOfAll(allowed) /\ m.scopes \in SUBSET Nat /\ IsFiniteSet(m.scopes)
    BY <1>1 DEF MergeOf
<1>4. scopes \in Seq(Nat) /\ ToSet(scopes) = m.scopes
  <2>1. SetToSeq(m.scopes) \in Seq(m.scopes) /\ ToSet(SetToSeq(m.scopes)) = m.scopes
    BY <1>3, Listed
  <2>2. SetToSeq(m.scopes) \in Seq(Nat)
    BY <1>3, <2>1
  <2> QED BY <2>1, <2>2, SortedNames
<1> HIDE DEF scopes
<1>5. scopes # None /\ None # TRUE
    BY <1>4, Absent
<1>6. /\ merged.permissionScopes = IF m.scopes = {} THEN None ELSE scopes
      /\ merged.minimumIsolationLevel = m.level
      /\ merged.timeoutMs = m.timeoutMs /\ merged.maxConcurrency = m.maxConcurrency
      /\ merged.postVerificationRequired = IF m.verify THEN TRUE ELSE None
    BY <1>2
<1>7. ToSet(IF merged.permissionScopes = None THEN <<>> ELSE merged.permissionScopes)
          = ScopesOfAll(allowed)
    BY <1>3, <1>4, <1>5, <1>6 DEF ToSet
<1>8. merged.postVerificationRequired = TRUE
          <=> \E r \in allowed : r.requirements.postVerificationRequired = TRUE
    BY <1>1, <1>5, <1>6 DEF MergeOf
<1>9. /\ m.level = None <=> DemandsOf(allowed, "minimumIsolationLevel") = {}
      /\ m.timeoutMs = None <=> DemandsOf(allowed, "timeoutMs") = {}
      /\ m.maxConcurrency = None <=> DemandsOf(allowed, "maxConcurrency") = {}
  <2>1. /\ None \notin DemandsOf(allowed, "minimumIsolationLevel")
        /\ None \notin DemandsOf(allowed, "timeoutMs")
        /\ None \notin DemandsOf(allowed, "maxConcurrency")
    BY DEF DemandsOf
  <2>2. None # "PROCESS_RESTRICTED" /\ None # "CONFLICT"
    BY Absent DEF Levels
  <2> QED BY <1>1, <2>1, <2>2 DEF MergeOf, LevelOf, BoundOf
<1>10. merged = NoRequirements <=>
           /\ m.scopes = {} /\ m.level = None /\ m.timeoutMs = None
           /\ m.maxConcurrency = None /\ ~m.verify
    BY <1>2, <1>5 DEF NoRequirements
<1>11. m.verify <=> \E r \in allowed : r.requirements.postVerificationRequired = TRUE
    BY <1>1 DEF MergeOf
<1>12. /\ LevelOf(merged.minimumIsolationLevel, DemandsOf(allowed, "minimumIsolationLevel"))
       /\ BoundOf(merged.timeoutMs, DemandsOf(allowed, "timeoutMs"))
       /\ BoundOf(merged.maxConcurrency, DemandsOf(allowed, "maxConcurrency"))
    BY <1>1, <1>6 DEF MergeOf
<1>13. merged = NoRequirements <=>
          /\ ScopesOfAll(allowed) = {} /\ DemandsOf(allowed, "minimumIsolationLevel") = {}
          /\ DemandsOf(allowed, "timeoutMs") = {} /\ DemandsOf(allowed, "maxConcurrency") = {}
          /\ ~\E r \in allowed : r.requirements.postVerificationRequired = TRUE
    BY <1>3, <1>9, <1>10, <1>11
<1>14. Merges(merged, allowed)
    BY <1>7, <1>8, <1>12, <1>13, Zenon DEF Merges
<1> QED BY <1>14 DEF merged
-----------------------------------------------------------------------------
(* Decisions.                                                              *)

\* What compileRule has looked at.
LEMMA AcceptedRule ==
    ASSUME NEW r \in Rules, NEW constants, RuleFault(r, constants) = "ok"
    PROVE  Leveled(r) /\ ConditionFault(constants)[ConditionDepth][r.when] = "ok"
<1> DEFINE q == r.requirements
           one == sortedUniqueStrings(r.subjectTypes)
           two == sortedUniqueStrings(r.resourceTypes)
           three == ConditionFault(constants)[ConditionDepth][r.when]
           four == RequirementsFault(q)
           scopes == IF q.permissionScopes = None THEN "ok"
                     ELSE sortedUniqueStrings(q.permissionScopes)
           level == Unless(q.minimumIsolationLevel \in Levels \cup {None},
                           "INVALID_REQUIREMENTS")
           Positive(n) == Unless(n = None \/ n >= 1, "INVALID_REQUIREMENTS")
           timeout == Positive(q.timeoutMs)
           concurrency == Positive(q.maxConcurrency)
<1>1. FirstFault(<<r.form, one, two, three, four>>) = "ok"
    BY DEF RuleFault
<1>2. four = FirstFault(<<scopes, level, timeout, concurrency>>)
    BY Zenon DEF RequirementsFault
<1>3. level = "ok" => q.minimumIsolationLevel \in Levels \cup {None}
    BY DEF Unless
<1> HIDE DEF one, two, three, four, scopes, level, timeout, concurrency
<1>4. three = "ok" /\ four = "ok"
  <2> DEFINE checks == <<r.form, one, two, three, four>>
  <2>1. DOMAIN checks = 1 .. 5 /\ checks[4] = three /\ checks[5] = four
    OBVIOUS
  <2>2. FirstFault(checks) = "ok"
    BY <1>1
  <2> HIDE DEF checks
  <2>3. DOMAIN checks \in SUBSET Nat /\ 4 \in DOMAIN checks /\ 5 \in DOMAIN checks
    BY <2>1
  <2>4. \A i \in DOMAIN checks : checks[i] = "ok"
    BY <2>2, <2>3, NoFault
  <2> QED BY <2>1, <2>3, <2>4
<1>5. level = "ok"
  <2> DEFINE checks == <<scopes, level, timeout, concurrency>>
  <2>1. DOMAIN checks = 1 .. 4 /\ checks[2] = level
    OBVIOUS
  <2>2. FirstFault(checks) = "ok"
    BY <1>2, <1>4
  <2> HIDE DEF checks
  <2>3. DOMAIN checks \in SUBSET Nat /\ 2 \in DOMAIN checks
    BY <2>1
  <2>4. \A i \in DOMAIN checks : checks[i] = "ok"
    BY <2>2, <2>3, NoFault
  <2> QED BY <2>1, <2>3, <2>4
<1> QED BY <1>3, <1>4, <1>5 DEF Leveled, three, q

\* The same requirements of other rules come to the same.
LEMMA SameMerge ==
    ASSUME NEW A, NEW B, NEW merged, Merges(merged, B),
           ScopesOfAll(A) = ScopesOfAll(B),
           DemandsOf(A, "minimumIsolationLevel") = DemandsOf(B, "minimumIsolationLevel"),
           DemandsOf(A, "timeoutMs") = DemandsOf(B, "timeoutMs"),
           DemandsOf(A, "maxConcurrency") = DemandsOf(B, "maxConcurrency"),
           (\E r \in A : r.requirements.postVerificationRequired = TRUE)
              <=> \E r \in B : r.requirements.postVerificationRequired = TRUE
    PROVE  Merges(merged, A)
    BY DEF Merges

\* The rules of a policy set that apply, and those that match.
RelevantOf(set, in) == {r \in ToSet(set.rules) : Applies(r, in)}
MatchingOf(set, in, effect) ==
    {r \in RelevantOf(set, in) : /\ r.ruleEffect = effect
                                 /\ Satisfied(in, set.constants)[r.when]}
\* What a decision on an acceptable policy set is to be.
DecidedBy(made, set, in) ==
    IF \E r \in RelevantOf(set, in) : ~Defined(r.when, in, set.constants)
    THEN made.outcome = "INDETERMINATE"
    ELSE IF MatchingOf(set, in, "DENY") # {} \/ MatchingOf(set, in, "ALLOW") = {}
    THEN made.outcome = "DENY"
    ELSE \E merged :
            /\ Merges(merged, MatchingOf(set, in, "ALLOW"))
            /\ IF merged.minimumIsolationLevel = "CONFLICT"
               THEN made.outcome = "INDETERMINATE"
               ELSE /\ made.requirements = merged
                    /\ made.outcome = IF merged = NoRequirements THEN "ALLOW"
                                      ELSE "ALLOW_WITH_REQUIREMENTS"

\* A decision from rules and constants.
EvaluateRules(rules, constants, in) ==
    LET result == evaluateCondition(in, constants)
        applicable == {i \in DOMAIN rules : Applies(rules[i], in)}
        undefined == {i \in applicable : ~result[rules[i].when].ok}
        matching == {i \in applicable : /\ result[rules[i].when].matched
                                        /\ \A j \in undefined : i < j}
        matched == {rules[i] : i \in matching}
        denied == {r \in matched : r.ruleEffect = "DENY"}
        allowed == {r \in matched : r.ruleEffect = "ALLOW"}
        merged == mergeRequirements(rules, allowed)
    IN  IF undefined # {} THEN Indeterminate(matched, "CONDITION_TYPE_MISMATCH")
        ELSE IF denied # {}
        THEN Deny(matched, {}, {r.reasonCode : r \in denied})
        ELSE IF allowed = {} THEN Deny({}, {}, {"DEFAULT_DENY"})
        ELSE IF merged.minimumIsolationLevel = "CONFLICT"
        THEN Indeterminate(allowed, "REQUIREMENTS_CONFLICT")
        ELSE Decision(IF merged = NoRequirements THEN "ALLOW"
                      ELSE "ALLOW_WITH_REQUIREMENTS",
                      allowed, {}, merged, {})

\* Of a policy set, a decision uses the rules and the constants.
LEMMA RulesDecide ==
    ASSUME NEW set, NEW in
    PROVE  Evaluate(set, in) = EvaluateRules(set.rules, set.constants, in)
BY Zenon DEF Evaluate, EvaluateRules

\* Evaluating a compiled policy set in the order of its rules decides what its
\* rules decide as a set.
LEMMA Decided ==
    ASSUME NEW set, PolicySetType(set), Acceptable(set), NEW in \in Inputs, in.form = "ok"
    PROVE  DecidedBy(Evaluate(CompiledSet(set), in), set, in)
<1> DEFINE D == DOMAIN set.rules
           rules == CompiledRules(set)
           constants == set.constants
           result == evaluateCondition(in, constants)
           satisfied == Satisfied(in, constants)
           applicable == {i \in DOMAIN rules : Applies(rules[i], in)}
           undefined == {i \in applicable : ~result[rules[i].when].ok}
           matching == {i \in applicable : /\ result[rules[i].when].matched
                                           /\ \A j \in undefined : i < j}
           matched == {rules[i] : i \in matching}
           denied == {r \in matched : r.ruleEffect = "DENY"}
           allowed == {r \in matched : r.ruleEffect = "ALLOW"}
           merged == mergeRequirements(rules, allowed)
           made == Evaluate(CompiledSet(set), in)
           all == ToSet(set.rules)
           met == {r \in RelevantOf(set, in) : satisfied[r.when]}
<1>1. /\ set.rules \in Seq(Rules) /\ D = 1 .. Len(set.rules) /\ Len(set.rules) \in Nat
      /\ \A n \in DOMAIN constants : constants[n] # None
    BY DEF PolicySetType
<1>2. CompiledSet(set).rules = rules /\ CompiledSet(set).constants = constants
    BY DEF CompiledSet, PolicySetType
<1>3. made =
        IF undefined # {} THEN Indeterminate(matched, "CONDITION_TYPE_MISMATCH")
        ELSE IF denied # {}
        THEN Deny(matched, {}, {r.reasonCode : r \in denied})
        ELSE IF allowed = {} THEN Deny({}, {}, {"DEFAULT_DENY"})
        ELSE IF merged.minimumIsolationLevel = "CONFLICT"
        THEN Indeterminate(allowed, "REQUIREMENTS_CONFLICT")
        ELSE Decision(IF merged = NoRequirements THEN "ALLOW"
                      ELSE "ALLOW_WITH_REQUIREMENTS",
                      allowed, {}, merged, {})
  <2>1. made = EvaluateRules(rules, constants, in)
    <3> HIDE DEF rules, constants
    <3> QED BY <1>2, RulesDecide
  <2> HIDE DEF made
  <2> QED BY <2>1, Zenon DEF EvaluateRules
<1>4. PICK p \in Bijection(D, D) : rules = [n \in D |-> compileRule(set.rules[p[n]])]
    BY CompiledOrder
<1>5. /\ p \in [D -> D] /\ \A i \in D : \E n \in D : p[n] = i
    BY <1>4 DEF Bijection, Surjection, Injection
<1> HIDE DEF rules, made
<1>6. /\ \A i \in DOMAIN rules : \E r \in all : rules[i] = compileRule(r)
      /\ \A r \in all : \E i \in DOMAIN rules : rules[i] = compileRule(r)
    BY <1>4, <1>5 DEF ToSet
<1>7. ASSUME NEW r \in all
      PROVE  /\ r \in Rules /\ compileRule(r) \in Rules /\ Leveled(compileRule(r))
             /\ compileRule(r).when = r.when /\ compileRule(r).ruleEffect = r.ruleEffect
             /\ Applies(compileRule(r), in) <=> Applies(r, in)
             /\ Meant(r.when, in, constants)
  <2>1. PICK i \in D : r = set.rules[i]
    BY DEF ToSet
  <2>2. r \in Rules /\ RuleFault(r, constants) = "ok"
    BY <1>1, <2>1 DEF Acceptable
  <2>3. Leveled(r) /\ ConditionFault(constants)[ConditionDepth][r.when] = "ok"
    BY <2>2, AcceptedRule
  <2>4. r.when \in Conditions
    BY <2>2 DEF Rules
  <2>5. \A reference \in InputReferences : in[reference] # None
    BY ValuesAssumption
  <2>6. ConditionDepth \in -1 .. ConditionDepth
    BY ConditionsAssumption
  <2>7. Meant(r.when, in, constants)
    BY <1>1, <2>3, <2>4, <2>5, <2>6, ConditionMeaning
  <2>8. /\ compileRule(r) \in Rules
        /\ compileRule(r).when = r.when /\ compileRule(r).ruleEffect = r.ruleEffect
        /\ compileRule(r).domain = r.domain /\ compileRule(r).action = r.action
        /\ ToSet(compileRule(r).subjectTypes) = ToSet(r.subjectTypes)
        /\ ToSet(compileRule(r).resourceTypes) = ToSet(r.resourceTypes)
        /\ compileRule(r).requirements.minimumIsolationLevel
              = r.requirements.minimumIsolationLevel
    BY <2>2, CompiledRule
  <2>9. Applies(compileRule(r), in) <=> Applies(r, in)
    BY <2>8 DEF Applies
  <2>10. Leveled(compileRule(r))
    BY <2>3, <2>8 DEF Leveled
  <2> QED BY <2>2, <2>7, <2>8, <2>9, <2>10
<1>8. undefined # {} <=> \E r \in RelevantOf(set, in) : ~Defined(r.when, in, constants)
  <2>1. \A r \in all : result[r.when].ok <=> Defined(r.when, in, constants)
    BY <1>7 DEF Meant
  <2> HIDE DEF result, all
  <2>2. undefined # {} <=> \E r \in all : Applies(r, in) /\ ~result[r.when].ok
    BY <1>6, <1>7
  <2> QED BY <2>1, <2>2 DEF RelevantOf, all
<1>9. undefined = {} => matched = {compileRule(r) : r \in met}
  <2>1. SUFFICES ASSUME undefined = {} PROVE matched = {compileRule(r) : r \in met}
    OBVIOUS
  <2>2. ASSUME NEW r \in all, Applies(r, in)
        PROVE  result[r.when].matched <=> satisfied[r.when]
    <3>1. Defined(r.when, in, constants)
      BY <1>8, <2>1, <2>2 DEF RelevantOf
    <3> QED BY <1>7, <3>1 DEF Meant
  <2>3. matched = {rules[i] : i \in {j \in DOMAIN rules :
                                       /\ Applies(rules[j], in)
                                       /\ result[rules[j].when].matched}}
    BY <2>1
  <2> HIDE DEF result, satisfied, all, matched
  <2>4. met = {r \in all : Applies(r, in) /\ satisfied[r.when]}
    BY DEF RelevantOf, all
  <2> HIDE DEF met
  <2>5. ASSUME NEW x \in matched PROVE \E r \in met : x = compileRule(r)
    <3>1. PICK i \in DOMAIN rules : /\ x = rules[i] /\ Applies(rules[i], in)
                                    /\ result[rules[i].when].matched
      BY <2>3
    <3>2. PICK r \in all : rules[i] = compileRule(r)
      BY <1>6
    <3> QED BY <1>7, <2>2, <2>4, <3>1, <3>2
  <2>6. ASSUME NEW r \in met PROVE compileRule(r) \in matched
    <3>1. r \in all /\ Applies(r, in) /\ satisfied[r.when]
      BY <2>4
    <3>2. PICK i \in DOMAIN rules : rules[i] = compileRule(r)
      BY <1>6, <3>1
    <3> QED BY <1>7, <2>2, <2>3, <3>1, <3>2
  <2> QED BY <2>5, <2>6
<1>10. MatchingOf(set, in, "ALLOW") = {r \in met : r.ruleEffect = "ALLOW"}
       /\ MatchingOf(set, in, "DENY") = {r \in met : r.ruleEffect = "DENY"}
       /\ met \subseteq all
    BY DEF MatchingOf, RelevantOf
<1>11. undefined = {} => /\ allowed = {compileRule(r) : r \in MatchingOf(set, in, "ALLOW")}
                        /\ denied = {compileRule(r) : r \in MatchingOf(set, in, "DENY")}
  <2> HIDE DEF undefined, met, matched, all
  <2> QED BY <1>7, <1>9, <1>10
<1> HIDE DEF undefined, denied, met
<1>12. allowed \subseteq ToSet(rules)
    BY DEF ToSet
<1>13. rules \in Seq(Rules) /\ \A i \in DOMAIN rules : Leveled(rules[i])
  <2>1. \A i \in DOMAIN rules : rules[i] \in Rules /\ Leveled(rules[i])
    BY <1>6, <1>7
  <2>2. rules \in Seq(Rules)
    BY CompiledType DEF rules
  <2> QED BY <2>1, <2>2, Zenon
<1> HIDE DEF allowed
<1>14. Merges(merged, allowed)
    BY <1>12, <1>13, MergedRequirements
<1>15. ASSUME undefined = {} PROVE Merges(merged, MatchingOf(set, in, "ALLOW"))
  <2> DEFINE A == MatchingOf(set, in, "ALLOW")
  <2>1. \A r \in A : r \in Rules
    BY <1>7, <1>10
  <2>2. allowed = {compileRule(r) : r \in A}
    BY <1>11, <1>15
  <2>3. ASSUME NEW r \in A
        PROVE  /\ ScopesOf(compileRule(r).requirements) = ScopesOf(r.requirements)
               /\ compileRule(r).requirements.minimumIsolationLevel
                     = r.requirements.minimumIsolationLevel
               /\ compileRule(r).requirements.timeoutMs = r.requirements.timeoutMs
               /\ compileRule(r).requirements.maxConcurrency = r.requirements.maxConcurrency
               /\ compileRule(r).requirements.postVerificationRequired
                     = r.requirements.postVerificationRequired
    BY <2>1, CompiledRule
  <2> HIDE DEF A, merged
  <2>4. ScopesOfAll(A) = ScopesOfAll(allowed)
    BY <2>2, <2>3 DEF ScopesOfAll
  <2>5. /\ DemandsOf(A, "minimumIsolationLevel") = DemandsOf(allowed, "minimumIsolationLevel")
        /\ DemandsOf(A, "timeoutMs") = DemandsOf(allowed, "timeoutMs")
        /\ DemandsOf(A, "maxConcurrency") = DemandsOf(allowed, "maxConcurrency")
    BY <2>2, <2>3 DEF DemandsOf
  <2>6. (\E r \in A : r.requirements.postVerificationRequired = TRUE)
           <=> \E r \in allowed : r.requirements.postVerificationRequired = TRUE
    BY <2>2, <2>3
  <2>7. Merges(merged, A)
    BY <1>14, <2>4, <2>5, <2>6, SameMerge
  <2> QED BY <2>7 DEF A
<1> HIDE DEF merged
<1>16. CASE undefined # {}
  <2>1. made.outcome = "INDETERMINATE"
    BY <1>3, <1>16 DEF Indeterminate, Decision
  <2> QED BY <1>8, <1>16, <2>1, Zenon DEF DecidedBy, made
<1>17. CASE undefined = {} /\ (denied # {} \/ allowed = {})
  <2>1. made.outcome = "DENY"
    BY <1>3, <1>17 DEF Deny, Decision
  <2>2. MatchingOf(set, in, "DENY") # {} \/ MatchingOf(set, in, "ALLOW") = {}
    BY <1>11, <1>17
  <2> QED BY <1>8, <1>17, <2>1, <2>2, Zenon DEF DecidedBy, made
<1>18. CASE undefined = {} /\ denied = {} /\ allowed # {}
  <2>1. MatchingOf(set, in, "DENY") = {} /\ MatchingOf(set, in, "ALLOW") # {}
    BY <1>11, <1>18
  <2>2. IF merged.minimumIsolationLevel = "CONFLICT"
        THEN made.outcome = "INDETERMINATE"
        ELSE /\ made.requirements = merged
             /\ made.outcome = IF merged = NoRequirements THEN "ALLOW"
                               ELSE "ALLOW_WITH_REQUIREMENTS"
    BY <1>3, <1>18 DEF Indeterminate, Decision
  <2>3. Merges(merged, MatchingOf(set, in, "ALLOW"))
    BY <1>15, <1>18
  <2>4. ~\E r \in RelevantOf(set, in) : ~Defined(r.when, in, set.constants)
    BY <1>8, <1>18
  <2> QED BY <2>1, <2>2, <2>3, <2>4, Zenon DEF DecidedBy, made
<1> QED BY <1>16, <1>17, <1>18
-----------------------------------------------------------------------------
(* What holds in every state of the policy engine.                         *)

\* A result, a snapshot and a decision are what their calls return for what
\* was there when they were called.
PolicyInv ==
    /\ source = None => compiled = None
    /\ source # None => source \in Sources /\ compiled = compilePolicySet(source)
    /\ snapshot # None =>
          /\ source # None /\ compiled.ok
          /\ \E id \in SnapshotIds : snapshot = createPolicySnapshot(compiled.value, id)
    /\ decision # None =>
          /\ snapshot # None /\ given \in Presented /\ input \in Inputs
          /\ decision = evaluatePolicy(given, input)

\* Every call keeps PolicyInv.
LEMMA PolicyInvStep == PolicyInv /\ [PolicyNext]_policyVars => PolicyInv'
<1> SUFFICES ASSUME PolicyInv, [PolicyNext]_policyVars PROVE PolicyInv'
    OBVIOUS
<1>1. CASE Compile
  <2>1. /\ source = None /\ snapshot = None /\ decision = None
        /\ snapshot' = None /\ decision' = None
    BY <1>1 DEF PolicyInv, Compile
  <2>2. source' \in Sources /\ source' # None /\ compiled' = compilePolicySet(source')
    BY <1>1, ValuesAssumption DEF Compile
  <2> QED BY <2>1, <2>2 DEF PolicyInv
<1>2. CASE CreateSnapshot
  <2>1. /\ source # None /\ decision = None /\ decision' = None
        /\ source' = source /\ compiled' = compiled /\ compiled.ok
    BY <1>2 DEF PolicyInv, CreateSnapshot
  <2>2. \E id \in SnapshotIds : snapshot' = createPolicySnapshot(compiled'.value, id)
    BY <1>2, <2>1, Zenon DEF CreateSnapshot
  <2> QED BY <2>1, <2>2 DEF PolicyInv
<1>3. CASE EvaluatePolicy
  <2>1. /\ UNCHANGED <<source, compiled, snapshot>> /\ snapshot # None
        /\ given' \in Presented /\ input' \in Inputs
        /\ decision' = evaluatePolicy(given', input')
    BY <1>3 DEF EvaluatePolicy
  <2>2. Presented' = Presented
    BY <2>1 DEF Presented
  <2> QED BY <2>1, <2>2 DEF PolicyInv
<1>4. CASE UNCHANGED policyVars
  BY <1>4 DEF PolicyInv, policyVars, Presented
<1> QED BY <1>1, <1>2, <1>3, <1>4 DEF PolicyNext

\* compilePolicySet, createPolicySnapshot and evaluatePolicy: in every state the
\* result, the snapshot and the decision are those of what they were made from.
LEMMA PolicyConsistent == PolicySpec => []PolicyInv
<1>1. PolicyInit => PolicyInv
    BY DEF PolicyInit, PolicyInv
<1> QED BY <1>1, PolicyInvStep, PTL DEF PolicySpec

IsSnapshot(snap) ==
    snap = [form |-> snap.form, snapshotId |-> snap.snapshotId,
            policySetId |-> snap.policySetId, policyVersion |-> snap.policyVersion,
            policyHash |-> snap.policyHash, compiledPolicySet |-> snap.compiledPolicySet]

\* What a snapshot that is presented is made of.
LEMMA PresentedSet ==
    ASSUME PolicyInv, snapshot # None, NEW snap \in Presented
    PROVE  /\ PolicySetType(source) /\ Acceptable(source)
           /\ compiled = [ok |-> TRUE, value |-> CompiledSet(source),
                          sha256 |-> hashPolicyValue(CompiledSet(source))]
           /\ PolicySetType(snap.compiledPolicySet)
           /\ snap.policySetId = CompiledSet(source).policySetId
           /\ snap.policyVersion = CompiledSet(source).version
           /\ snap.policyHash = hashPolicyValue(CompiledSet(source))
           /\ snap.form \in {"ok", "INVALID_EVALUATION_VALUE"} /\ IsSnapshot(snap)
<1>1. PolicySetType(source) /\ compiled = compilePolicySet(source) /\ compiled.ok
    BY ValuesAssumption DEF PolicyInv
<1>2. Acceptable(source)
    BY <1>1, Compiles
<1>3. compiled = [ok |-> TRUE, value |-> CompiledSet(source),
                  sha256 |-> hashPolicyValue(CompiledSet(source))]
    BY <1>1, <1>2, Compiles
<1> DEFINE set == CompiledSet(source)
<1>4. compiled.value = set
    BY <1>3
<1>5. PICK id \in SnapshotIds : snapshot = createPolicySnapshot(set, id)
    BY <1>4 DEF PolicyInv
<1>6. PolicySetType(set)
    BY <1>1, CompiledType
<1> HIDE DEF set
<1>7. snapshot = [form |-> "ok", snapshotId |-> id, policySetId |-> set.policySetId,
                  policyVersion |-> set.version, policyHash |-> hashPolicyValue(set),
                  compiledPolicySet |-> set]
    BY <1>5 DEF createPolicySnapshot
<1>8. /\ PolicySetType(snap.compiledPolicySet) /\ snap.policySetId = set.policySetId
      /\ snap.policyVersion = set.version /\ snap.policyHash = hashPolicyValue(set)
      /\ snap.form \in {"ok", "INVALID_EVALUATION_VALUE"} /\ IsSnapshot(snap)
  <2>1. CASE snap = snapshot
    BY <1>6, <1>7, <2>1 DEF IsSnapshot
  <2>2. CASE snap = [snapshot EXCEPT !.compiledPolicySet.rules = Reverse(@)]
    <3> DEFINE rules == Reverse(set.rules)
               other == [set EXCEPT !.rules = rules]
    <3>1. set.rules \in Seq(Rules) /\ Len(set.rules) \in Nat
      BY <1>6 DEF PolicySetType
    <3>2. rules \in Seq(Rules)
      BY <3>1 DEF Reverse
    <3> HIDE DEF rules
    <3>3. PolicySetType(other)
      BY <1>6, <3>2 DEF PolicySetType
    <3>4. snap = [snapshot EXCEPT !.compiledPolicySet = other]
      BY <1>7, <2>2 DEF rules
    <3> HIDE DEF other
    <3> QED BY <1>7, <3>3, <3>4 DEF IsSnapshot
  <2>3. CASE snap = [snapshot EXCEPT !.form = "INVALID_EVALUATION_VALUE"]
    BY <1>6, <1>7, <2>3 DEF IsSnapshot
  <2>4. CASE \E other \in Replacements : snap = [snapshot EXCEPT !.compiledPolicySet = other]
    <3>1. PICK other \in Replacements : snap = [snapshot EXCEPT !.compiledPolicySet = other]
      BY <2>4
    <3>2. PolicySetType(other)
      BY ValuesAssumption
    <3> QED BY <1>7, <3>1, <3>2 DEF IsSnapshot
  <2> QED BY <2>1, <2>2, <2>3, <2>4 DEF Presented
<1> QED BY <1>1, <1>2, <1>3, <1>8 DEF set

\* What evaluatePolicy checks of a snapshot is what makes it trusted: it
\* compiles to the set that its hash was made of.
LEMMA TrustChecked ==
    ASSUME PolicyInv, decision # None
    PROVE  LET again == compilePolicySet(given.compiledPolicySet)
           IN  Trusted <=> /\ given.form = "ok" /\ input.form = "ok"
                           /\ again.ok /\ validateSnapshot(given, input, again)
<1> DEFINE set == given.compiledPolicySet
           again == compilePolicySet(set)
<1>1. /\ compiled = [ok |-> TRUE, value |-> CompiledSet(source),
                     sha256 |-> hashPolicyValue(CompiledSet(source))]
      /\ PolicySetType(set)
      /\ given.policySetId = CompiledSet(source).policySetId
      /\ given.policyVersion = CompiledSet(source).version
      /\ given.policyHash = hashPolicyValue(CompiledSet(source))
    BY PresentedSet DEF PolicyInv
<1>2. again.ok => again = [ok |-> TRUE, value |-> CompiledSet(set),
                           sha256 |-> hashPolicyValue(CompiledSet(set))]
    BY <1>1, Compiles
<1> HIDE DEF again, set
<1>3. ASSUME again = compiled, given.form = "ok", input.policySnapshotId = given.snapshotId
      PROVE  again.ok /\ validateSnapshot(given, input, again)
    BY <1>1, <1>3 DEF validateSnapshot
<1>4. ASSUME again.ok, validateSnapshot(given, input, again)
      PROVE  again = compiled /\ input.policySnapshotId = given.snapshotId
  <2>1. hashPolicyValue(CompiledSet(source)) = hashPolicyValue(CompiledSet(set))
    BY <1>1, <1>2, <1>4 DEF validateSnapshot
  <2>2. CompiledSet(source) = CompiledSet(set)
    BY <2>1 DEF hashPolicyValue
  <2> QED BY <1>1, <1>2, <1>4, <2>2 DEF validateSnapshot
<1> QED BY <1>3, <1>4 DEF Trusted, again, set

\* The three ways of evaluatePolicy: no trust, a hard invariant, the rules.
LEMMA DecisionCases ==
    ASSUME PolicyInv, decision # None
    PROVE  /\ ~Trusted => decision.outcome = "INDETERMINATE"
           /\ Trusted /\ hardInvariantViolations(input) # {} => decision.outcome = "DENY"
           /\ Trusted /\ hardInvariantViolations(input) = {} =>
                 DecidedBy(decision, given.compiledPolicySet, input)
<1> DEFINE set == given.compiledPolicySet
           again == compilePolicySet(set)
           hard == hardInvariantViolations(input)
           valid == validateSnapshot(given, input, again)
<1>1. Trusted <=> given.form = "ok" /\ input.form = "ok" /\ again.ok /\ valid
    BY TrustChecked, Zenon
<1>2. PolicySetType(set) /\ input \in Inputs
    BY PresentedSet DEF PolicyInv
<1>3. /\ again.ok <=> Acceptable(set)
      /\ again.ok => again.value = CompiledSet(set)
    BY <1>2, Compiles
<1>4. decision =
        IF "INVALID_EVALUATION_VALUE" \in {given.form, input.form}
        THEN Indeterminate({}, "INVALID_EVALUATION_VALUE")
        ELSE IF input.form # "ok" THEN Indeterminate({}, "INVALID_EVALUATION_INPUT")
        ELSE IF ~again.ok THEN Indeterminate({}, "INVALID_POLICY_SNAPSHOT")
        ELSE IF ~valid THEN Indeterminate({}, "INVALID_POLICY_SNAPSHOT")
        ELSE IF hard # {} THEN Deny({}, hard, {"HARD_INVARIANT_VIOLATION"})
        ELSE Evaluate(again.value, input)
  <2>1. decision = evaluatePolicy(given, input)
    BY DEF PolicyInv
  <2> QED BY <2>1, Zenon DEF evaluatePolicy, validateInput
<1>5. given.form \in {"ok", "INVALID_EVALUATION_VALUE"}
    BY PresentedSet DEF PolicyInv
<1> HIDE DEF again, hard, valid, set
<1>6. CASE ~Trusted
  <2>1. \/ decision = Indeterminate({}, "INVALID_EVALUATION_VALUE")
        \/ decision = Indeterminate({}, "INVALID_EVALUATION_INPUT")
        \/ decision = Indeterminate({}, "INVALID_POLICY_SNAPSHOT")
    BY <1>1, <1>4, <1>5, <1>6
  <2> QED BY <1>6, <2>1 DEF Indeterminate, Decision
<1>7. CASE Trusted
  <2>1. decision = IF hard # {} THEN Deny({}, hard, {"HARD_INVARIANT_VIOLATION"})
                   ELSE Evaluate(again.value, input)
    BY <1>1, <1>4, <1>7
  <2>2. hard # {} => decision.outcome = "DENY"
    BY <2>1 DEF Deny, Decision
  <2>3. hard = {} => decision = Evaluate(CompiledSet(set), input)
    BY <1>1, <1>3, <1>7, <2>1
  <2>4. hard = {} => DecidedBy(decision, set, input)
    BY <1>1, <1>2, <1>3, <1>7, <2>3, Decided
  <2> QED BY <1>7, <2>2, <2>4 DEF hard, set
<1> QED BY <1>6, <1>7

\* The rules that FailClosed and RequirementsStrict speak of.
LEMMA SameSelection ==
    /\ Relevant = RelevantOf(given.compiledPolicySet, input)
    /\ \A effect : Matching(effect) = MatchingOf(given.compiledPolicySet, input, effect)
    /\ \A field : Demands(field) = DemandsOf(Matching("ALLOW"), field)
BY Zenon DEF Relevant, RelevantOf, Matching, MatchingOf, Demands, DemandsOf

\* The levels that accepted rules demand are levels, so there are finitely many.
LEMMA DemandedLevels ==
    ASSUME PolicyInv, decision # None, Trusted
    PROVE  Demands("minimumIsolationLevel") \subseteq Levels
<1> DEFINE set == given.compiledPolicySet
<1>1. PolicySetType(set) /\ Acceptable(set)
  <2>1. PolicySetType(set)
    BY PresentedSet DEF PolicyInv
  <2>2. compilePolicySet(set).ok
    BY TrustChecked
  <2> QED BY <2>1, <2>2, Compiles
<1>2. ASSUME NEW r \in ToSet(set.rules) PROVE Leveled(r)
  <2>1. PICK i \in DOMAIN set.rules : r = set.rules[i]
    BY DEF ToSet
  <2>2. r \in Rules /\ RuleFault(r, set.constants) = "ok"
    BY <1>1, <2>1 DEF Acceptable, PolicySetType
  <2> QED BY <2>2, AcceptedRule
<1>3. Matching("ALLOW") \subseteq ToSet(set.rules)
    BY DEF Matching, Relevant
<1> QED BY <1>2, <1>3 DEF Demands, Leveled

\* A set of levels has more than one element when two of its elements differ.
LEMMA TwoLevels ==
    ASSUME NEW S, S \subseteq Levels
    PROVE  Cardinality(S) > 1 <=> \E one, two \in S : one # two
<1>1. IsFiniteSet(Levels)
  <2>1. Levels = ({"PROCESS_RESTRICTED"} \cup {"OS_SANDBOXED"})
                    \cup ({"CONTAINER_ISOLATED"} \cup {"REMOTE_ISOLATED"})
    BY DEF Levels
  <2> QED BY <2>1, FS_Singleton, FS_Union
<1>2. IsFiniteSet(S) /\ Cardinality(S) \in Nat
    BY <1>1, FS_Subset, FS_CardinalityType
<1>3. CASE S = {}
    BY <1>3, FS_EmptySet
<1>4. CASE S # {}
  <2>1. PICK one : one \in S
    BY <1>4
  <2> DEFINE T == S \ {one}
  <2>2. Cardinality(T) = Cardinality(S) - 1 /\ IsFiniteSet(T)
    BY <1>2, <2>1, FS_RemoveElement
  <2>3. Cardinality(T) \in Nat /\ (Cardinality(T) = 0 <=> T = {})
    BY <2>2, FS_CardinalityType, FS_EmptySet
  <2>4. T # {} <=> \E x, y \in S : x # y
    BY <2>1
  <2> QED BY <1>2, <2>2, <2>3, <2>4
<1> QED BY <1>3, <1>4

\* Requirements that require nothing.
Idle == {[NoRequirements EXCEPT !.permissionScopes = scopes,
                                !.postVerificationRequired = flag] :
             scopes \in {None, <<>>}, flag \in {None, FALSE}}

\* Requirements are idle when no field of them demands anything.
LEMMA IdleRequirements ==
    ASSUME NEW q \in Requirements
    PROVE  q \in Idle <=>
              /\ ScopesOf(q) = {} /\ q.minimumIsolationLevel = None
              /\ q.timeoutMs = None /\ q.maxConcurrency = None
              /\ q.postVerificationRequired # TRUE
<1>1. /\ q.permissionScopes \in Seq(Nat) \cup {None}
      /\ q.postVerificationRequired \in {TRUE, FALSE, None}
      /\ q = [permissionScopes |-> q.permissionScopes,
              minimumIsolationLevel |-> q.minimumIsolationLevel,
              timeoutMs |-> q.timeoutMs, maxConcurrency |-> q.maxConcurrency,
              postVerificationRequired |-> q.postVerificationRequired]
    BY DEF Requirements, Optional
<1>2. ScopesOf(q) = {} <=> q.permissionScopes \in {None, <<>>}
  <2> DEFINE s == q.permissionScopes
  <2>1. CASE s = None
      BY <2>1 DEF ScopesOf
  <2>2. CASE s \in Seq(Nat)
    <3>1. s # None
      BY <2>2, Absent
    <3>2. DOMAIN s = 1 .. Len(s) /\ Len(s) \in Nat /\ (s = <<>> <=> Len(s) = 0)
      BY <2>2
    <3>3. ScopesOf(q) = {s[i] : i \in DOMAIN s}
      BY <3>1 DEF ScopesOf, ToSet
    <3> HIDE DEF s
    <3>4. ScopesOf(q) = {} <=> DOMAIN s = {}
      BY <3>3
    <3>5. ScopesOf(q) = {} <=> s = <<>>
      BY <3>2, <3>4
    <3> QED BY <3>1, <3>5 DEF s
  <2> QED BY <1>1, <2>1, <2>2
<1> DEFINE Bare(scopes, flag) ==
               [permissionScopes |-> scopes, minimumIsolationLevel |-> None,
                timeoutMs |-> None, maxConcurrency |-> None,
                postVerificationRequired |-> flag]
<1>3. ASSUME NEW scopes, NEW flag
      PROVE  [NoRequirements EXCEPT !.permissionScopes = scopes,
                                    !.postVerificationRequired = flag]
                = Bare(scopes, flag)
  <2>1. NoRequirements = Bare(None, None)
    BY DEF NoRequirements
  <2>2. [NoRequirements EXCEPT !.permissionScopes = scopes] = Bare(scopes, None)
    BY <2>1
  <2> HIDE DEF Bare
  <2>3. [Bare(scopes, None) EXCEPT !.postVerificationRequired = flag] = Bare(scopes, flag)
    BY DEF Bare
  <2>4. [NoRequirements EXCEPT !.permissionScopes = scopes,
                               !.postVerificationRequired = flag]
           = [Bare(scopes, None) EXCEPT !.postVerificationRequired = flag]
    BY <2>1, <2>2
  <2> QED BY <2>3, <2>4
<1> HIDE DEF Bare
<1>4. q \in Idle <=>
        \E scopes \in {None, <<>>}, flag \in {None, FALSE} : q = Bare(scopes, flag)
  <2>1. q \in Idle <=>
          \E scopes \in {None, <<>>}, flag \in {None, FALSE} :
             q = [NoRequirements EXCEPT !.permissionScopes = scopes,
                                        !.postVerificationRequired = flag]
    BY SMT DEF Idle
  <2> QED BY <1>3, <2>1, Zenon
<1>5. None # TRUE /\ None # FALSE
    BY Absent
<1>6. q \in Idle <=>
        /\ q.permissionScopes \in {None, <<>>} /\ q.minimumIsolationLevel = None
        /\ q.timeoutMs = None /\ q.maxConcurrency = None
        /\ q.postVerificationRequired \in {None, FALSE}
  <2>1. ASSUME NEW scopes, NEW flag
        PROVE  q = Bare(scopes, flag) <=>
                  /\ q.permissionScopes = scopes /\ q.minimumIsolationLevel = None
                  /\ q.timeoutMs = None /\ q.maxConcurrency = None
                  /\ q.postVerificationRequired = flag
    BY <1>1 DEF Bare
  <2> QED BY <1>4, <2>1, Zenon
<1> QED BY <1>1, <1>2, <1>5, <1>6

\* Rules that allow, as RulesAllow needs them.
LEMMA AllowingRules ==
    ASSUME PolicyInv, decision # None
    PROVE  \A r \in Matching("ALLOW") : r \in Rules /\ r.requirements \in Requirements
<1>1. PolicySetType(given.compiledPolicySet)
    BY PresentedSet DEF PolicyInv
<1>2. Matching("ALLOW") \subseteq ToSet(given.compiledPolicySet.rules)
    BY DEF Matching, Relevant
<1>3. ASSUME NEW r \in Matching("ALLOW") PROVE r \in Rules
  <2>1. PICK i \in DOMAIN given.compiledPolicySet.rules :
           r = given.compiledPolicySet.rules[i]
    BY <1>2 DEF ToSet
  <2>2. given.compiledPolicySet.rules \in Seq(Rules)
    BY <1>1 DEF PolicySetType
  <2> QED BY <2>1, <2>2
<1> QED BY <1>3 DEF Rules

\* Nothing is merged from rules that require nothing, and only from those.
LEMMA NothingRequired ==
    ASSUME NEW A, \A r \in A : r \in Rules /\ r.requirements \in Requirements,
           NEW merged, Merges(merged, A)
    PROVE  merged # NoRequirements <=> \E r \in A : r.requirements \notin Idle
<1>1. \A r \in A : r.requirements \in Idle <=>
          /\ ScopesOf(r.requirements) = {} /\ r.requirements.minimumIsolationLevel = None
          /\ r.requirements.timeoutMs = None /\ r.requirements.maxConcurrency = None
          /\ r.requirements.postVerificationRequired # TRUE
    BY IdleRequirements
<1>2. merged = NoRequirements <=>
          /\ ScopesOfAll(A) = {} /\ DemandsOf(A, "minimumIsolationLevel") = {}
          /\ DemandsOf(A, "timeoutMs") = {} /\ DemandsOf(A, "maxConcurrency") = {}
          /\ ~\E r \in A : r.requirements.postVerificationRequired = TRUE
    BY Zenon DEF Merges
<1>3. ScopesOfAll(A) = {} <=> \A r \in A : ScopesOf(r.requirements) = {}
    BY DEF ScopesOfAll
<1>4. /\ DemandsOf(A, "minimumIsolationLevel") = {}
            <=> \A r \in A : r.requirements.minimumIsolationLevel = None
      /\ DemandsOf(A, "timeoutMs") = {} <=> \A r \in A : r.requirements.timeoutMs = None
      /\ DemandsOf(A, "maxConcurrency") = {}
            <=> \A r \in A : r.requirements.maxConcurrency = None
    BY DEF DemandsOf
<1> QED BY <1>1, <1>2, <1>3, <1>4

\* FailClosed follows from PolicyInv.
LEMMA InvFailClosed == PolicyInv => FailClosed
<1> SUFFICES ASSUME PolicyInv, decision # None PROVE FailClosed
    BY DEF FailClosed
<1> DEFINE hard == hardInvariantViolations(input)
           undefined == \E r \in Relevant :
                           ~Defined(r.when, input, given.compiledPolicySet.constants)
           A == Matching("ALLOW")
           refused == Matching("DENY") # {} \/ A = {}
           torn == Cardinality(StrongLevels) > 1
           required == \E r \in A : r.requirements \notin Idle
           rulesSay == IF undefined THEN "INDETERMINATE"
                       ELSE IF refused THEN "DENY"
                       ELSE IF torn THEN "INDETERMINATE"
                       ELSE IF required THEN "ALLOW_WITH_REQUIREMENTS" ELSE "ALLOW"
<1>1. FailClosed <=>
         decision.outcome = CASE ~Trusted -> "INDETERMINATE"
                              [] Trusted /\ hard # {} -> "DENY"
                              [] OTHER -> rulesSay
  <2>1. FailClosed <=> (decision # None => decision.outcome = CASE ~Trusted -> "INDETERMINATE"
                                                              [] Trusted /\ hard # {} -> "DENY"
                                                              [] OTHER -> rulesSay)
    BY DEF FailClosed, Idle
  <2> QED BY <2>1, Zenon
<1>2. /\ ~Trusted => decision.outcome = "INDETERMINATE"
      /\ Trusted /\ hard # {} => decision.outcome = "DENY"
      /\ Trusted /\ hard = {} => DecidedBy(decision, given.compiledPolicySet, input)
    BY DecisionCases, Zenon
<1>3. ASSUME Trusted, hard = {} PROVE decision.outcome = rulesSay
  <2>1. IF undefined THEN decision.outcome = "INDETERMINATE"
        ELSE IF refused THEN decision.outcome = "DENY"
        ELSE \E merged :
                /\ Merges(merged, A)
                /\ IF merged.minimumIsolationLevel = "CONFLICT"
                   THEN decision.outcome = "INDETERMINATE"
                   ELSE /\ decision.requirements = merged
                        /\ decision.outcome = IF merged = NoRequirements THEN "ALLOW"
                                              ELSE "ALLOW_WITH_REQUIREMENTS"
    <3>1. DecidedBy(decision, given.compiledPolicySet, input)
      BY <1>2, <1>3
    <3> QED BY <3>1, SameSelection, Zenon DEF DecidedBy
  <2>2. Demands("minimumIsolationLevel") \subseteq Levels
    BY <1>3, DemandedLevels
  <2>3. torn <=> \E one, two \in StrongLevels : one # two
    BY <2>2, TwoLevels DEF StrongLevels
  <2>4. \A r \in A : r \in Rules /\ r.requirements \in Requirements
    BY AllowingRules
  <2> HIDE DEF undefined, refused, torn, required, A
  <2>5. ASSUME NEW merged, Merges(merged, A)
        PROVE  /\ merged # NoRequirements <=> required
               /\ merged.minimumIsolationLevel = "CONFLICT" <=> torn
    <3>1. merged # NoRequirements <=> required
      BY <2>4, <2>5, NothingRequired DEF required
    <3>2. LevelOf(merged.minimumIsolationLevel, Demands("minimumIsolationLevel"))
      BY <2>5, SameSelection, Zenon DEF Merges, A
    <3>3. "CONFLICT" \notin Levels /\ None # "CONFLICT" /\ "CONFLICT" # "PROCESS_RESTRICTED"
      BY Absent DEF Levels
    <3>4. merged.minimumIsolationLevel = "CONFLICT" <=> torn
      BY <2>2, <2>3, <3>2, <3>3 DEF LevelOf, StrongLevels
    <3> QED BY <3>1, <3>4
  <2> QED BY <2>1, <2>5
<1> HIDE DEF hard, rulesSay
<1> QED BY <1>1, <1>2, <1>3

\* evaluatePolicy compiles a snapshot again, evaluates the conditions of its
\* sorted rules and merges their requirements one by one; whatever the policy
\* set, the input and the way the snapshot came back, the outcome is the one the
\* rules give as a set, and nothing that is undefined, torn or not trusted allows.
THEOREM DecisionsFailClosed == PolicySpec => []FailClosed
BY PolicyConsistent, InvFailClosed, PTL

-----------------------------------------------------------------------------
(* The order of the rules.                                                 *)

\* A snapshot whose rules are listed in another order is evaluated alike.
LEMMA SameDecision ==
    ASSUME NEW snap, IsSnapshot(snap), PolicySetType(snap.compiledPolicySet), NEW in,
           NEW order \in Orders(snap.compiledPolicySet.rules)
    PROVE  evaluatePolicy([snap EXCEPT !.compiledPolicySet.rules = order], in)
              = evaluatePolicy(snap, in)
<1> DEFINE set == snap.compiledPolicySet
           listed == [set EXCEPT !.rules = order]
           other == [snap EXCEPT !.compiledPolicySet.rules = order]
           again == compilePolicySet(set)
           again2 == compilePolicySet(listed)
           valid(s, policy) == validateSnapshot(s, in, policy)
           hard == hardInvariantViolations(in)
           Made(s, policy) ==
               IF "INVALID_EVALUATION_VALUE" \in {s.form, in.form}
               THEN Indeterminate({}, "INVALID_EVALUATION_VALUE")
               ELSE IF ~validateInput(in) THEN Indeterminate({}, "INVALID_EVALUATION_INPUT")
               ELSE IF ~policy.ok THEN Indeterminate({}, "INVALID_POLICY_SNAPSHOT")
               ELSE IF ~valid(s, policy) THEN Indeterminate({}, "INVALID_POLICY_SNAPSHOT")
               ELSE IF hard # {} THEN Deny({}, hard, {"HARD_INVARIANT_VIOLATION"})
               ELSE Evaluate(policy.value, in)
<1>1. /\ other.form = snap.form /\ other.snapshotId = snap.snapshotId
      /\ other.policySetId = snap.policySetId /\ other.policyVersion = snap.policyVersion
      /\ other.policyHash = snap.policyHash /\ other.compiledPolicySet = listed
  <2> HIDE DEF listed
  <2>1. other = [snap EXCEPT !.compiledPolicySet = listed]
    BY DEF listed
  <2> HIDE DEF other
  <2> QED BY <2>1 DEF IsSnapshot
<1>2. /\ again2.ok <=> again.ok
      /\ again.ok => again2 = again
    BY OrderOfSource
<1>3. evaluatePolicy(snap, in) = Made(snap, again)
    BY Zenon DEF evaluatePolicy
<1>4. evaluatePolicy(other, in) = Made(other, again2)
  <2> HIDE DEF other, listed
  <2>1. evaluatePolicy(other, in) = Made(other, compilePolicySet(other.compiledPolicySet))
    BY Zenon DEF evaluatePolicy
  <2> QED BY <1>1, <2>1
<1> HIDE DEF again, again2, other
<1>5. valid(other, again) <=> valid(snap, again)
    BY <1>1 DEF validateSnapshot
<1> HIDE DEF valid, hard
<1>6. Made(other, again2) = Made(snap, again)
    BY <1>1, <1>2, <1>5
<1> HIDE DEF Made
<1> QED BY <1>3, <1>4, <1>6 DEF other

\* OrderIrrelevant follows from PolicyInv.
LEMMA InvOrderIrrelevant == PolicyInv => OrderIrrelevant
<1> SUFFICES ASSUME PolicyInv PROVE OrderIrrelevant
    OBVIOUS
<1>1. ASSUME source # None, compiled.ok, NEW order \in Orders(source.rules)
      PROVE  compilePolicySet([source EXCEPT !.rules = order]) = compiled
  <2>1. PolicySetType(source) /\ compiled = compilePolicySet(source)
    BY <1>1, ValuesAssumption DEF PolicyInv
  <2> QED BY <1>1, <2>1, OrderOfSource
<1>2. ASSUME decision # None, NEW order \in Orders(given.compiledPolicySet.rules)
      PROVE  evaluatePolicy([given EXCEPT !.compiledPolicySet.rules = order], input) = decision
  <2>1. PolicySetType(given.compiledPolicySet) /\ IsSnapshot(given)
    BY <1>2, PresentedSet DEF PolicyInv
  <2>2. decision = evaluatePolicy(given, input)
    BY <1>2 DEF PolicyInv
  <2> QED BY <1>2, <2>1, <2>2, SameDecision
<1> QED BY <1>1, <1>2, Zenon DEF OrderIrrelevant

\* compilePolicySet sorts the rules: every permutation of a source's rules gives
\* the same value and hash, and every permutation of a snapshot's rules the same
\* decision, with its reasons and requirements.
THEOREM RulesHaveNoOrder == PolicySpec => []OrderIrrelevant
BY PolicyConsistent, InvOrderIrrelevant, PTL

-----------------------------------------------------------------------------
(* What an allowed input has to meet.                                      *)

\* A bound that was merged from demands is their minimum.
LEMMA SmallestIsMin ==
    ASSUME NEW S, S \subseteq Int, S # {}, NEW bound, BoundOf(bound, S)
    PROVE  bound = Min(S)
<1>1. bound \in S /\ \A n \in S : bound <= n
    BY DEF BoundOf
<1>2. Min(S) \in S /\ \A n \in S : Min(S) <= n
  <2> DEFINE Least(x) == x \in S /\ \A n \in S : x <= n
  <2>1. Min(S) = CHOOSE x : Least(x)
    BY Zenon DEF Min
  <2>2. \E x : Least(x)
    BY <1>1
  <2> HIDE DEF Least
  <2>3. Least(CHOOSE x : Least(x))
    BY <2>2, Zenon
  <2> QED BY <2>1, <2>3 DEF Least
<1> DEFINE least == Min(S)
<1> HIDE DEF least
<1>3. /\ bound \in Int /\ least \in Int /\ bound <= least /\ least <= bound
    BY <1>1, <1>2 DEF least
<1>4. bound = least
    BY <1>3
<1> QED BY <1>4 DEF least

\* The requirements of a decision that allows are merged without a conflict.
LEMMA AllowedMerges ==
    ASSUME PolicyInv, decision # None,
           decision.outcome \in {"ALLOW", "ALLOW_WITH_REQUIREMENTS"}
    PROVE  /\ Merges(decision.requirements, Matching("ALLOW"))
           /\ decision.requirements.minimumIsolationLevel # "CONFLICT"
<1> DEFINE undefined == \E r \in Relevant :
                           ~Defined(r.when, input, given.compiledPolicySet.constants)
           refused == Matching("DENY") # {} \/ Matching("ALLOW") = {}
<1>1. DecidedBy(decision, given.compiledPolicySet, input)
    BY DecisionCases
<1>2. IF undefined THEN decision.outcome = "INDETERMINATE"
      ELSE IF refused THEN decision.outcome = "DENY"
      ELSE \E merged :
              /\ Merges(merged, Matching("ALLOW"))
              /\ IF merged.minimumIsolationLevel = "CONFLICT"
                 THEN decision.outcome = "INDETERMINATE"
                 ELSE /\ decision.requirements = merged
                      /\ decision.outcome = IF merged = NoRequirements THEN "ALLOW"
                                            ELSE "ALLOW_WITH_REQUIREMENTS"
    BY <1>1, SameSelection, Zenon DEF DecidedBy
<1> HIDE DEF undefined, refused
<1> QED BY <1>2

\* RequirementsStrict follows from PolicyInv.
LEMMA InvRequirementsStrict == PolicyInv => RequirementsStrict
<1> SUFFICES ASSUME PolicyInv, decision # None,
                    decision.outcome \in {"ALLOW", "ALLOW_WITH_REQUIREMENTS"}
             PROVE  RequirementsStrict
    BY DEF RequirementsStrict
<1> DEFINE merged == decision.requirements
           A == Matching("ALLOW")
           Least(field) == IF Demands(field) = {} THEN merged[field] = None
                           ELSE merged[field] = Min(Demands(field))
<1>1. Merges(merged, A) /\ merged.minimumIsolationLevel # "CONFLICT"
    BY AllowedMerges
<1>2. \A r \in A : r \in Rules /\ r.requirements \in Requirements
    BY AllowingRules
<1>3. \A field : Demands(field) = DemandsOf(A, field)
    BY SameSelection, Zenon
<1> HIDE DEF merged, A
<1>4. /\ ToSet(IF merged.permissionScopes = None THEN <<>> ELSE merged.permissionScopes)
            = ScopesOfAll(A)
      /\ LevelOf(merged.minimumIsolationLevel, Demands("minimumIsolationLevel"))
      /\ BoundOf(merged.timeoutMs, Demands("timeoutMs"))
      /\ BoundOf(merged.maxConcurrency, Demands("maxConcurrency"))
      /\ merged.postVerificationRequired = TRUE
            <=> \E r \in A : r.requirements.postVerificationRequired = TRUE
    BY <1>1, <1>3, Zenon DEF Merges
<1>5. ToSet(IF merged.permissionScopes = None THEN <<>> ELSE merged.permissionScopes)
        = UNION {ToSet(s) : s \in Demands("permissionScopes")}
  <2>1. ScopesOfAll(A) = UNION {ToSet(s) : s \in DemandsOf(A, "permissionScopes")}
    BY DEF ScopesOfAll, ScopesOf, DemandsOf
  <2> QED BY <1>3, <1>4, <2>1
<1>6. Demands("timeoutMs") \subseteq Int /\ Demands("maxConcurrency") \subseteq Int
    BY <1>2, <1>3 DEF DemandsOf, Requirements, Optional
<1>7. Least("timeoutMs")
  <2>1. CASE Demands("timeoutMs") = {}
    BY <1>4, <2>1 DEF BoundOf
  <2>2. CASE Demands("timeoutMs") # {}
    BY <1>4, <1>6, <2>2, SmallestIsMin
  <2> QED BY <2>1, <2>2
<1>8. Least("maxConcurrency")
  <2>1. CASE Demands("maxConcurrency") = {}
    BY <1>4, <2>1 DEF BoundOf
  <2>2. CASE Demands("maxConcurrency") # {}
    BY <1>4, <1>6, <2>2, SmallestIsMin
  <2> QED BY <2>1, <2>2
<1>9. merged.minimumIsolationLevel \in
        IF StrongLevels # {} THEN StrongLevels
        ELSE IF Demands("minimumIsolationLevel") # {} THEN {"PROCESS_RESTRICTED"}
        ELSE {None}
    BY <1>1, <1>4 DEF LevelOf, StrongLevels
<1>10. merged.postVerificationRequired = TRUE
          <=> TRUE \in Demands("postVerificationRequired")
  <2>1. TRUE \in DemandsOf(A, "postVerificationRequired")
          <=> \E r \in A : r.requirements.postVerificationRequired = TRUE
    BY Absent DEF DemandsOf
  <2> QED BY <1>3, <1>4, <2>1, Zenon
<1> HIDE DEF Least
<1> QED BY <1>5, <1>7, <1>8, <1>9, <1>10, Zenon DEF RequirementsStrict, merged, Least

\* mergeRequirements, as evaluatePolicy uses it: who is allowed meets what every
\* rule that allowed it requires, and no more than that.
THEOREM RequirementsKept == PolicySpec => []RequirementsStrict
BY PolicyConsistent, InvRequirementsStrict, PTL

=============================================================================
