--------------------------- MODULE MCRepository ---------------------------
(* A small repository for ScopeVerification: its paths, its rules, the      *)
(* histories it may have and the changes that are proposed to it.           *)
EXTENDS Naturals, Sequences, FiniteSets

AllOperations == {"P1-O01", "P1-O02", "P1-O04", "P1-O05", "P1-O06", "P1-O07", "P1-O08"}
Started == {"P1-O04", "P1-O05", "P1-O06", "P1-O07"}   \* behind an amendment
LockFile == "authority-lock.json"
ScopeFile == "write-scope.json"
OperationManifest == [op \in AllOperations |-> op]
OperationRecord ==
    [op \in AllOperations |-> CASE op = "P1-O01" -> "p1-o01" [] op = "P1-O02" -> "p1-o02"
                             [] op = "P1-O04" -> "p1-o04" [] op = "P1-O05" -> "p1-o05"
                             [] op = "P1-O06" -> "p1-o06" [] op = "P1-O07" -> "p1-o07"
                             [] op = "P1-O08" -> "p1-o08"]
Records == {OperationRecord[op] : op \in AllOperations} \cup {"p1-o01-amend"}
RecordOperation ==
    [path \in Records |-> IF path = "p1-o01-amend" THEN "P1-O01"
                          ELSE CHOOSE op \in AllOperations : OperationRecord[op] = path]
\* The authorization gate, a start gate and other evidence of P1-O01.
EvidenceOwner == [path \in {"gate-1", "start", "amended"} |-> "P1-O01"]
IssueOfGate == [path \in {"gate-1"} |-> 1]
StartFile == [op \in {"P1-O02"} \cup Started |-> "start"]
\* "asset" and "adr" are locked like the lock's own file "write-scope.json";
\* "code" is in the write scope of every operation, "notes" in nobody's.
AllPaths == Records \cup DOMAIN EvidenceOwner
         \cup {LockFile, ScopeFile, "asset", "adr", "code", "notes"}
Phase1 == Records \cup DOMAIN EvidenceOwner \cup {LockFile, ScopeFile}
Forbidden == {"asset", "adr", "code", "gate-1"}
Amendable == {LockFile, ScopeFile, "p1-o01-amend", "p1-o01"} \cup DOMAIN EvidenceOwner
Absent == [missing |-> TRUE]
AmendedPaths == {LockFile, ScopeFile, "p1-o01-amend", "amended"}

Bytes(n) == [version |-> n]
Put(tree, files) == [path \in AllPaths |-> IF path \in DOMAIN files THEN files[path] ELSE tree[path]]
Files(paths, value(_)) == [path \in paths |-> value(path)]

Scope(allowed) ==
    [enforcementMode |-> "DENY_BY_DEFAULT",
     allowed |-> AllPaths \ {"notes"}, denied |-> {},
     operations |-> [op \in AllOperations |->
        [allowed |-> {"code", OperationRecord[op]} \cup allowed[op], denied |-> {}]]]
Owned == [op \in AllOperations |->
    CASE op = "P1-O01" -> DOMAIN EvidenceOwner
      [] op = "P1-O02" -> {"asset"}
      [] OTHER -> {}]
Granted(op) == Scope([Owned EXCEPT ![op] = @ \cup {"asset"}])

LockEntry(bytes, policy, owners) ==
    [sha256 |-> bytes, mutationPolicy |-> policy, role |-> "AUTHORITY", owners |-> owners]
Lock(scope, owners) ==
    [top |-> 1, canonical |-> TRUE,
     entries |-> [path \in {"asset", "adr", ScopeFile} |->
        IF path = "asset" THEN LockEntry(Bytes(0), "OPERATION_SCOPED", owners)
        ELSE LockEntry(IF path = "adr" THEN Bytes(0) ELSE scope, "IMMUTABLE", {})]]
\* The lock with the bytes of one entry refreshed, and with other owners.
Refreshed(lock, path, bytes) == [lock EXCEPT !.entries[path].sha256 = bytes]
Given(lock, owners) == [lock EXCEPT !.entries["asset"].owners = owners]

Record(type, op, base, branch, gate, implementation) ==
    [executionType |-> type, operationId |-> op, writeScopeOperationId |-> op,
     baseCommit |-> base, implementationBranch |-> branch, trackingIssue |-> 1,
     gateRef |-> gate, implementation |-> implementation, status |-> "IMPLEMENTED"]
Execution(op, base) == Record("OPERATION", op, base, OperationRecord[op], "none", 0)
Amendment(base, implementation) ==
    Record("AMENDMENT", "P1-O01", base, "amend", "gate-1", implementation)
Evidence(implementation) ==
    [wellFormed |-> TRUE, trackingIssue |-> 1, implementation |-> implementation]
Delta(op) == [path |-> "asset", before |-> {"P1-O02"}, after |-> {"P1-O02", op}]
\* An authorization gate, to be merged onto `base'.
Gate(base, op) ==
    [evidenceType |-> "AUTHORIZATION", wellFormed |-> TRUE, canonical |-> TRUE,
     trackingIssue |-> 1, authorizationBase |-> base, implementationBranch |-> "amend",
     allowedChangedPaths |-> AmendedPaths, exactAmendmentPaths |-> {AmendedPaths},
     authorityOwnershipDeltas |-> {{Delta(op)}}]

Root(history) ==
    Put([path \in AllPaths |-> Absent],
        [path \in {LockFile, ScopeFile, "asset", "adr", "code", "notes", "p1-o01"} |->
            CASE path = LockFile -> Lock(Scope(Owned), {"P1-O02"})
              [] path = ScopeFile -> Scope(Owned)
              [] path = "notes" -> Bytes(history)
              [] path = "p1-o01" -> Execution("P1-O01", 1)
              [] OTHER -> Bytes(0)])

----------------------------------------------------------------------------
(* Histories.  The first begins with a root commit whose operation P1-O02   *)
(* is released; what a history is, its "notes" tell.                        *)
Flow == 0
HistoryOf == [op \in Started |-> CASE op = "P1-O04" -> 4 [] op = "P1-O05" -> 5
                                   [] op = "P1-O06" -> 6 [] op = "P1-O07" -> 7]

FlowRepository ==
    <<[parents |-> <<>>, ancestors |-> {1},
       tree |-> Put(Root(Flow), [path \in {"start"} |->
                                    [wellFormed |-> TRUE, remediation |-> 1]])]>>

\* The ids of the commits of the transition that lets an operation start.
\* P1-O04 has its enforcement before the amendment, P1-O05 after it and
\* P1-O06 and P1-O07 after a remediation; `stale' says that the amendment
\* was merged onto an unrelated change instead of its base.
Ids(op) ==
    IF op = "P1-O04"
    THEN [preliminaryMain |-> 1, enforcementImplementation |-> 2,
          enforcementReviewedHead |-> 3, enforcementMain |-> 4,
          authorizationReviewedHead |-> 5, authorizationMain |-> 6,
          amendmentImplementation |-> 7, amendmentReviewedHead |-> 8, amendmentMain |-> 9]
    ELSE [authorizationReviewedHead |-> 2, authorizationMain |-> 3,
          amendmentImplementation |-> 4, amendmentReviewedHead |-> 5, amendmentMain |-> 6,
          enforcementBase |-> IF op = "P1-O05" THEN 6 ELSE 8,
          enforcementImplementation |-> 9, enforcementReviewedHead |-> 10,
          enforcementMain |-> 11]
NotesHead == 12
NotesMain == 13

\* What each commit does to its first parent's tree, and its parents.
Transition(op, stale) ==
    LET id == Ids(op)
        gate == IF op = "P1-O04" THEN id.enforcementMain ELSE 1
        onto == IF op = "P1-O04" THEN 1 ELSE id.enforcementBase
        amend == [path \in AmendedPaths \ {"amended"} |->
            CASE path = LockFile -> Given(Refreshed(Lock(Scope(Owned), {"P1-O02"}), ScopeFile,
                                                    Granted(op)), {"P1-O02", op})
              [] path = ScopeFile -> Granted(op)
              [] path = "p1-o01-amend" ->
                    Amendment(id.authorizationMain, id.amendmentImplementation)]
        attest == [path \in {"amended"} |-> Evidence(id.amendmentImplementation)]
        allow == [path \in {"gate-1"} |-> Gate(gate, op)]
        code(n) == [path \in {"code"} |-> Bytes(n)]
        notes(n) == [path \in {"notes"} |-> Bytes(n)]
        none == [path \in {} |-> Absent]
        step(parents, files) == [parents |-> parents, files |-> files]
    IN  [c \in 1 .. 13 |->
        CASE c = 1 -> step(<<>>, none)
          [] c = id.authorizationReviewedHead -> step(<<gate>>, allow)
          [] c = id.authorizationMain -> step(<<gate, id.authorizationReviewedHead>>, allow)
          [] c = id.amendmentImplementation -> step(<<id.authorizationMain>>, amend)
          [] c = id.amendmentReviewedHead -> step(<<id.amendmentImplementation>>, attest)
          [] c = id.amendmentMain ->
                step(<<IF stale THEN NotesMain ELSE id.authorizationMain,
                       id.amendmentReviewedHead>>,
                     [path \in AmendedPaths |->
                        IF path = "amended" THEN attest[path] ELSE amend[path]])
          [] c = id.enforcementImplementation -> step(<<onto>>, notes(20))
          [] c = id.enforcementReviewedHead -> step(<<id.enforcementImplementation>>, none)
          [] c = id.enforcementMain -> step(<<onto, id.enforcementReviewedHead>>, notes(20))
          [] c = NotesHead -> step(<<id.authorizationMain>>, notes(30))
          [] c = NotesMain -> step(<<id.authorizationMain, NotesHead>>, notes(30))
          [] c = 7 -> step(<<id.amendmentMain>>, notes(40))      \* the remediation
          [] c = 8 -> step(<<id.amendmentMain, 7>>, notes(40))
          [] OTHER -> step(<<1>>, none)]

TransitionRepository(op, stale) ==
    LET step == Transition(op, stale)
        ancestors[c \in DOMAIN step] ==
            {c} \cup UNION {ancestors[step[c].parents[i]] : i \in DOMAIN step[c].parents}
        tree[c \in DOMAIN step] ==
            IF c = 1 THEN Root(HistoryOf[op])
            ELSE Put(tree[step[c].parents[1]], step[c].files)
    IN  [c \in DOMAIN step |-> [parents |-> step[c].parents,
                                ancestors |-> ancestors[c], tree |-> tree[c]]]

\* How far main has gone: through it all, or no further than the gate that
\* authorizes the amendment.
MainLine(op, stale) ==
    LET id == Ids(op) IN
    IF op = "P1-O04"
    THEN <<1, id.enforcementMain, id.authorizationMain>>
         \o (IF stale THEN <<NotesMain>> ELSE <<>>) \o <<id.amendmentMain>>
    ELSE <<1, id.authorizationMain>> \o (IF stale THEN <<NotesMain>> ELSE <<>>)
         \o <<id.amendmentMain>>
         \o (IF op = "P1-O05" THEN <<>> ELSE <<id.enforcementBase>>) \o <<id.enforcementMain>>
Abandoned(op) == SubSeq(MainLine(op, FALSE), 1, IF op = "P1-O04" THEN 3 ELSE 2)

Pins ==
    [op \in Started |->
        [issue |-> 1, gatePath |-> "gate-1", executionPath |-> "p1-o01-amend",
         evidencePath |-> "amended", branch |-> "amend", changedPaths |-> AmendedPaths,
         deltas |-> {Delta(op)}, scopePaths |-> {"asset"}, ownershipPaths |-> {"asset"},
         owners |-> {"P1-O02", op}, preliminaryMain |-> 1,
         authorizationMain |-> Ids(op).authorizationMain,
         amendmentMain |-> Ids(op).amendmentMain,
         enforcementBase |-> IF op = "P1-O04" THEN 0 ELSE Ids(op).enforcementBase]]

----------------------------------------------------------------------------
(* Changes: right ones, and ones with a single thing wrong.                 *)

Merged(branch, files, within) == [branch |-> branch, files |-> files, within |-> within]
Change(branch, files) == Merged(branch, files, [path \in {} |-> Absent])
One(path, bytes) == [p \in {path} |-> bytes]
With(f, g) == [p \in DOMAIN f \cup DOMAIN g |-> IF p \in DOMAIN g THEN g[p] ELSE f[p]]

\* Work of an operation: what it may write, and what it may not.
Work(op, before, fork) ==
    LET lock == before[LockFile]
        new == Bytes(IF op = "P1-O02" THEN 2 ELSE 8)
        asset == One("asset", new)
        refresh == One(LockFile, Refreshed(lock, "asset", new))
        record(base) == One(OperationRecord[op], Execution(op, base))
        good == With(record(fork), With(asset, refresh))
        files == {With(record(fork), One("code", new)),
                  good,
                  With(record(fork), asset),
                  With(record(fork), refresh),
                  With(good, One(LockFile, Refreshed(lock, "asset", Bytes(9)))),
                  With(good, One(LockFile, Given(Refreshed(lock, "asset", new), {op}))),
                  With(good, With(One("adr", new),
                                  One(LockFile, Refreshed(Refreshed(lock, "asset", new), "adr", new)))),
                  With(good, With(One(ScopeFile, Granted(op)),
                                  One(LockFile, Refreshed(Refreshed(lock, "asset", new),
                                                          ScopeFile, Granted(op))))),
                  With(good, One("notes", new)),
                  With(good, record(1)),
                  With(good, One("p1-o01", Execution("P1-O01", fork)))}
    IN  {Change(OperationRecord[op], f) : f \in files}
        \cup {Change("other", f) : f \in {good, With(asset, refresh), asset, refresh}}

\* An authorization to let P1-O08 own the asset, and the amendment that does.
Authorizations(fork) ==
    LET gate == Gate(fork, "P1-O08")
        loose == [gate EXCEPT !.exactAmendmentPaths = {}, !.authorityOwnershipDeltas = {}]
        gates == {gate, loose, [gate EXCEPT !.canonical = FALSE],
                  [gate EXCEPT !.exactAmendmentPaths = {}],
                  [gate EXCEPT !.authorizationBase = 1],
                  [loose EXCEPT !.allowedChangedPaths = @ \cup {"adr"}]}
    IN  {Change("other", One("gate-1", g)) : g \in gates}

Amendments(before, fork) ==
    LET scope == Granted("P1-O08")
        refreshed == Refreshed(before[LockFile], ScopeFile, scope)
        owners == {"P1-O02", "P1-O08"}
        write(lock) == With(With(One(LockFile, lock), One(ScopeFile, scope)),
                            With(One("p1-o01-amend", Amendment(fork, 0)),
                                 One("amended", Evidence(0))))
        good == write(Given(refreshed, owners))
        files == {good,
                  write(refreshed),
                  write(Given(before[LockFile], owners)),
                  write(Given(refreshed, {"P1-O08"})),
                  write([Given(refreshed, owners) EXCEPT !.top = 2]),
                  With(good, One("adr", Bytes(9))),
                  With(write(Refreshed(Given(refreshed, owners), "adr", Bytes(9))),
                       One("adr", Bytes(9))),
                  With(write(refreshed), One("p1-o01-amend", Amendment(1, 0))),
                  With(good, One("gate-1", Gate(fork, "P1-O08")))}
    IN  {Change("amend", f) : f \in files} \cup {Change("other", good)}

\* An amendment merged within the first branch of a history: its commits.
SideHead == 14
SideMerge == 15
Sidelined(before) ==
    LET op == "P1-O04"
        authorization == Ids(op).authorizationMain IN
    Merged("other", One("notes", Bytes(50)),
           [path \in AmendedPaths |->
                CASE path = LockFile -> Given(Refreshed(before[LockFile], ScopeFile, Granted(op)),
                                              {"P1-O02", op})
                  [] path = ScopeFile -> Granted(op)
                  [] path = "p1-o01-amend" -> Amendment(authorization, SideHead)
                  [] OTHER -> Evidence(SideHead)])

\* A start gate: the history as it was, or with one thing misreported, or naming
\* what was merged within a branch.
StartGates(op) ==
    LET id == Ids(op)
        gate == [wellFormed |-> TRUE, commits |-> id, amendmentIssue |-> 1,
                 amendmentTree |-> id.amendmentImplementation,
                 enforcementTree |-> id.enforcementImplementation]
    IN  {gate, [gate EXCEPT !.wellFormed = FALSE],
         [gate EXCEPT !.amendmentTree = NotesHead], [gate EXCEPT !.enforcementTree = NotesHead]}
        \cup {[gate EXCEPT !.commits[f] = c] : f \in DOMAIN id, c \in {1, NotesHead, 99}}
        \cup (IF op # "P1-O04" THEN {}
              ELSE {[gate EXCEPT !.commits["amendmentImplementation"] = SideHead,
                                 !.commits["amendmentReviewedHead"] = SideHead,
                                 !.commits["amendmentMain"] = SideMerge,
                                 !.amendmentTree = SideHead]})

Starts(op, before, fork) ==
    LET record == One(OperationRecord[op], Execution(op, fork)) IN
    (IF op = "P1-O04" THEN {Sidelined(before)} ELSE {}) \cup
    {Change("other", One("start", g)) : g \in StartGates(op)}
    \cup {Change(OperationRecord[op], With(record, One("code", Bytes(8)))),
          Change(OperationRecord[op],
                 With(record, With(One("asset", Bytes(8)),
                                   One(LockFile, Refreshed(before[LockFile], "asset", Bytes(8)))))),
          Change(OperationRecord[op],
                 With(record, One("start", CHOOSE g \in StartGates(op) :
                                    g.wellFormed /\ g.commits = Ids(op))))}

Proposals(repo, fork) ==
    LET before == repo[fork].tree
        history == repo[1].tree["notes"].version
    IN  IF history = Flow
        THEN Work("P1-O02", before, fork) \cup Work("P1-O08", before, fork)
             \cup Authorizations(fork) \cup Amendments(before, fork)
             \cup {Change("other", One("notes", Bytes(1)))}
        ELSE Starts(CHOOSE op \in Started : HistoryOf[op] = history, before, fork)
=============================================================================
