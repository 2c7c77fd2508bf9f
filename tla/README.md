# TLA+ models of the AI software engineering OS

This directory holds TLA+ modules for the concurrent core of the repository and
for its two deciders that must fail closed, TLC configurations that check them
on small instances, and TLAPS proofs that hold for every instance. Paths below
are relative to the repository root (`src/` here is the repository).

## 1. The system

| Component | State it keeps | Operations | Hard behaviour |
|---|---|---|---|
| Persistence worker (`packages/persistence/src/persistence-worker.ts`) | SQLite tables of `001-initial.sql`: `event_journal`, `command_receipts`, `outbox`, `inbox`, `audit_facts`, `projection_checkpoints`; `writeLockHeld`, `crashTransactionArmed` | `commitBatch`, `recordInbox`, `saveCheckpoint`, lookups and reads, qualification probes, close | several connections on one database; a lookup before the transaction; termination between any two statements |
| Persistence startup (same file, `migration-assets.ts`) | the database and its sidecars, `quarantine.json`, the quarantined files | the worker's top level, `initialize`, `quarantineDatabase` | crashes between marker and renames and between the statements of a migration; two starts on one data root |
| Persistence client (`packages/persistence/src/index.ts`) | `#pending`, `#nextRequestId`, `#closed`, the ready promise | `#request`, `close`, `terminateForQualification`, listeners | replies, errors and exit events against calls; bounded queue |
| Kernel and workflow domain (`packages/kernel`, `packages/workflow`) | none (pure) | `admitCommand`, `replay`, `prepare`, `decide`, `apply` | determinism; replay must accept whatever was committed |
| Workflow service (`packages/platform/src/workflow-service.ts`) | none of its own | `execute`, `replay` | state read before an await and used after it; retries of a command whose outcome is unknown |
| Runtime lock (`packages/platform/src/filesystem.ts`) | claim directories, `ticket.json`, `control-api.lock` | `acquireRuntimeLock`, release | mutual exclusion between processes over plain file operations; crashes, leftovers, PID reuse |
| Control files (`filesystem.ts`) | token, descriptor | create, write, discover, read, remove | stale files of an earlier runtime |
| Control API server (`server.ts`, `idempotency.ts`) | request slots, auth-failure windows, event connections, idempotency entries, stop promise | routes, `publishNotification`, `stop` | timeouts against late bodies, overlapping stops, slow event readers |
| Control API client (`client.ts`) | cached endpoint and token | `invoke`, `streamEvents` | endpoint of a runtime that was replaced, gaps in the event stream |
| Policy engine (`packages/policy`) | none (pure) | `parseRestrictedPolicyYaml`, `compilePolicySet`, `createPolicySnapshot`, `evaluatePolicy` | order independence of merging, fail-closed conditions, snapshots that come back changed |
| Isolation worker and adapter (`apps/worker`, `packages/adapters/tool/windows-process-restricted`) | the bridge process of a task, its Job Object, the cancellation marker | `executeRestrictedWorkerTask`, `runWindowsProcessRestricted`, `Run` of `win32-bridge.ps1` | cancellation, limits, output overruns and exits in any order; the death of host or bridge |
| Runtime and CLI (`apps/runtime`, `apps/cli`) | child process, endpoint polling | `startRuntime`, `start`, `waitForClient` | concurrent starts |
| Change gate (`scripts/toolchain/verify-scope.mjs`, `scope-policy.mjs`) | none of its own; it reads the commits of the repository | one check per pull request and per push to main | main moves between check and merge; an authorization gate used twice; a start gate that names an amendment that never landed |
| Contracts (`packages/contracts`) | schema registry | validation, canonical JSON | generated types and syntax checks |

How they interact: a caller hands a command to `WorkflowService.execute`, which
asks a `PersistenceWorker` (client facade, main thread) for receipts and events
and hands it a batch; the facade posts messages to a worker thread, which runs
SQLite statements one request at a time. Other services, each with a worker
thread of its own, share the database file and nothing else. A control runtime
first takes the runtime lock of its data root, then writes its token and
descriptor and serves the control API; CLI and client find it by those files.
The policy engine decides requests of the runtime, the isolation worker runs a
tool under a decision; neither shares state with the rest. The change gate is no
part of the runtime: CI runs it on every change of the repository.

## 2. Modules

| Module | Models | Extends |
|---|---|---|
| `Journal` | the worker's transactions over the tables | |
| `CommandLedger` | abstract: what executing commands promises to callers | |
| `WorkflowService` | `execute`, kernel, workflow domain, several services | `Journal`; implements `CommandLedger` |
| `PersistenceClient` | the facade and the message loop of its worker thread | |
| `DataRootLock` | abstract: what taking and giving back the lock of a data root promises | |
| `RuntimeLock` | `acquireRuntimeLock` and release | implements `DataRootLock` |
| `ControlRuntime` | lifecycle of a runtime, its control files, `start` and `stop` of the CLI | uses `DataRootLock` (`UsesLock` in `ControlRuntimeProofs`) |
| `ControlRequests` | the request handler, its registries and the stop route | |
| `EventStream` | notifications from `publishNotification` to `streamEvents` | |
| `PersistenceStartup` | how a worker opens, migrates or quarantines a database | |
| `IsolationTask` | one restricted task: Node host, bridge, readers, process tree | |
| `RestrictedYaml` | the restricted YAML reader of `packages/policy` | |
| `PolicyEvaluation` | compilation, snapshots and evaluation | |
| `ScopePolicy` | the rules of the change gate | |
| `ScopeVerification` | the change gate over a repository that grows | `ScopePolicy` |
| `WorkflowProofs`, `RuntimeLockProofs`, `ControlRuntimeProofs`, `ControlRequestsProofs`, `EventStreamProofs`, `IsolationProofs`, `DeciderProofs` | theorems and their proofs | their module or modules (`WorkflowService`, ..., `ScopeVerification` and `PolicyEvaluation`), `TLAPS` |
| `PersistenceProofs` | theorems and their proofs | `PersistenceClient`, `PersistenceStartup`, `TLAPS` |
| `MCJournal`, `MCWorkflowService`, `MCPersistenceClient`, `MCRuntimeLock`, `MCControlRuntime`, `MCControlRequests`, `MCEventStream`, `MCPersistenceStartup`, `MCIsolationTask` | bounded instances for TLC | their module |
| `MCPolicyEvaluation`, `MCRepository` | the policy sets, inputs and documents; the paths, histories and changes of a repository | |
| `MCDeciders` | bounded instance of both deciders and the reader | `ScopeVerification`, `MCPolicyEvaluation`, `MCRepository` |

Every module keeps the names of the source where TLA+ allows it. Operators whose
comment begins "Mutant of X" are deliberately wrong variants of X; nothing in a
specification uses them. They document which mistake each property would reveal.

### Journal

A table is a set of records, a hash is what it was computed from, and whether a
supplied hash matches its payload is a Boolean field. `commitBatch` is cut where
another connection can get in between: `CommitLookup` (the first
`findCommandDuplicate` and `verifyOutbox`), `CommitBegin` (`BEGIN IMMEDIATE`
with its three outcomes), then `CommitDuplicate`, `CommitRollback` or
`CommitCheck` followed by `CommitApply` (inserts and `COMMIT`), then `Reply`.
`Terminate` may fall between any two of them: SQLite discards the open
transaction and the caller learns nothing. The checks and the inserts of a
transaction are two steps on purpose: that they agree is the merit of the write
lock, and `BEGIN` without `IMMEDIATE` is one of the mutants.

`recordInbox`, `saveCheckpoint`, `holdLock` and `armCrash` are one step each:
they run in one synchronous call, and only their successful transaction changes
state. In `armCrash` the version check precedes `BEGIN IMMEDIATE`; a stale check
is then caught by the `UNIQUE` constraint, and the transaction is never
committed, so one step loses nothing. A commit that meets its own worker's probe
is refused by SQLite at `BEGIN`; `runTransaction` has not `begun` then and rolls
nothing back, so that the probe keeps its transaction and its lock.

### WorkflowService and CommandLedger

`phase[s]` is the await at which service `s` stands. Service `s` uses worker
`s` of `Journal`, whose steps it drives. Two calls on one worker are serialised
by the worker's message loop, so two services with a worker each reach at least
the interleavings of two calls in one service. `readEvents` and the pure
`prepare` are one step because nothing shared is touched between them.
`PERSISTENCE_BUSY` and `PERSISTENCE_WORKER_EXITED` leave the outcome of the call
open; the caller may execute the command again. `execute` does not ask what has
become of the worker, and neither does the model. After `TerminateForQualification`
the client is `closed` and refuses a call. After an unexpected `Crash` it still
takes one, posts it to a thread that is gone, and the call is lost (phase "lost")
until somebody terminates the client, if ever: the finding `worker_crash`.
`Reopen` puts a new client and worker in the place of one whose worker is gone;
what was lost with the old one stays unanswered.

`CommandLedger` says what a caller may rely on: each stream is taken by at most
one command, atomically; whoever is told "applied" was applied, and whoever is
told "refused" never is. `ImplementsLedger` maps the owner of a stream to the
command whose receipt is stored, and the told set to the definite answers.

### RuntimeLock

Attempts are calls of `acquireRuntimeLock`; `Pid` gives the process of each, and
two attempts may share one, which covers a restart under a reused PID and two
calls within one process. Each file operation is a step: `mkdir` (`Claim`),
`readdir` (`List`), the liveness probe (`Probe`, which also removes the claim of
a dead process), `readFile` with its fallback `stat` (`Read`), the atomic
rename of the ticket (`Publish`), reading, replacing and removing the lock file
(`CheckLock`, `WriteLock`, `Release`, `Unlink`), and `rm` of the own claim in
two steps (`Remove`, `RemoveDir`), because a directory without a ticket looks
like a chooser. `DeletePending` is the Windows path of `runtimeClaims`. `Crash`
and `Respawn` are the operating system's.

`DataRootLock` is the lock the callers think of: the file is taken in one step if
there is none or a dead process left it, or it is refused; its owner gives it back
or dies. `ImplementsLock` maps an attempt to where it stands (`Stage`): in from
`WriteLock` to `Unlink`, over once it has been refused or has released, crashed when
its process died. The abstract lock promises no more than safety: it may refuse
anyone. That contention does not cancel itself out and that leftovers are overcome
are properties of `RuntimeLock` alone.

### PersistenceClient

Messages are two FIFO queues. `close()` sets `#closed` only after its reply;
between the reply and that assignment only microtasks run, so `Request` waits
for `CloseGoesOn`. Messages sent before a thread ended are delivered before its
exit event; `postMessage` to a thread that is gone does nothing. Node's part
(`End`, `Terminated`, `ThreadDies`) is external.

### ControlRuntime

A runtime goes through `startControlApi` one await at a time: the lock
(`AcquireLock`), the token file (`CreateToken`, two steps on Windows, where the
helper deletes the old file first), the port (`Listen`), the descriptor
(`WriteDescriptor`). A failed start (`StartFails`) and `stop` both end in
`Remove`: descriptor and token in either order, then the lock. `stop` is caused
by the stop route, by the monitor of `apps/runtime` that no longer finds the
descriptor, or by a signal. A client reads descriptor, PID and token, each a
step (`Discover`, `CheckPid`, `ReadControlToken`), and makes the first health
call (`FirstHealth`); the `stop` command then sends its stop (`SendStop`), and
the `start` command spawns its runtime on a recoverable code and polls again
(`Fails`). The identity of a runtime, its token and its descriptor are one
value, the runtime itself; what a client holds is whose descriptor and whose
token it has read. `CheckPid` may succeed for a runtime that is gone, because
its PID may have been reused. The lock is taken in one step, as in `DataRootLock`:
`BakeryImplementsLock` proves that the code's lock is such a lock, `RuntimesUseLock`
that the runtimes use one. Left out: a refusal while there is no lock file (a rival
that goes first may die before it writes it, and a scan may fail), after which the
refused runtime touches nothing; the deadline of `waitForClient` (a start command
keeps polling), and several data roots (nothing is shared between them but ports).

### ControlRequests

The handler has one await, the body, so a request is `Arrive` (every check up to
the slot) and `Resume` (the routes, with `finally`). In between, and after,
come its timer (`Timeout`), the flushed response (`Finish`), the end of its
connection (`ClientGone`) and the stop of the runtime (`Stop`), in any order.
`slotOwned` and `timedOut` are the handler's local variables, `sent` is the
sequence of responses that were written, so that a second one would be seen.
The failure window is a sequence in insertion order, as `Map` iterates; the
registry is a set of records, whose insertion order is the order of their
operation numbers. Both live under a bounded clock. The payload of a stop is the same for every
stop of one runtime, so that the registry's conflict outcome cannot arise here.

### EventStream

A notification is its number of publication, a frame is one unit of buffered
bytes. `pipe[c]` holds what was written and not yet read; its last `buffered[c]`
frames are those whose write callback is outstanding. `writeSseFrame` ends a
connection with no room for the next frame; what was written before still
arrives. `lingering` counts connections their client has left and the server has
not yet seen closed, which occupy `sseConnectionCapacity`. The consumer is the
one the API is made for: it resumes with the last id it has, and reads the
resources again after a gap, or when it has nothing to resume after;
`covered[c]` is what it then knows of.

A runtime can be found and connected to before it has published anything: it
listens, writes its descriptor and only then publishes its status, and other
processes run meanwhile. `Init` and `Restart` therefore begin with nothing
retained. `serveEvents` looks for a resumption's id, and announces a gap, only
when something is retained (`server.ts` line 376): a consumer that resumes with an
id of the previous runtime in that window gets neither, and never learns what it
missed. `missed[c]` is the history of that.

### PersistenceStartup

A file is a number and what is in it is one of a few words: zero bytes, a header
without tables, the manifest's tables, other tables, no database, or one that
fails `quick_check`. `pc[w]` is the await or the SQLite statement at which worker
`w` stands: the marker, the database (`checkDatabase`, `stat`), the configuration
and the migration's checksum, the open, the switch to WAL (which writes the
header), `quick_check`, the migration of a new database in its one transaction,
the verification of schema and history; and, when a failure counts as corruption,
the closed connection, the marker, the rename of the database and of each sidecar.
A worker may crash at each of them (`Crash`), a step may fail for another reason
(`OperationFails`, `LoadAssetsFails`: a full disk, a lock, a missing asset), and a
database may be damaged while no worker runs (`Damage`). A crash loses
the connection and keeps the files; the sidecar of a killed connection stays
behind and is what a later rename must take along. `overlap` remembers whether
two workers ran at a time: a data root is meant for one runtime, and parts of three
properties are stated for that case only (see Findings).

### IsolationTask

The Node host goes through `executeRestrictedWorkerTask` one await at a time;
`Run` of the bridge is cut at each of its waits and decisions, because the process
tree, the two `ReadBounded` tasks and the host run meanwhile. The Job Object holds
the tree: `doomed` says that it was terminated or that its last handle is closed,
and `Killed` is the kernel finishing that. A limit that is used up is a member of
`over`, the notification about it a member of `notes`; the clock and the readers
have no notification. `atExit` is the history variable that makes "the budget was
kept" a statement about the moment of the exit and not about what the bridge saw.
The marker lies in the tool's own working directory. The tool may create it, and a
marker counts as a cancellation (`ToolMarks`), and may delete it (`ToolUnmarks`),
also the host's, before the bridge looks for it every 20 milliseconds; `onAbort`
writes it once, so that the abort is lost on the bridge and the wall clock has to
end the task. `removed` remembers whose marker went. Assumed of Windows: a closed
or terminated job kills its processes, a pipe ends when its writers are gone, a
refused process is notified. `probe` is abstracted to its result; the bounded
envelope of `invokeBridge` cannot overflow under these bounds.

### RestrictedYaml and PolicyEvaluation

A line is its indentation, whether it is an item, its key and its scalar; the
reader is recursive like its source. A policy set is a record; names are numbers,
standing for their place in code unit order, and a string is a sequence of such
numbers, so that sorting and prefix tests are real. A hash is what it was computed
from. Which key, pattern or length of a source is at fault is abstracted to the
code it gives (`form`). A condition is a record that holds its parts; that it
nests to a finite depth, as a JSON value does, is what the constant `Height` says
of it. The operations are `ParseDocument` of the reader and `Compile`,
`CreateSnapshot` and `EvaluatePolicy` of the engine; between the last two a snapshot
is stored, and may come back with its rules in another order, with another policy
set, or broken (`Presented`). `Evaluate` states the loop of `evaluatePolicy` over
the indices of the sorted rules: those that match before the first whose condition
is undefined. `MergedUpTo` folds the requirements of the rules that allow in their
order, as the code does. The reference definition (`Satisfied`, `Defined`,
`Matching`) is over sets of rules and leaves of conditions and knows no order.

### ScopePolicy and ScopeVerification

A path is a name, the globs that match it are sets of paths, a content is a record
and its SHA-256 is the content. A rule of `scope-policy.mjs` returns violations or
throws; only whether there is one decides the check, so a rule is a predicate.
A repository is a sequence of commits, each with parents, ancestors and a tree.
`PullRequest` opens a change on any commit of main, where its check passes against
the tip of that time; `Merge` merges it when main may have moved, and runs the
check that the push to main runs. `main` keeps the mode each step was accepted
in; a step whose push check fails is there all the same, because nothing takes a
merge back, and only what was accepted is claimed to be authorized.

A branch is a commit on its base, or a merge made within the branch and a commit
on top of it (`Branch`): the verifier compares ancestry and the parents of merges
and never asks whether a commit is on the first-parent line of main. A merge of
main into a branch is left out; it would add only ancestors that main has.

Simplified: one authorization gate and one issue, so that two issues of one gate
are left out; the owners of the earlier operations are left out of the later
transitions; the roadmap document is omitted; the worktree is clean; the verifier
and its rules are those of this repository in every commit.

`MCDeciders` puts both deciders and the YAML reader into one state machine. They
share nothing, so a behaviour moves one of them only; the run is the sum of the
three, not their product.

## 3. Runs

| Run | Configuration | Checks | Shows |
|---|---|---|---|
| `journal` | `MCJournal.cfg` | `StreamsDense`, `CommitAtomic`, `AcksSound`, `SingleEffect`, `LockAccounted` | the database stays consistent under two interleaving workers that crash, and no failure keeps its write lock |
| `workflow` | `MCWorkflowService.cfg` | `AnswersAgree`, `NeverReplayInvalid`, `ImplementsLedger`, `ExecuteSettles` | `execute` is exactly-once per command identity, implements the ledger, and answers every call but those made after a crash |
| `lock` | `MCRuntimeLock.cfg` | `MutualExclusion`, `SomeoneWins`, `ImplementsLock`, `AttemptSettles`, `RecoversFromCrash` | one runtime per data root; the lock is one that is taken in one step; contention does not cancel out; every start ends; leftovers are overcome |
| `client` | `MCPersistenceClient.cfg` | `CallsDefinite`, `OpenRequestsSettle` | backpressure and shutdown of the facade; what a settled call says is so |
| `startup` | `MCPersistenceStartup.cfg` | `NeverReplaced`, `ServesAuthority`, `QuarantineSound`, `StartSettles` | only corruption is put aside, once and whole; nothing takes its place unasked; only the manifest's database is served |
| `isolation` | `MCIsolationTask.cfg` | `EvidenceTrue`, `BudgetKept`, `TaskEnds` | evidence speaks of a tree that is gone and a cause that happened; stops settle the task, an abort unless the tool deletes its marker; no process is left |
| `deciders` | `MCDeciders.cfg` | `FailClosed`, `OrderIrrelevant`, `RequirementsStrict`, `YamlFaithful`, `AcceptedAuthorized`, `StartsReleased` | decisions are those of the rules as a set; what the gate accepts was authorized by what main held before; operations start after their amendment |
| `requests` | `MCControlRequests.cfg` | `RequestsAccounted`, `StopAfterAnswer`, `ReplayStable`, `SlotsReturn`, `AcceptedStopHappens` | one answer, one slot and one finding per request; a stop follows its answer; a repeated key keeps its operation |
| `events` | `MCEventStream.cfg` | `InOrderNoLoss`, `CatchesUp` | a reader sees nothing twice and misses nothing unannounced, but for what it resumes past before a runtime's first notification |
| `lifecycle` | `MCControlRuntime.cfg` | `ServingDiscoverable`, `NothingLeftBehind`, `RightRuntime`, `StopsAndEnds` | files are those of the runtime that serves; clients reach the runtime they mean |
| `close_race` | `MCCloseRace.cfg` | `RequestsSettle`, violated | a request overlapping `close()` can be left pending |
| `worker_crash` | `MCWorkerCrash.cfg` | `RequestsSettle`, violated | a request after a worker crash is left pending |

The types are not among the runs' properties, which are those that could be wrong:
the type invariants (`TypeOK`, `STypeOK`) are proved. `PersistenceStartup` has its
types in `TypeInv` of `PersistenceProofs`; the deciders state none.

Bounds, and why they suffice:

- `journal`: two workers (a race needs two) and seven batches: a creation of two
  events, its retry with fresh ids, a rival for the same version, a reuse of the
  command id, an extension whose task id exists, a batch that fails on its
  second event, and one whose audit id may exist. No bound on steps.
- `workflow`: two services, two calls each (`MaxCalls`), one end of a worker
  (`MaxCrashes`), by a crash of the first (which may be terminated afterwards) or a
  termination of the second, with calls under way and after it; six commands:
  retry, rival, changed content, shared key, same
  id on another run, wrong version. The second service calls only the creation,
  its rival and the amendment, which is what can race with the first. There is no
  symmetry, because the run has a liveness property. It may end when calls are
  used up, so deadlock is not checked.
- `lock`: three attempts; a third contender is needed for a chooser that appears
  between the scans of two others. The third follows the first under the same PID
  (a restart with a reused PID, or a second call of one process), so that each
  claims once and tickets stay bounded.
- `client`: four requests on a queue of two, so it overflows; two closers, so
  that one `close()` overlaps another; a worker that may fail, be terminated or
  crash. All calls may be made and answered, so deadlock is not checked.
- `startup`: two workers and two files (the first database, and the one that must
  not take its place), four starts, two crashes, one damage and one failed
  statement: enough for a quarantine that is cut short twice and resumed by
  another worker. Starts are used up, so deadlock is not checked.
- `isolation`: a job of at most two processes, so that the process limit can be
  met; three incidents out of aborts, overruns, floods and forged or deleted markers, so that
  every two causes can compete and a third meet their outcome. The task ends, so
  deadlock is not checked.
- `deciders`: some 1600 policy sets of up to three rules, conditions nested two
  deep (`ConditionDepth`, four in the code; the limit itself is reached), nine
  inputs, and some 16000 documents: all of up to three lines, of which most are
  refused, and longer ones that nest, with some beyond `MaxDepth`, `MaxNodes` and
  `MaxLines`. Three changes on a new repository (`FlowChanges`) are
  the shortest chain of gate, amendment and work; two (`StartChanges`) after the
  completed transition of each of P1-O04 to P1-O07 add its start gate and its work,
  and so they do after a transition whose amendment was merged onto an unrelated
  change, or never merged, or, for P1-O04, whose start gate pins no amendment, was
  merged within a branch (`Sidelined`). Two open changes (`MaxOpen`) let main move under a
  checked one. Behaviours end when the changes are used up.
- `requests`: three requests for one slot, one entry of the registry, one address
  in the failure window and one event connection; the first may be of any kind
  (`AnyQuery` has every check that refuses and every route), the second of those
  that take a slot or leave a trace, the third of those the registries remember.
  Two keys and two addresses overflow the registries; the clock goes to one, past
  both expiries. Requests arrive in the order of their numbers, since they are
  interchangeable.
- `events`: two consumers, three retained of four notifications and a buffer of
  one frame, so that retention, the buffer and the two streams all overflow; one
  lost connection or restart (`MaxDrops`).
- `lifecycle`: two runtimes that overlap, one of them spawned by the `start`
  command, after one that crashed; a `start` and a `stop` command; one port, so
  that it is always a reused one; Windows, whose token file is replaced in two
  steps, which adds to the interleavings of other systems the moment without a
  token file. Runtimes and commands come to an end, so deadlock is not checked in
  the last two either.

Fairness. `ControlRequests`: timers fire, a queued `setImmediate` runs, and the
iteration over a body ends once its connection has; no client is assumed to send,
read or leave. `EventStream`: sockets move data and report their end, and a
consumer reads on and connects again; nobody is assumed to publish.
`ControlRuntime`: a process goes on with what it has begun, and the monitor's
interval fires; nobody is assumed to launch, stop or signal. `RuntimeLock`: a
live process takes the next step of its call (weak
fairness of `Step`), and a wait that goes on is ended by its deadline (strong
fairness of `GiveUp`: the five seconds pass although each pass of the loop
rescans). Nobody is assumed to start, release or crash. `WorkflowService`: the
event loop and the worker of a service run as long as they are there (weak
fairness of `Progress`; a lost call has no step); `busy_timeout` makes waiting for
the write lock finite.
`PersistenceStartup`: a worker that runs gets on with its start; nobody is assumed
to start, crash or damage. `IsolationTask`: the event loop of the host, the bridge
and its two readers go on, and the kernel finishes a kill; neither the tool is
assumed to end, nor the caller to abort, nor a limit to be used up. The answer to
an exhausted wall clock does not rest on the tool; that to an abort does only in so
far as the tool leaves the host's marker alone until the bridge has seen it. The deciders are
pure and have no fairness.
`PersistenceClient`: weak fairness of the handlers of both event loops, of the
worker's loop, and of the thread's end once its port is closed or it is
terminated.

### Findings

`close_race`: `close()` waits for the worker's reply before it sets `#closed`.
A request in that window is posted behind the close. The worker closes its port
after the reply, and can end by itself with code 0; the exit listener then
returns early because `#closed` is set (`index.ts:192`) and the request is never
settled. ADR-0008 line 46 asks that shutdown drain or interrupt explicitly and
leave no unobserved promise.

`worker_crash`: after an `error` or an unexpected exit, pending requests are
failed but `#closed` stays false. A later request passes the check at
`index.ts:420`, enters `#pending` and is posted to a thread that is gone.
ADR-0008 line 45 asks that a worker crash be seen as a storage failure.
`OpenRequestsSettle` states what does hold: every call made while the worker
runs and no close is under way settles.

`ExecuteSettles` leaves out the same calls, seen from `execute`: those made after
a crash, of a client that is not closed.

Met while modelling and kept as caveats of the properties, not as findings:

- Starts that overlap. A start that has read "no marker" before another one's
  quarantine finds no database afterwards and creates an empty one, which
  `docs/implementation/phase-1/o05/node-sqlite-authority-storage.md` line 40 excludes
  for a marked data root; and the zero-byte file of a start in progress may be
  quarantined by another. The runtime lock keeps starts of runtimes apart, so
  `NeverReplaced`, `QuarantineSound` and part of `ServesAuthority` are stated for
  starts that do not overlap; `overlap` marks the others.
- A first start that crashes after the WAL header was written and before its
  migration has committed leaves a database without a history, which every later
  start refuses with `MIGRATION_MISMATCH`. Nothing is lost, and nothing recovers.
- A consumer that resumes between a runtime's descriptor (`server.ts` line 959) and
  its first notification (line 1010) gets neither a replay nor a gap, as line 376
  asks for retained notifications first, whereas
  `docs/implementation/phase-1/o06/authenticated-loopback-control-api.md` lines 31
  and 32 say that a retention gap is explicit. `InOrderNoLoss` and `CatchesUp`
  except what was lost in that way (`missed`), and nothing else.
- A tool that deletes the cancellation marker within the bridge's poll
  (`win32-bridge.ps1` line 642) outlives the abort until its wall clock, because
  `onAbort` writes the marker once. `TaskEnds` excepts an abort whose marker was
  deleted.
- The start gate of P1-O04 pins no amendment commit, and the verifier follows no
  first-parent line: a gate of that operation may name an amendment that was merged
  within a branch and came to main with it, never checked as an amendment.
  `StartsReleased` says so of P1-O04; the gates of the later operations pin the
  commit, which is one of main's own steps.
- `server.ts` line 895 normalises the allowed origins after the lock was taken and
  outside the `try` that releases it. No caller of the repository passes origins.
- The check that follows the merge of an amendment, when it is dispatched with the
  event "local" on main, always fails (`MISMATCHED_GOVERNANCE_AMENDMENT_BRANCH`);
  the push event, which the model has, does not compare the branch.
- `int` arithmetic of the bridge's limits overflows into `FAILED_TO_START`, a
  refusal; the model's limits are small.

## 4. Proofs

What is proved holds for every value of the constants that satisfies the named
assumptions, however many workers, calls, attempts or requests there are; the
bounds of section 3 play no part. Every safety property of section 3 is proved
but two (see the end of this section). The theorems:

| Module | Theorems | Assumes |
|---|---|---|
| `WorkflowProofs`, journal | `JournalTypeCorrect`, `JournalStreamsDense`, `JournalCommitAtomic`, `JournalAcksSound`, `JournalSingleEffect`, `JournalLockAccounted` | `InputsAssumption`, `NoneAssumption` |
| `WorkflowProofs`, service | `ServiceTypeCorrect`, `SuccessesAgree`, `AlwaysReplays`, `ServiceImplementsLedger` | also `CommandsAssumption`, `PreparedAssumption` |
| `RuntimeLockProofs` | `LockTypeCorrect`, `LockMutualExclusion`, `LockFileBelongsToHolder`, `LockClaimsSafe`, `SomeAttemptWins`, `BakeryImplementsLock` | `AttemptsAssumption` |
| `PersistenceProofs`, startup | `NothingReplaced`, `AuthorityServed`, `QuarantineIsSound` | `StartupAssumption` |
| `PersistenceProofs`, facade | `CallsAreDefinite` | `ClientAssumption` |
| `ControlRuntimeProofs` | `Discoverable`, `NothingIsLeft`, `ConnectsRight`, `RuntimesUseLock` | `RuntimeAssumption` |
| `ControlRequestsProofs` | `WithinLimits`, `Accounting`, `StopsAfterAnswer`, `ReplaysStable` | `RequestsAssumption` |
| `EventStreamProofs` | `WithinCapacities`, `NothingLost` | `StreamAssumption` |
| `IsolationProofs` | `IsolationTypeCorrect`, `EvidenceIsTrue`, `BudgetIsKept` | `IsolationAssumption` |
| `DeciderProofs`, change gate | `GateAuthorizes` | hypotheses of the theorem (`GateSound`) |
| `DeciderProofs`, policy engine | `DecisionsFailClosed`, `RulesHaveNoOrder`, `RequirementsKept` | `ConditionsAssumption`, `ValuesAssumption` |

Each assumption names what the code guarantees of its parameters: limits are
positive numbers, model values differ, batches are what the JSON schemas admit
(`InputsAssumption`), and the batches `prepare` makes are among those
(`PreparedAssumption`). TLC evaluates every one of them on its run.

### The journal and the service

The inductive invariant of the journal is `InductiveInv`:

- `LockInv`: whoever is inside a transaction holds the write lock, and is in
  one transaction only;
- `LockAccounted`, itself a property: nobody else holds it. It needs `BusyOpen`,
  that only a worker with a connection is inside `commitBatch`, and goes through
  each way in which a transaction may end or fail to begin;
- `AcceptInv`: what the body checked is still true when it inserts. It is
  preserved because `LockInv` keeps every other writer out;
- `UniqueCommands`: `command_receipts` has its two uniqueness constraints, from
  which "same identity, same receipt" follows;
- `ResInv` and `AcksDurable`: a receipt on its way to, or with, a caller is
  stored for the batch it answers;
- `StreamsDense`, `CommitAtomic`, `SingleEffect` themselves. `StreamsDense`
  needs `AcceptInv` (the batch continues at the current version), and a lemma
  on `CurrentVersion` of a dense stream.

`AcksSound` is `AcksDurable` and `AcksAgree`, which follows from it and
`UniqueCommands`.

Every step of `WorkflowService` is a step of the journal, so the service keeps
`InductiveInv`, and `ServiceInv` adds what only the service knows. `EffectsInv`
says that every receipt row and every event in the tables is the effect of one
command and has its counterpart, so that what a stream holds always replays.
`CallInv` says, for each await of `execute`, what the call has established by
then. It is stated by three facts that no later commit of anybody can undo, as
the tables only grow: the command's receipt is stored (`Stored`), its stream is
past the version it expects (`Late`), its identity is another command's
(`Taken`). This is what makes a state read before an await safe to use after it.
`AnswersInv` and `NeverReplayInvalid` follow phase by phase.

`ServiceImplementsLedger` is the refinement. The owner of a stream in the ledger
is the command whose receipt row is stored for it. The `COMMIT` of a prepared
batch is the ledger's `Apply` (`ApplyMaps`): its stream had no event, hence no
owner. A step that gives a definite answer is its `Tell` (`TellMaps`): told
"applied", the command is the owner (`StoredApplied`); told "refused", it is and
stays hopeless, by `Late` or `Taken` (`RefusedHopeless`). Every other step leaves
the ledger as it is.

### The runtime lock

Mutual exclusion, the ownership of the lock file and the safety of claims hold
for any set of attempts with distinct names and any assignment of PIDs. The key
of the invariant is `BakeryInv`: once attempt `a` has passed
`b` (it is elected, or the running scan has already looked at `b` and found
nothing that goes first), `b` stays behind `a`: if `b` is choosing, its scan is
sure to see `a`'s ticket, and if it has chosen, its ticket is later. `AliveInv`
and `ClaimsSafe` say why reclaiming never takes a live claim, and `ChooserInv`
that an unpublished claim reads as none. Two elected attempts would each be
before the other, which the order of tickets and names excludes.

`SomeAttemptWins` (contenders do not cancel each other out) needs `ElectionInv`:
until the lock is given, a process dies or a scan fails, some attempt in progress
is in front of all that have drawn a ticket (`FrontInv`). The step that could
break this is `Publish`: the new ticket puts its attempt in front of the front, or
behind it, and then the front remains. The front is never answered that somebody
else won, because what it has collected are tickets as they were drawn
(`CollectedInv`, `TicketInv`) and a lock file belongs to an attempt that was
answered with the lock (`AnsweredInv`).

`BakeryImplementsLock` is a refinement, by `InductiveInv` and one more fact: a lock
file is its holder's or that of an attempt whose process died (`FileInv`). The code
looks at the lock file (`CheckLock`) and writes it (`WriteLock`) in two steps, and
reads it (`Release`) and unlinks it (`Unlink`) in two others. At the moment of the
write the file is still free, because its holder would be elected beside the writer;
at the moment of the unlink it is still the releaser's. So the write is the abstract
`Acquire`, the unlink the abstract `Release`, and every step of the bakery before
them is a stutter or a `Refuse` (`IdlesKeepStage`, `QuitsRefuse`, `HoldersMap`,
`CrashMaps`).

### Startup and facade of the persistence package

The invariant of `PersistenceStartup` is in two layers. What holds in any case:
a worker that serves has the manifest's schema and history in the file it opened
(`ConnInv`), and the marker, created exclusively, lets one worker move the database
and move it once (`TokenInv`). What holds while starts do not overlap (`SoloInv`):
only one worker runs; `DiskInv` says what marker, path and quarantined file mean
together after any crash, such as that a marker without a quarantined file has
a corrupt database still in place; and `Placed` says what the one worker knows at
each step, as that a worker on its way to `open` has found no marker and there is
none.
`NeverReplaced` is part of `DiskInv`, and `QuarantineSound` follows from it and
`TokenInv`.

`CallsAreDefinite` rests on an order. Requests are numbered as they are posted
(`NumberInv`), the two queues are in the order of the numbers (`QueueInv`), and
the worker skips nothing and answers what it handles (`HandledInv`). So, when the
reply of a `close()` is delivered, no earlier call is waiting: it was handled
before the close, and its reply was ahead in the same queue. `ThreadInv` bounds
what a live worker can hold by `#pending`, whatever errors, exits and
terminations came before.

### The control plane

`ControlRuntime`: the invariant follows the lock. A runtime from taking the lock to
the end of its shutdown owns it (`LockInv`) and removes it last (`RemovedInv`), so
each file on disk is the owner's or belongs to a dead process (`TokenInv`,
`DescriptorInv`). `ServingDiscoverable` and `NothingLeftBehind` follow. `RightRuntime`
holds because a client keeps to the runtime whose files it has read, and that
runtime answers only to its own token (`ClientInv`).

`RuntimesUseLock` maps the runtimes to the same abstract lock: a runtime is in from
`AcquireLock` to the removal of the lock. That the removal ends it needs
`RemovedInv`, and that a start command spawns a runtime that has not asked for the
lock needs `SpawnInv`. The two refinements meet in `DataRootLock`: what is proved of
the runtimes is proved under the lock that the bakery keeps.

`ControlRequests`: `RequestInv` says that what may still be answered has not been
(a request whose slot is taken and that is not late has sent nothing), and that a
stop is arranged by a 202 and due once it has been flushed; `SlotInv` counts the
slots. For the replays, `RegistryInv` says that an operation stays in the registry
until its time is up or as many younger operations have begun as the registry
holds (`Remembered`): room is made by removing the oldest, so whatever is missing
has expired or was followed by a full registry. `OriginInv` ties entries to the
acceptances that made them.

`EventStream`: `RetainedInv` says that what is retained is a run of consecutive
notifications that ends with the last one published; `ContinuedInv` that, at any
place in the pipe of a client, what it has and the frames up to there tell of
every notification before the next one, either by carrying it or by a gap. Replay
in `serveEvents`, the gap it reports, and the ending of a slow stream by
`writeSseFrame` all preserve that, and reading a frame moves it to what the client
has. `CapacityInv` and `BoundInv` keep the counts.

### The isolation task

A bridge that has returned has told the truth (`AnswerTrue`), and its answer is
either read whole by the host or not at all (`AnswerInv`, `ResultInv`). This needs
that a reason given by anybody is one that occurred (`ReasonInv`), although a
reader and the main loop may overwrite each other's; that a reader that has
stopped has given a reason, and one at the end of its stream saw a tree without
processes (`ReaderInv`, `TreeInv`); and that the round of the loop that saw
the exit, or the reread after it, has seen everything that was used up before it
(`LoopInv`). The last is what `BudgetKept` turns on: the notification about a
refused process is kept until it is a reason.

### The change gate

`GateAuthorizes`: under every set of paths, rules, histories
and changes, in every order of checks and merges, `AcceptedAuthorized` holds: what
was accepted onto main was authorized by what main held before it. Its hypotheses
are `PathsSound` (the lock has a governed path that is nobody's evidence) and
`HistoriesSound` (histories start with commits that exist); the property itself is
about a main whose lock lists no operation's evidence (`LockOfFiles`), as
`operations/phase-1/authority-lock.json` does not. That is needed: independent
evidence may be committed without refreshing the lock, so a lock with an entry for
such a file would go stale. `MCDeciders` assumes the hypotheses of its own
instance (`GateSound`), where TLC evaluates them. The invariant `IInv` says that
the repository is a sequence that holds its first parents, that main names commits
of it, and that every accepted step so far is authorized; the last part is stable
because commits are only appended (`Grown`, `GrownMain`). Four lemmas say why a
step accepted in each mode is authorized (`MergeAuthorized`, `AmendmentAuthorized`,
`EvidenceAuthorized`, `UngovernedAuthorized`); `PassesAuthorized` joins them along
the choice that `main()` makes, for any event base, which is why a main that has
moved since the check of the pull request changes nothing.

### The policy engine

The engine is a pure computation, so its invariant `PolicyInv` (the lemma
`PolicyConsistent`) is small and follows from the actions: a result
is what the source compiles to, a snapshot is made of it, a decision is what
`evaluatePolicy` returned. What has to be proved is that the computation is the
reference: for every policy set, every input, and every way in which a stored
snapshot comes back. `ConditionsAssumption` says that conditions nest to a finite
height, `ValuesAssumption` that sources, constants and inputs have their JSON types
and that an absent value is none of them; TLC evaluates both on its instance.

- Recursion. A condition is evaluated, checked for its depth and given a meaning
  by recursive functions. That such a function is what its body says is proved by
  looking at a condition of least height where it would not be (`LeastHeight`,
  `Recursion`, `SameFunction`), which gives the equations `Evaluation`,
  `FaultEquation`, `LeavesEquation` and `SatisfiedEquation`. By the same argument
  `ConditionMeaning`: on a condition that the compiler accepts, evaluation is
  defined exactly when every leaf is, also under `any` and `not`, and then says
  what the leaves mean.
- Order. `InOrder`, the stable sort, is a permutation in ascending order
  (`InOrderPermutes`), and with distinct keys there is one only (`OneOrder`), so a
  source compiles to one value however its rules are listed (`OrderOfSource`). The
  hash is computed from the value, which carries `OrderIrrelevant` to decisions.
- Trust. A snapshot passes the checks of `evaluatePolicy` exactly when what its
  policy set compiles to is what the hash was computed from (`TrustChecked`).
- Merging. The loop of `mergeRequirements` keeps, rule by rule, the union of the
  scopes, the least bounds, the strong level or the conflict (`MergeStep`,
  `AllMerged`), of the set of rules merged so far; and it merges to nothing exactly
  when no rule requires anything (`NothingRequired`).

`Decided` joins these: the decision is the one of the rules as a set. `FailClosed`,
`OrderIrrelevant` and `RequirementsStrict` follow in every state of the invariant.
The theorems are about `PolicySpec`; a behaviour of the run `deciders` is one of it,
for the other parts leave the engine's variables alone.

### Only model-checked

- `StartsReleased`. That the amendment was accepted by its own check and that the
  start gate came later are, for P1-O05 to P1-O07, facts about the history whose
  commits the gate pins, not consequences of the check; for P1-O04 the amendment
  may even be one that main never took. Assuming otherwise would make a theorem
  hollow. TLC checks the property on the histories of `MCRepository`.
- `YamlFaithful`: the reader is recursive over the lines of a document, and what it
  computes is stated by two more recursions (`Written`, `Leaves`). The argument that
  carries the conditions of a policy through, a height that falls, would have to go
  through the printed form of every value; it stays with TLC.
- Liveness, which the prover does not treat: `ExecuteSettles`, `AttemptSettles`,
  `RecoversFromCrash`, `OpenRequestsSettle`, `StartSettles`, `TaskEnds`,
  `SlotsReturn`, `AcceptedStopHappens`, `CatchesUp`, `StopsAndEnds`, and
  `RequestsSettle`, which is violated.

## 5. Not modelled, and the plan

JSON schema validation and the schema registry, canonicalisation byte by byte, SQL
text, HTTP and SSE syntax, the decoding of responses in the client and ACLs are
input/output or syntax; values in the models are admitted ones. The 2^53 bound of
tickets and versions is not reached. Wall-clock time appears only as the
nondeterministic firing of a timeout; the deadline of `waitForClient` is left out,
so a start command keeps polling. `backupDatabase` copies by SQLite's own backup to
a path its caller gives. Of the repository scripts, the change gate alone is
modelled; its dispatch for Phase 2, the operation given by hand and local runs are
not, and the release, qualification, contract, architecture and topology scripts
run once over files, have no state and wait for nobody.

The refusals of `start` when its discovery meets a stop, a rotation of the token
or a reused port and PID (`CONTROL_TOKEN_UNAVAILABLE`, `CONTROL_AUTH_REQUIRED`,
`CONTROL_ENDPOINT_IDENTITY_MISMATCH` are not recoverable there) are in
`ControlRuntime`, but no property says when `start` must succeed.

Left, in this order:

1. Abstract specifications of more components, each with a refinement theorem:
   `PersistenceClient` as an ordered queue of calls, `EventStream` as a log with
   announced gaps.
2. When `start` must succeed: with nobody stopping or crashing, two concurrent
   `start` commands both end connected to the one runtime.
