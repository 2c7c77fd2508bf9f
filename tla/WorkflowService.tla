-------------------------- MODULE WorkflowService --------------------------
(***************************************************************************)
(* WorkflowService.execute (packages/platform) with the kernel and the    *)
(* workflow domain it drives, over the journal.  Several services run,     *)
(* each with a persistence worker of its own: a service process s is also  *)
(* the worker s of module Journal.  Between any two awaits of execute the  *)
(* other services and the termination of a worker interleave.              *)
(***************************************************************************)
EXTENDS Journal

CONSTANTS Commands,  \* the admitted CommandEnvelope values
          MaxCalls,  \* bound: calls of execute per service
          MaxCrashes \* bound: terminations of a worker, over the whole run

Command == [commandId : Ids, idempotencyKey : Ids, stream : Ids,
            expectedVersion : Nat, payload : Ids]

ASSUME CommandsAssumption == Commands \subseteq Command /\ None \notin Command

VARIABLES
    phase,    \* where service s is in execute
    cmd,      \* the command it executes
    prepared, \* the batch the kernel prepared, or None
    receipt,  \* the receipt #result has to verify, or None
    failure,  \* the error caught by execute, "" when there is none
    closed,   \* the services whose persistence client has #closed
    calls, crashes, \* what the bounds count
    answers   \* history: what callers of execute were answered

svars == <<phase, cmd, prepared, receipt, failure, closed, calls, crashes,
           answers>>
-----------------------------------------------------------------------------
(* The kernel and the workflow domain.                                     *)

\* Mutant of canonicalJsonSha256: the payload of the command is not hashed.
HashOfIdentity(c) ==
    <<c.commandId, c.idempotencyKey, c.stream, c.expectedVersion>>
\* The hash of a command covers all of it: here, everything it says.
canonicalJsonSha256(c) ==
    <<c.commandId, c.idempotencyKey, c.stream, c.expectedVersion, c.payload>>
commandIdentity(c) ==
    [commandId |-> c.commandId, idempotencyKey |-> c.idempotencyKey,
     effectScope |-> c.stream, payloadHash |-> canonicalJsonSha256(c)]

History(stream) == {e \in event_journal : e.stream = stream}

\* DeterministicKernel.replay with workflow's apply: versions 1, 2, ... of one
\* stream, distinct event ids, and only a creation that names its cause.
ReplayValid(stream, events) ==
    /\ \A e \in events : e.stream = stream
    /\ {e.version : e \in events} = 1..Cardinality(events)
    /\ Cardinality({e.eventId : e \in events}) = Cardinality(events)
    /\ \A e \in events : e.version = 1 /\ e.payload[1] = e.causationId
ReplayVersion(events) == Cardinality(events)
ReplayState(events) ==
    IF events = {} THEN None ELSE (CHOOSE e \in events : TRUE).payload

\* The UUIDs drawn for this call: nobody else's.
createId(s) == <<s, calls[s]>>

\* workflow's decide: a run can only be created once, from nothing.
Decides(state, c) == state = None /\ c.expectedVersion = 0

\* Mutant of Cause: the event does not name its command.
OwnCause(c, token) == token
\* The causation id of the event a command leads to.
Cause(c, token) == c.commandId

\* DeterministicKernel.prepare: one creation event and one audit fact.
prepare(c, events, token) ==
    [commandId |-> c.commandId, idempotencyKey |-> c.idempotencyKey,
     effectScope |-> c.stream, payloadHash |-> canonicalJsonSha256(c),
     transactionId |-> token,
     stream |-> c.stream, expectedVersion |-> c.expectedVersion,
     events |-> <<[eventId |-> token, stream |-> c.stream,
                   version |-> ReplayVersion(events) + 1,
                   payload |-> <<c.commandId, c.payload>>,
                   payloadHashOk |-> TRUE, causationId |-> Cause(c, token)]>>,
     outbox |-> <<>>, audit |-> <<token>>]

\* What the kernel prepares, the schema of a batch admits.
ASSUME PreparedAssumption ==
    /\ MaxCalls \in Nat
    /\ \A c \in Commands, s \in Workers, n \in 1..MaxCalls :
          prepare(c, {}, <<s, n>>) \in Batches
-----------------------------------------------------------------------------
SInit ==
    /\ Init
    /\ phase = [s \in Workers |-> "idle"]
    /\ cmd = [s \in Workers |-> None]
    /\ prepared = [s \in Workers |-> None]
    /\ receipt = [s \in Workers |-> None]
    /\ failure = [s \in Workers |-> ""]
    /\ closed = {}
    /\ calls = [s \in Workers |-> 0]
    /\ crashes = 0
    /\ answers = {}

\* execute returns or throws: its locals are gone.
Answer(s, code, r, state) ==
    /\ answers' = answers \cup
           {[command |-> cmd[s], code |-> code, receipt |-> r, state |-> state]}
    /\ phase' = [phase EXCEPT ![s] = "idle"]
    /\ cmd' = [cmd EXCEPT ![s] = None]
    /\ prepared' = [prepared EXCEPT ![s] = None]
    /\ receipt' = [receipt EXCEPT ![s] = None]
    /\ failure' = [failure EXCEPT ![s] = ""]
Refuse(s, code) == Answer(s, code, None, None)

\* A receipt is there: #result has to verify it.
Verify(s, r) ==
    /\ receipt' = [receipt EXCEPT ![s] = r]
    /\ phase' = [phase EXCEPT ![s] = "result"]
    /\ UNCHANGED <<cmd, prepared, failure, answers>>

Goto(s, p) ==
    /\ phase' = [phase EXCEPT ![s] = p]
    /\ UNCHANGED <<cmd, prepared, receipt, failure, answers>>

\* execute is called, whatever has become of the worker: admitCommand has
\* taken its snapshot of the command.
Execute(s, c) ==
    /\ phase[s] = "idle" /\ calls[s] < MaxCalls
    /\ calls' = [calls EXCEPT ![s] = @ + 1]
    /\ cmd' = [cmd EXCEPT ![s] = c]
    /\ phase' = [phase EXCEPT ![s] = "lookup"]
    /\ UNCHANGED <<vars, prepared, receipt, failure, closed, crashes, answers>>

\* lookupCommandReceipt, before anything is prepared.  #request refuses a client
\* that is #closed and nothing else: when the worker has crashed, the request is
\* posted to a thread that is gone, and nobody will settle it.
Lookup(s) ==
    LET id == commandIdentity(cmd[s]) IN
    /\ phase[s] = "lookup"
    /\ \/ s \in closed /\ Refuse(s, "PERSISTENCE_CLOSED")
       \/ s \notin open \cup closed /\ Goto(s, "lost")
       \/ /\ s \in open
          /\ \/ /\ IsConflict(id)
                /\ Refuse(s, "PERSISTENCE_IDEMPOTENCY_CONFLICT")
             \/ IsDuplicate(id) /\ Verify(s, StoredReceipt(id))
             \/ CommandRows(id) = {} /\ Goto(s, "read")
    /\ UNCHANGED <<vars, closed, calls, crashes>>

\* readEvents, then prepare on what was read: nothing else is shared.
ReadAndPrepare(s) ==
    LET c == cmd[s]
        events == History(c.stream) IN
    /\ phase[s] = "read"
    /\ \/ /\ ~ReplayValid(c.stream, events)
          /\ Refuse(s, "KERNEL_REPLAY_INVALID")
       \/ /\ ReplayValid(c.stream, events)
          /\ c.expectedVersion # ReplayVersion(events)
          /\ failure' = [failure EXCEPT ![s] = "KERNEL_VERSION_CONFLICT"]
          /\ phase' = [phase EXCEPT ![s] = "raced"]
          /\ UNCHANGED <<cmd, prepared, receipt, answers>>
       \/ /\ ReplayValid(c.stream, events)
          /\ c.expectedVersion = ReplayVersion(events)
          /\ ~Decides(ReplayState(events), c)
          /\ Refuse(s, "KERNEL_DOMAIN_REJECTED")
       \/ /\ ReplayValid(c.stream, events)
          /\ c.expectedVersion = ReplayVersion(events)
          /\ Decides(ReplayState(events), c)
          /\ prepared' = [prepared EXCEPT ![s] = prepare(c, events, createId(s))]
          /\ phase' = [phase EXCEPT ![s] = "commit"]
          /\ UNCHANGED <<cmd, receipt, failure, answers>>
    /\ UNCHANGED <<vars, closed, calls, crashes>>

\* commit is posted to the worker, whose own steps follow.
Commit(s) ==
    /\ phase[s] = "commit"
    /\ CommitLookup(s, prepared[s])
    /\ phase' = [phase EXCEPT ![s] = "committing"]
    /\ UNCHANGED <<cmd, prepared, receipt, failure, closed, calls, crashes,
                   answers>>

WorkerStep(s) ==
    /\ CommitBegin(s) \/ CommitDuplicate(s) \/ CommitRollback(s)
       \/ CommitCheck(s) \/ CommitApply(s)
    /\ UNCHANGED svars

\* The reply of the worker; a lost race is looked up once more.
Receive(s) ==
    /\ phase[s] = "committing"
    /\ Reply(s)
    /\ \/ /\ res[s].code = "COMMITTED"
          /\ Verify(s, res[s].receipt)
       \/ /\ res[s].code = "PERSISTENCE_OPTIMISTIC_CONCURRENCY"
          /\ failure' = [failure EXCEPT ![s] = res[s].code]
          /\ phase' = [phase EXCEPT ![s] = "raced"]
          /\ UNCHANGED <<cmd, prepared, receipt, answers>>
       \/ /\ res[s].code \notin
                 {"COMMITTED", "PERSISTENCE_OPTIMISTIC_CONCURRENCY"}
          /\ Refuse(s, res[s].code)
    /\ UNCHANGED <<closed, calls, crashes>>

\* Mutant of RacedLookup: the conflict is thrown without asking the journal.
RacedWithoutLookup(s) ==
    /\ phase[s] = "raced"
    /\ Refuse(s, failure[s])
    /\ UNCHANGED <<vars, closed, calls, crashes>>

\* lookupCommandReceipt again: only a durable receipt turns the race into success.
RacedLookup(s) ==
    LET id == commandIdentity(cmd[s]) IN
    /\ phase[s] = "raced"
    /\ \/ IsConflict(id) /\ Refuse(s, "PERSISTENCE_IDEMPOTENCY_CONFLICT")
       \/ IsDuplicate(id) /\ Verify(s, StoredReceipt(id))
       \/ CommandRows(id) = {} /\ Refuse(s, failure[s])
    /\ UNCHANGED <<vars, closed, calls, crashes>>

\* #result: the receipt must be this command's, bind exactly its events, and
\* replay to the version it says.
ReceiptVerified(c, r) ==
    LET bound == {e \in History(c.stream) :
                     e.version > c.expectedVersion /\ e.version <= r.committedVersion}
        upTo == {e \in History(c.stream) : e.version <= r.committedVersion}
    IN /\ r.commandId = c.commandId /\ r.stream = c.stream
       /\ Cardinality(bound) = Len(r.eventIds)
       /\ \A i \in DOMAIN r.eventIds : \E e \in bound :
             /\ e.eventId = r.eventIds[i]
             /\ Cardinality({d \in bound : d.version <= e.version}) = i
       /\ \A e \in bound : e.causationId = c.commandId
       /\ ReplayValid(c.stream, upTo)
       /\ ReplayState(upTo) # None
       /\ ReplayVersion(upTo) = r.committedVersion
Result(s) ==
    LET c == cmd[s]
        upTo == {e \in History(c.stream) :
                    e.version <= receipt[s].committedVersion} IN
    /\ phase[s] = "result"
    /\ \/ /\ ReceiptVerified(c, receipt[s])
          /\ Answer(s, "COMMITTED", receipt[s], ReplayState(upTo))
       \/ /\ ~ReceiptVerified(c, receipt[s])
          /\ Refuse(s, "KERNEL_REPLAY_INVALID")
    /\ UNCHANGED <<vars, closed, calls, crashes>>

\* Mutant of WorkerEnds: nobody rejects the call that is pending.
WorkerEndsSilently(s) ==
    /\ crashes < MaxCrashes /\ Terminate(s)
    /\ crashes' = crashes + 1
    /\ UNCHANGED <<phase, cmd, prepared, receipt, failure, answers>>

\* #failPending: the request that is pending is rejected, and its caller learns
\* nothing of the outcome.
FailPending(s) ==
    \/ /\ phase[s] = "idle"
       /\ UNCHANGED <<phase, cmd, prepared, receipt, failure, answers>>
    \/ /\ phase[s] # "idle"
       /\ Refuse(s, "PERSISTENCE_WORKER_EXITED")

\* The worker thread ends, under a call or between two.
WorkerEnds(s) ==
    /\ crashes < MaxCrashes /\ Terminate(s)
    /\ crashes' = crashes + 1
    /\ FailPending(s)

\* It ends unexpectedly: the listeners of error and exit leave #closed alone.
Crash(s) == WorkerEnds(s) /\ UNCHANGED <<closed, calls>>

\* terminateForQualification, of a worker that runs or has crashed before.
TerminateForQualification(s) ==
    /\ \/ WorkerEnds(s)
       \/ /\ s \notin open \cup closed /\ FailPending(s)
          /\ UNCHANGED <<vars, crashes>>
    /\ closed' = closed \cup {s}
    /\ UNCHANGED calls

\* A service with a new client and worker takes the place of the one whose
\* worker is gone; a call that was lost there stays unanswered.
Reopen(s) ==
    /\ phase[s] \in {"idle", "lost"}
    /\ Open(s)
    /\ closed' = closed \ {s}
    /\ phase' = [phase EXCEPT ![s] = "idle"]
    /\ cmd' = [cmd EXCEPT ![s] = None]
    /\ UNCHANGED <<prepared, receipt, failure, calls, crashes, answers>>

\* One call of execute moving forward.
Progress(s) ==
    \/ Lookup(s) \/ ReadAndPrepare(s) \/ Commit(s) \/ WorkerStep(s)
    \/ Receive(s) \/ RacedLookup(s) \/ Result(s)

SNext ==
    \E s \in Workers :
        \/ \E c \in Commands : Execute(s, c)
        \/ Progress(s) \/ Reopen(s)
        \/ Crash(s) \/ TerminateForQualification(s)

\* The event loop and the worker thread of a service that is not terminated
\* keep running; nobody has to call execute, crash or reopen.
SSpec == SInit /\ [][SNext]_<<vars, svars>>
         /\ \A s \in Workers : WF_<<vars, svars>>(Progress(s))
-----------------------------------------------------------------------------
(* Properties.                                                             *)

\* The answers that settle a command's fate without applying it.
Refusals == {"KERNEL_VERSION_CONFLICT", "KERNEL_DOMAIN_REJECTED",
             "PERSISTENCE_OPTIMISTIC_CONCURRENCY",
             "PERSISTENCE_IDEMPOTENCY_CONFLICT"}

Phases == {"idle", "lookup", "read", "commit", "committing", "raced", "result",
           "lost"}

\* Every variable of the service has its type; a call in progress has its
\* command, a commit its batch and a verification its receipt.
STypeOK ==
    /\ phase \in [Workers -> Phases]
    /\ \A s \in Workers :
          /\ IF phase[s] = "idle" THEN cmd[s] = None ELSE cmd[s] \in Commands
          /\ phase[s] \in {"commit", "committing"} => prepared[s] \in Batches
          /\ phase[s] = "result" => receipt[s] \in Receipt
          /\ phase[s] = "raced" => failure[s] \in Refusals
          /\ phase[s] = "committing" <=> pc[s] # "idle"

Successes == {a \in answers : a.code = "COMMITTED"}

\* Callers of execute that used one command id, or one idempotency key on one
\* stream, and were all told success, were told the same receipt and the same
\* state, and that state is the run their own command created: no lost race,
\* retry or restart lets a caller claim the effect of another command.
AnswersAgree ==
    \A a, b \in Successes :
        /\ a.state = <<a.command.commandId, a.command.payload>>
        /\ \/ a.command.commandId = b.command.commandId
           \/ /\ a.command.idempotencyKey = b.command.idempotencyKey
              /\ a.command.stream = b.command.stream
           => a.receipt = b.receipt /\ a.state = b.state

\* Whatever the services interleave, the history and the receipts they leave
\* behind always replay: #result and prepare never answer KERNEL_REPLAY_INVALID.
NeverReplayInvalid == \A a \in answers : a.code # "KERNEL_REPLAY_INVALID"

\* The refinement mapping: the command that owns a stream is the one its
\* receipt was stored for, known by its hash, and what callers were told for
\* good counts; PERSISTENCE_BUSY and
\* PERSISTENCE_WORKER_EXITED leave the outcome open.
OwnerAmong(rows) ==
    IF rows = {} THEN None
    ELSE CHOOSE c \in Commands :
             \E row \in rows : row.payloadHash = canonicalJsonSha256(c)
OwnerOf(stream) ==
    OwnerAmong({row \in command_receipts : row.effectScope = stream})
Effect == [stream \in {c.stream : c \in Commands} |-> OwnerOf(stream)]
Told == {<<a.command, "applied">> : a \in Successes} \cup
        {<<a.command, "refused">> : a \in {x \in answers : x.code \in Refusals}}
Ledger == INSTANCE CommandLedger WITH effect <- Effect, told <- Told

\* execute implements the ledger: lookups, races, retries and terminated
\* workers included, a command takes effect at most once and atomically, and
\* no caller is told applied or refused when the truth is, or could ever
\* become, the opposite.
ImplementsLedger == Ledger!Spec

\* Every call of execute is answered, also when its worker is busy, when it
\* loses its race, when the worker crashes or is terminated under it, and when
\* it is made after a termination.  The calls left out are those made after a
\* crash, of a client that still takes requests for a worker that is gone.
ExecuteSettles ==
    \A s \in Workers :
        phase[s] # "idle" /\ s \in open \cup closed ~> phase[s] = "idle"
-----------------------------------------------------------------------------
(* The inductive invariant behind these properties.                        *)

\* The receipt row and the event that the command c, and no other, leaves.
EffectOf(c, row, e) ==
    /\ SameCommand(row, commandIdentity(c)) /\ c.expectedVersion = 0
    /\ e.stream = c.stream /\ e.version = 1 /\ e.causationId = c.commandId
    /\ e.payload = <<c.commandId, c.payload>>
    /\ row.receipt.commandId = c.commandId /\ row.receipt.stream = c.stream
    /\ row.receipt.committedVersion = 1
    /\ row.receipt.eventIds = <<e.eventId>>

\* The journal holds the effects of commands and nothing else.
EffectsInv ==
    /\ \A row \in command_receipts : \E c \in Commands, e \in event_journal :
          EffectOf(c, row, e)
    /\ \A e \in event_journal : \E c \in Commands, row \in command_receipts :
          EffectOf(c, row, e)

\* What a call may rely on once it has seen it, whatever is stored later: its
\* receipt is stored; its stream is past its expectation; its identity is
\* another command's.
Stored(c, r) ==
    \E row \in command_receipts :
        SameCommand(row, commandIdentity(c)) /\ row.receipt = r
Late(c) == c.expectedVersion # 0 \/ History(c.stream) # {}
Taken(c) ==
    \E row \in CommandRows(commandIdentity(c)) :
        ~SameCommand(row, commandIdentity(c))

CallTypes ==
    /\ phase \in [Workers -> Phases]
    /\ cmd \in [Workers -> Commands \cup {None}]
    /\ prepared \in [Workers -> Batches \cup {None}]
    /\ receipt \in [Workers -> Receipt \cup {None}]
    /\ failure \in [Workers -> {"", "KERNEL_VERSION_CONFLICT",
                                "PERSISTENCE_OPTIMISTIC_CONCURRENCY"}]
    /\ closed \subseteq Workers
    /\ calls \in [Workers -> 0..MaxCalls]

\* What a call in progress has established, phase by phase.
CallInv(s) ==
    /\ IF phase[s] = "idle" THEN cmd[s] = None
       ELSE cmd[s] \in Commands /\ calls[s] # 0
    /\ phase[s] \in {"commit", "committing"} =>
          /\ cmd[s].expectedVersion = 0
          /\ prepared[s] = prepare(cmd[s], {}, createId(s))
    /\ IF phase[s] = "committing" THEN pc[s] # "idle" /\ cur[s] = prepared[s]
       ELSE pc[s] = "idle"
    /\ phase[s] = "result" => Stored(cmd[s], receipt[s])
    /\ phase[s] = "raced" => Late(cmd[s]) /\ failure[s] # ""
    /\ pc[s] = "reply" /\ res[s].code = "PERSISTENCE_OPTIMISTIC_CONCURRENCY" =>
          Late(cmd[s])
    /\ pc[s] = "reply" /\ res[s].code = "PERSISTENCE_IDEMPOTENCY_CONFLICT" =>
          Taken(cmd[s])

\* What callers were told of success is stored, and is their own run.
AnswersInv ==
    \A a \in Successes :
        /\ a.command \in Commands /\ Stored(a.command, a.receipt)
        /\ a.state = <<a.command.commandId, a.command.payload>>

ServiceInv ==
    /\ InductiveInv /\ EffectsInv /\ CallTypes
    /\ \A s \in Workers : CallInv(s)
    /\ AnswersInv /\ NeverReplayInvalid
=============================================================================
