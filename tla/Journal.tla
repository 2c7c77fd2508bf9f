------------------------------ MODULE Journal ------------------------------
(***************************************************************************)
(* The authority database of packages/persistence: several persistence     *)
(* workers (one SQLite connection each, persistence-worker.ts) append to   *)
(* one journal.  A worker handles its requests one after another, but two  *)
(* workers interleave between the statements of a commit: the duplicate    *)
(* lookup before the transaction, BEGIN IMMEDIATE, the transaction itself  *)
(* and the reply.  A worker may be terminated between any two of them.     *)
(* A row is a record, a table a set of rows; a hash is what it was         *)
(* computed from, and whether it matches is a Boolean field of its owner.  *)
(***************************************************************************)
EXTENDS Integers, Sequences, FiniteSets

CONSTANTS Workers,      \* persistence workers, each with its own connection
          Batches,      \* JournalAppendBatch values callers may submit
          InboxRecords, \* InboxRecord values
          Checkpoints,  \* ProjectionCheckpoint values
          Ids,          \* every identifier: commands, keys, events, tasks...
          None          \* no worker, no batch, no receipt

EventRow   == [eventId : Ids, stream : Ids, version : Nat \ {0},
               payload : Ids, payloadHashOk : BOOLEAN, causationId : Ids]
OutboxTask == [taskId : Ids, idempotencyKey : Ids, effectScope : Ids,
               payloadHashOk : BOOLEAN]
Batch      == [commandId : Ids, idempotencyKey : Ids, effectScope : Ids,
               payloadHash : Ids, transactionId : Ids, stream : Ids,
               expectedVersion : Nat, events : Seq(EventRow),
               outbox : Seq(OutboxTask), audit : Seq(Ids)]
Receipt    == [transactionId : Ids, commandId : Ids, stream : Ids,
               committedVersion : Nat, eventIds : Seq(Ids),
               outboxTaskIds : Seq(Ids), auditIds : Seq(Ids)]
ReceiptRow == [commandId : Ids, idempotencyKey : Ids, effectScope : Ids,
               payloadHash : Ids, receipt : Receipt]
InboxRow   == [resultId : Ids, taskId : Ids, payloadHash : Ids]
Checkpoint == [projectionName : Ids, sourceSequence : Nat]

\* The codes of commitBatch's outcomes.
Codes == {"COMMITTED", "PERSISTENCE_IDEMPOTENCY_CONFLICT", "PERSISTENCE_BUSY",
          "PERSISTENCE_OPTIMISTIC_CONCURRENCY", "PERSISTENCE_CONTRACT_INVALID",
          "PERSISTENCE_STORAGE_FAILURE"}
PostedOutcome == [code : {"COMMITTED"}, receipt : Receipt]
                 \cup [code : Codes \ {"COMMITTED"}, receipt : {None}]

\* What the JSON schemas guarantee before a value reaches a worker.
ASSUME InputsAssumption ==
    /\ Batches \subseteq Batch
    /\ InboxRecords \subseteq InboxRow
    /\ Checkpoints \subseteq Checkpoint

\* The absence of a value is not a value.
ASSUME NoneAssumption ==
    /\ None \notin Workers /\ None \notin Ids /\ None \notin Batch
    /\ None \notin EventRow /\ None \notin PostedOutcome

VARIABLES
    event_journal, command_receipts, outbox, audit_facts, inbox,
    projection_checkpoints, \* the tables of 001-initial.sql, as committed
    writer,   \* the connection that holds SQLite's write lock, or None
    open,     \* the workers that have a database connection
    pc,       \* where worker w is in commitBatch, "idle" when not in it
    cur,      \* the batch worker w is committing, or None
    res,      \* the outcome worker w is about to post, or None
    held,     \* workers with a qualification write lock (writeLockHeld)
    armed,    \* the uncommitted event of an armed crash transaction, or None
    acks      \* history: <<batch, receipt>> pairs callers have received

tables == <<event_journal, command_receipts, outbox, audit_facts, inbox,
            projection_checkpoints>>
conns  == <<open, held, armed>>
vars   == <<tables, writer, conns, pc, cur, res, acks>>

Init ==
    /\ event_journal = {} /\ command_receipts = {} /\ outbox = {}
    /\ audit_facts = {} /\ inbox = {} /\ projection_checkpoints = {}
    /\ writer = None
    /\ open = Workers
    /\ pc = [w \in Workers |-> "idle"]
    /\ cur = [w \in Workers |-> None]
    /\ res = [w \in Workers |-> None]
    /\ held = {}
    /\ armed = [w \in Workers |-> None]
    /\ acks = {}
-----------------------------------------------------------------------------
(* Reads and checks of commitBatch.                                        *)

\* The rows findCommandDuplicate selects: the command or its idempotency key.
CommandRows(id) ==
    {row \in command_receipts :
        \/ row.commandId = id.commandId
        \/ /\ row.idempotencyKey = id.idempotencyKey
           /\ row.effectScope = id.effectScope}

\* A selected row that is the very same command with the same content.
SameCommand(row, id) ==
    /\ row.commandId = id.commandId
    /\ row.idempotencyKey = id.idempotencyKey
    /\ row.effectScope = id.effectScope
    /\ row.payloadHash = id.payloadHash

\* Mutant of IsDuplicate: the content of the stored command is not compared.
IsDuplicateByIdentity(id) == \E row \in command_receipts : CommandRows(id) = {row}

\* findCommandDuplicate returns a row: there is one, and it is this command.
IsDuplicate(id) ==
    \E row \in command_receipts :
        CommandRows(id) = {row} /\ SameCommand(row, id)

\* findCommandDuplicate throws: the identity belongs to something else.
IsConflict(id) == CommandRows(id) # {} /\ ~IsDuplicate(id)

\* The stored receipt a duplicate is answered with.
StoredReceipt(id) == (CHOOSE row \in CommandRows(id) : TRUE).receipt

Versions(stream) ==
    {e.version : e \in {x \in event_journal : x.stream = stream}}

\* SELECT COALESCE(MAX(aggregate_version), 0).
CurrentVersion(stream) ==
    IF Versions(stream) = {} THEN 0
    ELSE CHOOSE v \in Versions(stream) : \A u \in Versions(stream) : u <= v

VerifyOutbox(b) == \A i \in DOMAIN b.outbox : b.outbox[i].payloadHashOk

\* Two outbox tasks that may not both exist.
SameTask(s, t) ==
    \/ s.taskId = t.taskId
    \/ s.idempotencyKey = t.idempotencyKey /\ s.effectScope = t.effectScope

VerifyOutboxIdentities(b) ==
    /\ \A i, j \in DOMAIN b.outbox :
          i # j => ~SameTask(b.outbox[i], b.outbox[j])
    /\ \A i \in DOMAIN b.outbox : \A t \in outbox : ~SameTask(b.outbox[i], t)

\* verifyEvent and the INSERT of the i-th event of the batch both succeed:
\* right stream and version, true payload hash, event_id not used before.
EventAligned(b, i) ==
    /\ b.events[i].stream = b.stream
    /\ b.events[i].version = CurrentVersion(b.stream) + i
EventIdFresh(b, i) ==
    /\ \A row \in event_journal : row.eventId # b.events[i].eventId
    /\ \A j \in 1..(i - 1) : b.events[j].eventId # b.events[i].eventId
EventAccepted(b, i) ==
    EventAligned(b, i) /\ b.events[i].payloadHashOk /\ EventIdFresh(b, i)

\* The primary key of audit_facts.
AuditIdsFresh(b) ==
    /\ \A i, j \in DOMAIN b.audit : i # j => b.audit[i] # b.audit[j]
    /\ \A i \in DOMAIN b.audit : b.audit[i] \notin audit_facts

\* Every check in the body of commitBatch's transaction passes.
Accepts(b) ==
    /\ CommandRows(b) = {}
    /\ VerifyOutboxIdentities(b)
    /\ CurrentVersion(b.stream) = b.expectedVersion
    /\ \A i \in DOMAIN b.events : EventAccepted(b, i)
    /\ AuditIdsFresh(b)

\* The code the body throws otherwise: its checks in order, the events one by
\* one, so that the first event that is refused decides.
FirstRefusedEvent(b) ==
    CHOOSE i \in DOMAIN b.events :
        ~EventAccepted(b, i) /\ \A j \in 1..(i - 1) : EventAccepted(b, j)
Refusal(b) ==
    IF IsConflict(b) \/ ~VerifyOutboxIdentities(b)
    THEN "PERSISTENCE_IDEMPOTENCY_CONFLICT"
    ELSE IF CurrentVersion(b.stream) # b.expectedVersion
    THEN "PERSISTENCE_OPTIMISTIC_CONCURRENCY"
    ELSE IF \A i \in DOMAIN b.events : EventAccepted(b, i)
    THEN "PERSISTENCE_STORAGE_FAILURE"
    ELSE LET i == FirstRefusedEvent(b) IN
         IF ~EventAligned(b, i) THEN "PERSISTENCE_OPTIMISTIC_CONCURRENCY"
         ELSE IF ~b.events[i].payloadHashOk THEN "PERSISTENCE_CONTRACT_INVALID"
         ELSE "PERSISTENCE_STORAGE_FAILURE"

\* currentVersion has just been found equal to expectedVersion.
ReceiptOf(b) ==
    [transactionId    |-> b.transactionId,
     commandId        |-> b.commandId,
     stream           |-> b.stream,
     committedVersion |-> b.expectedVersion + Len(b.events),
     eventIds         |-> [i \in DOMAIN b.events |-> b.events[i].eventId],
     outboxTaskIds    |-> [i \in DOMAIN b.outbox |-> b.outbox[i].taskId],
     auditIds         |-> b.audit]

ReceiptRowOf(b) ==
    [commandId      |-> b.commandId,
     idempotencyKey |-> b.idempotencyKey,
     effectScope    |-> b.effectScope,
     payloadHash    |-> b.payloadHash,
     receipt        |-> ReceiptOf(b)]
-----------------------------------------------------------------------------
(* commitBatch, statement by statement.  The checks of the transaction body *)
(* and its inserts are separate steps: it is the write lock, held from      *)
(* BEGIN IMMEDIATE to COMMIT, that keeps the checks true until the inserts. *)

\* The outcome the worker will post as its reply.
Outcome(code, receipt) == [code |-> code, receipt |-> receipt]
Settle(w, code, receipt) ==
    /\ pc' = [pc EXCEPT ![w] = "reply"]
    /\ res' = [res EXCEPT ![w] = Outcome(code, receipt)]

\* findCommandDuplicate and verifyOutbox, before the transaction.
CommitLookup(w, b) ==
    /\ w \in open /\ pc[w] = "idle"
    /\ cur' = [cur EXCEPT ![w] = b]
    /\ \/ /\ IsConflict(b)
          /\ Settle(w, "PERSISTENCE_IDEMPOTENCY_CONFLICT", None)
       \/ /\ IsDuplicate(b)
          /\ Settle(w, "COMMITTED", StoredReceipt(b))
       \/ /\ CommandRows(b) = {} /\ ~VerifyOutbox(b)
          /\ Settle(w, "PERSISTENCE_CONTRACT_INVALID", None)
       \/ /\ CommandRows(b) = {} /\ VerifyOutbox(b)
          /\ pc' = [pc EXCEPT ![w] = "begin"]
          /\ UNCHANGED res
    /\ UNCHANGED <<tables, writer, conns, acks>>

\* Mutant of CommitBegin: BEGIN without IMMEDIATE does not take the write lock.
CommitBeginDeferred(w) ==
    /\ pc[w] = "begin"
    /\ pc' = [pc EXCEPT ![w] = "body"]
    /\ UNCHANGED <<tables, writer, conns, cur, res, acks>>

\* Mutant of CommitBegin: the refused BEGIN is rolled back like the rest of the
\* transaction, without the begun of runTransaction.
CommitBeginRollsBack(w) ==
    /\ pc[w] = "begin"
    /\ \/ /\ w \in held \/ armed[w] # None
          /\ Settle(w, "PERSISTENCE_STORAGE_FAILURE", None)
          /\ writer' = IF writer = w THEN None ELSE writer
       \/ /\ writer = None
          /\ writer' = w
          /\ pc' = [pc EXCEPT ![w] = "body"]
          /\ UNCHANGED res
       \/ /\ writer \notin {None, w}
          /\ Settle(w, "PERSISTENCE_BUSY", None)
          /\ UNCHANGED writer
    /\ UNCHANGED <<tables, conns, cur, acks>>

\* BEGIN IMMEDIATE: a connection already inside a transaction is refused by
\* SQLite and keeps that transaction; another connection's write lock is
\* waited for until busy_timeout.
CommitBegin(w) ==
    /\ pc[w] = "begin"
    /\ \/ /\ w \in held \/ armed[w] # None
          /\ Settle(w, "PERSISTENCE_STORAGE_FAILURE", None)
          /\ UNCHANGED writer
       \/ /\ writer = None
          /\ writer' = w
          /\ pc' = [pc EXCEPT ![w] = "body"]
          /\ UNCHANGED res
       \/ /\ writer \notin {None, w}
          /\ Settle(w, "PERSISTENCE_BUSY", None)
          /\ UNCHANGED writer
    /\ UNCHANGED <<tables, conns, cur, acks>>

\* The body finds the command already recorded: it commits nothing and
\* answers with the stored receipt.
CommitDuplicate(w) ==
    /\ pc[w] = "body" /\ IsDuplicate(cur[w])
    /\ Settle(w, "COMMITTED", StoredReceipt(cur[w]))
    /\ writer' = None
    /\ UNCHANGED <<tables, conns, cur, acks>>

\* Mutant of CommitRollback: the events inserted before the failure stay.
CommitRollbackPartly(w) ==
    LET b == cur[w]
        accepted == {i \in DOMAIN b.events : \A j \in 1..i : EventAccepted(b, j)}
    IN /\ pc[w] = "body" /\ ~IsDuplicate(b) /\ ~Accepts(b)
       /\ event_journal' = event_journal \cup {b.events[i] : i \in accepted}
       /\ Settle(w, Refusal(b), None)
       /\ writer' = None
       /\ UNCHANGED <<command_receipts, outbox, audit_facts, inbox,
                      projection_checkpoints, conns, cur, acks>>

\* The body throws: ROLLBACK, nothing of the batch is stored.
CommitRollback(w) ==
    /\ pc[w] = "body" /\ ~IsDuplicate(cur[w]) /\ ~Accepts(cur[w])
    /\ Settle(w, Refusal(cur[w]), None)
    /\ writer' = None
    /\ UNCHANGED <<tables, conns, cur, acks>>

\* Mutant of CommitCheck: success is answered before anything is inserted.
CommitCheckAnswers(w) ==
    /\ pc[w] = "body" /\ Accepts(cur[w])
    /\ Settle(w, "COMMITTED", ReceiptOf(cur[w]))
    /\ writer' = None
    /\ UNCHANGED <<tables, conns, cur, acks>>

\* Every check of the body passes.
CommitCheck(w) ==
    /\ pc[w] = "body" /\ Accepts(cur[w])
    /\ pc' = [pc EXCEPT ![w] = "insert"]
    /\ UNCHANGED <<tables, writer, conns, cur, res, acks>>

\* The body inserts events, outbox tasks, audit facts and the receipt; COMMIT
\* makes them durable together.
CommitApply(w) ==
    LET b == cur[w] IN
    /\ pc[w] = "insert"
    /\ event_journal' = event_journal \cup {b.events[i] : i \in DOMAIN b.events}
    /\ outbox' = outbox \cup {b.outbox[i] : i \in DOMAIN b.outbox}
    /\ audit_facts' = audit_facts \cup {b.audit[i] : i \in DOMAIN b.audit}
    /\ command_receipts' = command_receipts \cup {ReceiptRowOf(b)}
    /\ Settle(w, "COMMITTED", ReceiptOf(b))
    /\ writer' = None
    /\ UNCHANGED <<inbox, projection_checkpoints, conns, cur, acks>>

\* The reply reaches the caller.
Reply(w) ==
    /\ pc[w] = "reply"
    /\ acks' = IF res[w].code = "COMMITTED"
               THEN acks \cup {<<cur[w], res[w].receipt>>} ELSE acks
    /\ pc' = [pc EXCEPT ![w] = "idle"]
    /\ cur' = [cur EXCEPT ![w] = None]
    /\ res' = [res EXCEPT ![w] = None]
    /\ UNCHANGED <<tables, writer, conns>>
-----------------------------------------------------------------------------
(* The other requests of the worker.                                       *)

\* A request that runs in one transaction of its own can start one.
CanWrite(w) ==
    /\ w \in open /\ pc[w] = "idle" /\ w \notin held /\ armed[w] = None
    /\ writer = None

\* Mutant of InboxRows: the task of a result is not looked up.
InboxRowsByResult(r) == {row \in inbox : row.resultId = r.resultId}

\* recordInbox: a result or a task that is already there is not stored again.
InboxRows(r) ==
    {row \in inbox : row.resultId = r.resultId \/ row.taskId = r.taskId}
RecordInbox(w, r) ==
    /\ CanWrite(w)
    /\ InboxRows(r) = {}
    /\ inbox' = inbox \cup {r}
    /\ UNCHANGED <<event_journal, command_receipts, outbox, audit_facts,
                   projection_checkpoints, writer, conns, pc, cur, res, acks>>

\* The new checkpoint is not behind the stored one.
Advances(x, c) == x.sourceSequence <= c.sourceSequence

\* saveCheckpoint: an upsert that may not move a projection backwards.
SaveCheckpoint(w, c) ==
    LET old == {x \in projection_checkpoints :
                    x.projectionName = c.projectionName} IN
    /\ CanWrite(w)
    /\ \A x \in old : Advances(x, c)
    /\ projection_checkpoints' = (projection_checkpoints \ old) \cup {c}
    /\ UNCHANGED <<event_journal, command_receipts, outbox, audit_facts,
                   inbox, writer, conns, pc, cur, res, acks>>

\* holdLock and releaseLock, the qualification probe of PERSISTENCE_BUSY.
HoldLock(w) ==
    /\ CanWrite(w)
    /\ held' = held \cup {w}
    /\ writer' = w
    /\ UNCHANGED <<tables, open, armed, pc, cur, res, acks>>
ReleaseLock(w) ==
    /\ w \in open /\ pc[w] = "idle" /\ w \in held
    /\ held' = held \ {w}
    /\ writer' = None
    /\ UNCHANGED <<tables, open, armed, pc, cur, res, acks>>

\* armCrash: the first event of the batch is inserted in a transaction that
\* is left open, for a crash to discard.
ArmCrash(w, b) ==
    /\ CanWrite(w)
    /\ VerifyOutbox(b)
    /\ CurrentVersion(b.stream) = b.expectedVersion
    /\ b.events # <<>>
    /\ EventAccepted(b, 1)
    /\ armed' = [armed EXCEPT ![w] = b.events[1]]
    /\ writer' = w
    /\ UNCHANGED <<tables, open, held, pc, cur, res, acks>>

\* closeDatabase: rolls back an open qualification transaction.
Close(w) ==
    /\ w \in open /\ pc[w] = "idle"
    /\ open' = open \ {w}
    /\ held' = held \ {w}
    /\ armed' = [armed EXCEPT ![w] = None]
    /\ writer' = IF writer = w THEN None ELSE writer
    /\ UNCHANGED <<tables, pc, cur, res, acks>>

\* The worker thread is terminated: SQLite discards what it did not commit,
\* the caller of the request learns nothing about its outcome.
Terminate(w) ==
    /\ w \in open
    /\ open' = open \ {w}
    /\ held' = held \ {w}
    /\ armed' = [armed EXCEPT ![w] = None]
    /\ writer' = IF writer = w THEN None ELSE writer
    /\ pc' = [pc EXCEPT ![w] = "idle"]
    /\ cur' = [cur EXCEPT ![w] = None]
    /\ res' = [res EXCEPT ![w] = None]
    /\ UNCHANGED <<tables, acks>>

\* PersistenceWorker.open on the existing database.
Open(w) ==
    /\ w \notin open
    /\ open' = open \cup {w}
    /\ UNCHANGED <<tables, writer, held, armed, pc, cur, res, acks>>

Next ==
    \E w \in Workers :
        \/ \E b \in Batches : CommitLookup(w, b) \/ ArmCrash(w, b)
        \/ CommitBegin(w) \/ CommitDuplicate(w) \/ CommitRollback(w)
        \/ CommitCheck(w) \/ CommitApply(w) \/ Reply(w)
        \/ \E r \in InboxRecords : RecordInbox(w, r)
        \/ \E c \in Checkpoints : SaveCheckpoint(w, c)
        \/ HoldLock(w) \/ ReleaseLock(w)
        \/ Close(w) \/ Terminate(w) \/ Open(w)

Spec == Init /\ [][Next]_vars
-----------------------------------------------------------------------------
(* Properties.                                                             *)

PcStates == {"idle", "begin", "body", "insert", "reply"}

\* Every variable has its type; a worker inside commitBatch has a batch, and
\* only a worker about to reply has an outcome.
TypeOK ==
    /\ event_journal \subseteq EventRow
    /\ command_receipts \subseteq ReceiptRow
    /\ outbox \subseteq OutboxTask
    /\ audit_facts \subseteq Ids
    /\ inbox \subseteq InboxRow
    /\ projection_checkpoints \subseteq Checkpoint
    /\ writer \in Workers \cup {None}
    /\ open \subseteq Workers /\ held \subseteq Workers
    /\ pc \in [Workers -> PcStates]
    /\ cur \in [Workers -> Batches \cup {None}]
    /\ \A w \in Workers : cur[w] = None <=> pc[w] = "idle"
    /\ res \in [Workers -> PostedOutcome \cup {None}]
    /\ \A w \in Workers : res[w] = None <=> pc[w] # "reply"
    /\ armed \in [Workers -> EventRow \cup {None}]
    /\ acks \subseteq Batches \X Receipt

\* commitBatch keeps every aggregate's stream gap-free and unforked: its
\* versions are 1..n, each held by one event, whatever two workers interleave
\* and whichever of them is terminated.
StreamsDense ==
    \A stream \in Ids :
        /\ Versions(stream) = 1..CurrentVersion(stream)
        /\ \A d, e \in event_journal :
              d.stream = stream /\ e.stream = stream /\ d.version = e.version
                 => d = e

\* What a receipt says was committed is in the journal, the outbox and the
\* audit table: its events are the consecutive versions up to committedVersion.
ReceiptHonoured(r) ==
    /\ \A i \in DOMAIN r.eventIds :
          \E e \in event_journal :
              /\ e.eventId = r.eventIds[i] /\ e.stream = r.stream
              /\ e.version = r.committedVersion - Len(r.eventIds) + i
    /\ \A i \in DOMAIN r.outboxTaskIds :
          \E t \in outbox : t.taskId = r.outboxTaskIds[i]
    /\ \A i \in DOMAIN r.auditIds : r.auditIds[i] \in audit_facts

\* The transaction of commitBatch is all or nothing: each receipt finds its
\* rows, and each event, task and audit fact is accounted for by a receipt.  No
\* crash, rollback or armed transaction leaves an orphan row behind.
CommitAtomic ==
    /\ \A row \in command_receipts : ReceiptHonoured(row.receipt)
    /\ \A e \in event_journal : \E row \in command_receipts :
          \E i \in DOMAIN row.receipt.eventIds :
              row.receipt.eventIds[i] = e.eventId
    /\ \A t \in outbox : \E row \in command_receipts :
          \E i \in DOMAIN row.receipt.outboxTaskIds :
              row.receipt.outboxTaskIds[i] = t.taskId
    /\ \A a \in audit_facts : \E row \in command_receipts :
          \E i \in DOMAIN row.receipt.auditIds : row.receipt.auditIds[i] = a

\* A caller that was answered with a receipt can rely on it: the receipt is
\* stored under exactly the identity and payload hash the caller submitted.
AcksDurable ==
    \A ack \in acks : \E row \in command_receipts :
        SameCommand(row, ack[1]) /\ row.receipt = ack[2]

\* At most one effect per command identity: callers that used the same command
\* id, or the same idempotency key in the same scope, were all answered with
\* one and the same receipt, and had all submitted the same content.
AcksAgree ==
    \A x, y \in acks :
        \/ x[1].commandId = y[1].commandId
        \/ /\ x[1].idempotencyKey = y[1].idempotencyKey
           /\ x[1].effectScope = y[1].effectScope
        => x[2] = y[2] /\ x[1].payloadHash = y[1].payloadHash

\* What commitBatch tells its callers is durable, and one truth for all of them.
AcksSound == AcksDurable /\ AcksAgree

\* One Worker result per task and one effect per outbox identity, whichever
\* connection stored it first.
SingleEffect ==
    /\ \A x, y \in inbox :
          x.resultId = y.resultId \/ x.taskId = y.taskId => x = y
    /\ \A s, t \in outbox : SameTask(s, t) => s = t

\* The connection is inside a transaction: one of commitBatch's, or that of a
\* probe, which the worker remembers in writeLockHeld or crashTransactionArmed.
Transacting(w) ==
    w \in open /\ (pc[w] \in {"body", "insert"} \/ w \in held \/ armed[w] # None)

\* The write lock is kept by no failure: whatever is refused, thrown, closed or
\* terminated, it is held exactly by the connection whose worker knows of an
\* open transaction, and will end it.  A commit that is refused inside its own
\* worker's probe must end in neither a lock nobody will give back nor a
\* probe whose transaction, and with it the lock, is gone.
LockAccounted == \A w \in Workers : writer = w <=> Transacting(w)
-----------------------------------------------------------------------------
(* The inductive invariant behind these properties.                        *)

\* A worker inside a transaction holds the write lock, and is inside one only.
LockInv ==
    \A w \in Workers :
        /\ pc[w] \in {"body", "insert"} \/ w \in held \/ armed[w] # None
               => writer = w
        /\ pc[w] \in {"body", "insert"} => w \notin held /\ armed[w] = None
        /\ w \in held => armed[w] = None

\* Only a worker with a connection is anywhere in commitBatch.
BusyOpen == \A w \in Workers : pc[w] # "idle" => w \in open

\* What the body checked is still true when it inserts.
AcceptInv == \A w \in Workers : pc[w] = "insert" => Accepts(cur[w])

\* A receipt about to be posted is stored for the batch it answers.
ResInv ==
    \A w \in Workers :
        pc[w] = "reply" /\ res[w].code = "COMMITTED" =>
            \E row \in command_receipts :
                SameCommand(row, cur[w]) /\ row.receipt = res[w].receipt

\* The primary key and the UNIQUE constraint of command_receipts, which
\* findCommandDuplicate enforces before the table would.
UniqueCommands ==
    \A x, y \in command_receipts :
        \/ x.commandId = y.commandId
        \/ x.idempotencyKey = y.idempotencyKey /\ x.effectScope = y.effectScope
        => x = y

InductiveInv ==
    /\ TypeOK /\ LockInv /\ BusyOpen /\ LockAccounted
    /\ AcceptInv /\ ResInv /\ UniqueCommands
    /\ StreamsDense /\ CommitAtomic /\ AcksDurable /\ SingleEffect
=============================================================================
