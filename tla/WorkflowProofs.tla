--------------------------- MODULE WorkflowProofs ---------------------------
(***************************************************************************)
(* Proofs, for every set of workers, batches and commands, of the safety   *)
(* properties of the authority journal (module Journal), and over them of  *)
(* the service that executes commands (module WorkflowService), down to    *)
(* the ledger of commands that it implements (module CommandLedger).       *)
(***************************************************************************)
EXTENDS WorkflowService, SequenceTheorems, FiniteSetTheorems, TLAPS

(* Part one: the journal.                                                  *)

\* findCommandDuplicate returns the one row that is this very command, and
\* StoredReceipt is that row's receipt.
LEMMA DuplicateRow ==
    ASSUME NEW b, IsDuplicate(b)
    PROVE  \E row \in command_receipts :
               SameCommand(row, b) /\ row.receipt = StoredReceipt(b)
<1>1. PICK row \in command_receipts :
          CommandRows(b) = {row} /\ SameCommand(row, b)
  BY DEF IsDuplicate
<1>2. (CHOOSE r \in CommandRows(b) : TRUE) = row
  BY <1>1
<1> QED
  BY <1>1, <1>2 DEF StoredReceipt

\* A batch that is refused is refused with an error code.
LEMMA RefusalCode ==
    ASSUME NEW b PROVE Refusal(b) \in Codes \ {"COMMITTED"}
BY DEF Refusal, Codes

\* After a step, the greatest version of a gap-free stream is the number of
\* its events.
LEMMA DenseMax ==
    ASSUME NEW stream, NEW n \in Nat, Versions(stream)' = 1..n
    PROVE  CurrentVersion(stream)' = n
<1>1. CASE n = 0
  BY <1>1 DEF CurrentVersion
<1>2. CASE n # 0
  <2>1. n \in 1..n /\ \A u \in 1..n : u <= n
    BY <1>2
  <2>2. \A v \in 1..n : (\A u \in 1..n : u <= v) => v = n
    BY <2>1
  <2>3. (CHOOSE v \in 1..n : \A u \in 1..n : u <= v) = n
    BY <2>1, <2>2
  <2>4. Versions(stream)' # {}
    BY <2>1
  <2> QED
    BY <2>3, <2>4 DEF CurrentVersion
<1> QED
  BY <1>1, <1>2

\* The fields of a batch, and the elements of its sequences, have their types.
LEMMA BatchType ==
    ASSUME NEW b \in Batch
    PROVE  /\ b.transactionId \in Ids /\ b.commandId \in Ids /\ b.stream \in Ids
           /\ b.idempotencyKey \in Ids /\ b.effectScope \in Ids
           /\ b.payloadHash \in Ids /\ b.expectedVersion \in Nat
           /\ b.audit \in Seq(Ids)
           /\ DOMAIN b.events = 1..Len(b.events) /\ Len(b.events) \in Nat
           /\ DOMAIN b.outbox = 1..Len(b.outbox) /\ Len(b.outbox) \in Nat
           /\ DOMAIN b.audit = 1..Len(b.audit) /\ Len(b.audit) \in Nat
           /\ \A i \in DOMAIN b.events : b.events[i] \in EventRow
           /\ \A i \in DOMAIN b.outbox : b.outbox[i] \in OutboxTask
           /\ \A i \in DOMAIN b.audit : b.audit[i] \in Ids
<1>1. /\ b.events \in Seq(EventRow) /\ b.outbox \in Seq(OutboxTask)
      /\ b.audit \in Seq(Ids) /\ b.expectedVersion \in Nat
      /\ b.transactionId \in Ids /\ b.commandId \in Ids /\ b.stream \in Ids
      /\ b.idempotencyKey \in Ids /\ b.effectScope \in Ids
      /\ b.payloadHash \in Ids
  BY DEF Batch
<1>2. /\ DOMAIN b.events = 1..Len(b.events) /\ Len(b.events) \in Nat
      /\ DOMAIN b.outbox = 1..Len(b.outbox) /\ Len(b.outbox) \in Nat
      /\ DOMAIN b.audit = 1..Len(b.audit) /\ Len(b.audit) \in Nat
  BY <1>1, LenProperties
<1>3. \A i \in DOMAIN b.events : b.events[i] \in EventRow
  BY <1>1, <1>2, ElementOfSeq
<1>4. \A i \in DOMAIN b.outbox : b.outbox[i] \in OutboxTask
  BY <1>1, <1>2, ElementOfSeq
<1>5. \A i \in DOMAIN b.audit : b.audit[i] \in Ids
  BY <1>1, <1>2, ElementOfSeq
<1> QED
  BY <1>1, <1>2, <1>3, <1>4, <1>5

\* The receipt of a batch is a receipt, and so is its row.
LEMMA ReceiptType ==
    ASSUME NEW b \in Batch
    PROVE  ReceiptOf(b) \in Receipt /\ ReceiptRowOf(b) \in ReceiptRow
<1> DEFINE eventIds == [i \in 1..Len(b.events) |-> b.events[i].eventId]
           taskIds == [i \in 1..Len(b.outbox) |-> b.outbox[i].taskId]
<1>1. eventIds \in Seq(Ids)
  <2>1. \A i \in 1..Len(b.events) : b.events[i].eventId \in Ids
    BY BatchType DEF EventRow
  <2> QED
    BY <2>1, BatchType
<1>2. taskIds \in Seq(Ids)
  <2>1. \A i \in 1..Len(b.outbox) : b.outbox[i].taskId \in Ids
    BY BatchType DEF OutboxTask
  <2> QED
    BY <2>1, BatchType
<1>3. b.expectedVersion + Len(b.events) \in Nat
  BY BatchType
<1>4. ReceiptOf(b) = [transactionId |-> b.transactionId,
                      commandId |-> b.commandId, stream |-> b.stream,
                      committedVersion |-> b.expectedVersion + Len(b.events),
                      eventIds |-> eventIds, outboxTaskIds |-> taskIds,
                      auditIds |-> b.audit]
  BY BatchType DEF ReceiptOf
<1>5. ReceiptOf(b) \in Receipt
  <2> HIDE DEF eventIds, taskIds
  <2> QED
    BY <1>1, <1>2, <1>3, <1>4, BatchType DEF Receipt
<1>6. ReceiptRowOf(b) \in ReceiptRow
  BY <1>5, BatchType DEF ReceiptRowOf, ReceiptRow
<1> QED
  BY <1>5, <1>6
-----------------------------------------------------------------------------
\* A step of commitBatch that decides an outcome keeps the types.
LEMMA SettleType ==
    ASSUME TypeOK, NEW w \in Workers, NEW code, NEW r,
           \/ code = "COMMITTED" /\ r \in Receipt
           \/ code \in Codes \ {"COMMITTED"} /\ r = None,
           Settle(w, code, r),
           cur' \in [Workers -> Batches \cup {None}], cur'[w] # None,
           \A v \in Workers \ {w} : cur'[v] = cur[v]
    PROVE  /\ pc' \in [Workers -> PcStates]
           /\ res' \in [Workers -> PostedOutcome \cup {None}]
           /\ \A v \in Workers : cur'[v] = None <=> pc'[v] = "idle"
           /\ \A v \in Workers : res'[v] = None <=> pc'[v] # "reply"
<1>1. Outcome(code, r) \in PostedOutcome
  BY DEF Outcome, PostedOutcome
<1>2. Outcome(code, r) # None
  BY <1>1, NoneAssumption
<1> QED
  BY <1>1, <1>2 DEF Settle, TypeOK, PcStates

\* Every action keeps the types.
LEMMA TypeStep == TypeOK /\ [Next]_vars => TypeOK'
<1> SUFFICES ASSUME TypeOK, [Next]_vars PROVE TypeOK'
  OBVIOUS
<1> USE InputsAssumption, NoneAssumption
<1>1. ASSUME NEW w \in Workers, NEW b \in Batches, CommitLookup(w, b)
      PROVE  TypeOK'
  <2>1. /\ cur' \in [Workers -> Batches \cup {None}] /\ cur'[w] # None
        /\ \A v \in Workers \ {w} : cur'[v] = cur[v]
    BY <1>1 DEF CommitLookup, TypeOK
  <2>2. IsDuplicate(b) => StoredReceipt(b) \in Receipt
    BY DuplicateRow DEF TypeOK, ReceiptRow
  <2>3. CASE \/ Settle(w, "PERSISTENCE_IDEMPOTENCY_CONFLICT", None)
             \/ Settle(w, "PERSISTENCE_CONTRACT_INVALID", None)
             \/ IsDuplicate(b) /\ Settle(w, "COMMITTED", StoredReceipt(b))
    <3>1. /\ pc' \in [Workers -> PcStates]
          /\ res' \in [Workers -> PostedOutcome \cup {None}]
          /\ \A v \in Workers : cur'[v] = None <=> pc'[v] = "idle"
          /\ \A v \in Workers : res'[v] = None <=> pc'[v] # "reply"
      BY <2>1, <2>2, <2>3, SettleType DEF Codes
    <3> QED
      BY <1>1, <2>1, <3>1 DEF CommitLookup, TypeOK, tables, conns
  <2>4. CASE pc' = [pc EXCEPT ![w] = "begin"] /\ UNCHANGED res
    BY <1>1, <2>1, <2>4 DEF CommitLookup, TypeOK, PcStates, tables, conns
  <2> QED
    BY <1>1, <2>3, <2>4 DEF CommitLookup
<1>2. ASSUME NEW w \in Workers, NEW b \in Batches, ArmCrash(w, b)
      PROVE  TypeOK'
  <2>1. b.events[1] \in EventRow
    BY <1>2, BatchType, EmptySeq DEF ArmCrash, Batch
  <2> QED
    BY <1>2, <2>1 DEF ArmCrash, TypeOK, tables
<1>3. ASSUME NEW w \in Workers, CommitBegin(w)
      PROVE  TypeOK'
  <2>1. /\ cur' \in [Workers -> Batches \cup {None}] /\ cur'[w] # None
        /\ \A v \in Workers \ {w} : cur'[v] = cur[v]
    BY <1>3 DEF CommitBegin, TypeOK
  <2>2. CASE \/ Settle(w, "PERSISTENCE_STORAGE_FAILURE", None)
             \/ Settle(w, "PERSISTENCE_BUSY", None)
    <3>1. /\ pc' \in [Workers -> PcStates]
          /\ res' \in [Workers -> PostedOutcome \cup {None}]
          /\ \A v \in Workers : cur'[v] = None <=> pc'[v] = "idle"
          /\ \A v \in Workers : res'[v] = None <=> pc'[v] # "reply"
      BY <2>1, <2>2, SettleType DEF Codes
    <3> QED
      BY <1>3, <2>1, <3>1 DEF CommitBegin, TypeOK, tables, conns
  <2>3. CASE writer' = w /\ pc' = [pc EXCEPT ![w] = "body"] /\ UNCHANGED res
    BY <1>3, <2>1, <2>3 DEF CommitBegin, TypeOK, PcStates, tables, conns
  <2> QED
    BY <1>3, <2>2, <2>3 DEF CommitBegin
<1>4. ASSUME NEW w \in Workers, CommitDuplicate(w) \/ CommitRollback(w)
      PROVE  TypeOK'
  <2>1. /\ cur' \in [Workers -> Batches \cup {None}] /\ cur'[w] # None
        /\ \A v \in Workers \ {w} : cur'[v] = cur[v]
    BY <1>4 DEF CommitDuplicate, CommitRollback, TypeOK
  <2>2. IsDuplicate(cur[w]) => StoredReceipt(cur[w]) \in Receipt
    BY DuplicateRow DEF TypeOK, ReceiptRow
  <2>3. /\ pc' \in [Workers -> PcStates]
        /\ res' \in [Workers -> PostedOutcome \cup {None}]
        /\ \A v \in Workers : cur'[v] = None <=> pc'[v] = "idle"
        /\ \A v \in Workers : res'[v] = None <=> pc'[v] # "reply"
    <3>1. CASE CommitDuplicate(w)
      BY <3>1, <2>1, <2>2, SettleType DEF CommitDuplicate, Codes
    <3>2. CASE CommitRollback(w)
      BY <3>2, <2>1, RefusalCode, SettleType DEF CommitRollback
    <3> QED
      BY <1>4, <3>1, <3>2
  <2> QED
    BY <1>4, <2>1, <2>3
    DEF CommitDuplicate, CommitRollback, TypeOK, tables, conns
<1>5. ASSUME NEW w \in Workers, CommitCheck(w)
      PROVE  TypeOK'
  BY <1>5 DEF CommitCheck, TypeOK, PcStates, tables, conns
<1>6. ASSUME NEW w \in Workers, CommitApply(w)
      PROVE  TypeOK'
  <2> DEFINE b == cur[w]
  <2>1. b \in Batch /\ b # None
    BY <1>6 DEF CommitApply, TypeOK
  <2>2. ReceiptOf(b) \in Receipt /\ ReceiptRowOf(b) \in ReceiptRow
    BY <2>1, ReceiptType
  <2>3. /\ event_journal' \subseteq EventRow /\ outbox' \subseteq OutboxTask
        /\ audit_facts' \subseteq Ids
    BY <1>6, <2>1, BatchType DEF CommitApply, TypeOK
  <2>4. command_receipts' \subseteq ReceiptRow
    BY <1>6, <2>2 DEF CommitApply, TypeOK
  <2>5. /\ pc' \in [Workers -> PcStates]
        /\ res' \in [Workers -> PostedOutcome \cup {None}]
        /\ \A v \in Workers : cur'[v] = None <=> pc'[v] = "idle"
        /\ \A v \in Workers : res'[v] = None <=> pc'[v] # "reply"
    <3>1. /\ cur' \in [Workers -> Batches \cup {None}] /\ cur'[w] # None
          /\ \A v \in Workers \ {w} : cur'[v] = cur[v]
      BY <1>6, <2>1 DEF CommitApply, TypeOK
    <3> QED
      BY <1>6, <2>2, <3>1, SettleType DEF CommitApply, Codes
  <2> QED
    BY <1>6, <2>3, <2>4, <2>5 DEF CommitApply, TypeOK, conns
<1>7. ASSUME NEW w \in Workers, Reply(w)
      PROVE  TypeOK'
  <2>1. /\ cur[w] \in Batches /\ res[w] \in PostedOutcome
    BY <1>7 DEF Reply, TypeOK
  <2>2. acks' \subseteq Batches \X Receipt
    BY <1>7, <2>1 DEF Reply, TypeOK, PostedOutcome
  <2> QED
    BY <1>7, <2>1, <2>2 DEF Reply, TypeOK, PcStates, tables, conns
<1>8. ASSUME NEW w \in Workers, NEW r \in InboxRecords, RecordInbox(w, r)
      PROVE  TypeOK'
  BY <1>8 DEF RecordInbox, TypeOK, conns
<1>9. ASSUME NEW w \in Workers, NEW c \in Checkpoints, SaveCheckpoint(w, c)
      PROVE  TypeOK'
  BY <1>9 DEF SaveCheckpoint, TypeOK, conns
<1>10. ASSUME NEW w \in Workers, HoldLock(w) \/ ReleaseLock(w) \/ Open(w)
       PROVE  TypeOK'
  BY <1>10 DEF HoldLock, ReleaseLock, Open, TypeOK, tables
<1>11. ASSUME NEW w \in Workers, Close(w) \/ Terminate(w)
       PROVE  TypeOK'
  BY <1>11 DEF Close, Terminate, TypeOK, PcStates, tables
<1>12. CASE UNCHANGED vars
  BY <1>12 DEF vars, tables, conns, TypeOK
<1> QED
  BY <1>1, <1>2, <1>3, <1>4, <1>5, <1>6, <1>7, <1>8, <1>9, <1>10, <1>11, <1>12
  DEF Next

\* The type invariant of the journal holds in every reachable state.
THEOREM JournalTypeCorrect == Spec => []TypeOK
<1>1. Init => TypeOK
  BY DEF Init, TypeOK, PcStates
<1> QED
  BY <1>1, TypeStep, PTL DEF Spec
-----------------------------------------------------------------------------
\* The write lock is taken only when free and given back only by its owner.
LEMMA LockStep == TypeOK /\ LockInv /\ [Next]_vars => LockInv'
<1> SUFFICES ASSUME TypeOK, LockInv, [Next]_vars PROVE LockInv'
  OBVIOUS
<1> USE NoneAssumption DEF TypeOK, LockInv, PcStates
<1>1. ASSUME NEW w \in Workers, NEW b \in Batches, CommitLookup(w, b)
      PROVE  LockInv'
  BY <1>1 DEF CommitLookup, Settle, conns
<1>2. ASSUME NEW w \in Workers, NEW b \in Batches, ArmCrash(w, b)
      PROVE  LockInv'
  BY <1>2 DEF ArmCrash, CanWrite
<1>3. ASSUME NEW w \in Workers, CommitBegin(w)
      PROVE  LockInv'
  BY <1>3 DEF CommitBegin, Settle, conns
<1>4. ASSUME NEW w \in Workers,
             CommitDuplicate(w) \/ CommitRollback(w) \/ CommitApply(w)
      PROVE  LockInv'
  BY <1>4 DEF CommitDuplicate, CommitRollback, CommitApply, Settle, conns
<1>5. ASSUME NEW w \in Workers, CommitCheck(w) \/ Reply(w)
      PROVE  LockInv'
  BY <1>5 DEF CommitCheck, Reply, conns
<1>6. ASSUME NEW w \in Workers, HoldLock(w) \/ ReleaseLock(w) \/ Open(w)
      PROVE  LockInv'
  BY <1>6 DEF HoldLock, ReleaseLock, Open, CanWrite
<1>7. ASSUME NEW w \in Workers, Close(w) \/ Terminate(w)
      PROVE  LockInv'
  BY <1>7 DEF Close, Terminate
<1>8. ASSUME UNCHANGED <<writer, conns, pc>>
      PROVE  LockInv'
  BY <1>8 DEF conns
<1> QED
  BY <1>1, <1>2, <1>3, <1>4, <1>5, <1>6, <1>7, <1>8
  DEF Next, RecordInbox, SaveCheckpoint, vars

\* Only CommitApply changes the tables commitBatch reads, and the tables with
\* a row per effect grow by nothing else than RecordInbox.
journal == <<event_journal, command_receipts, outbox, audit_facts>>
LEMMA OtherSteps ==
    ASSUME TypeOK, [Next]_vars, ~ \E w \in Workers : CommitApply(w)
    PROVE  UNCHANGED journal
BY DEF Next, vars, tables, journal, CommitLookup, ArmCrash, CommitBegin,
       CommitDuplicate, CommitRollback, CommitCheck, Reply, RecordInbox,
       SaveCheckpoint, HoldLock, ReleaseLock, Close, Terminate, Open

\* While those tables do not change, a batch stays acceptable.
LEMMA AcceptStable ==
    ASSUME NEW b, UNCHANGED journal, Accepts(b)
    PROVE  Accepts(b)'
BY ZenonT(60)
DEF journal, Accepts, CommandRows, VerifyOutboxIdentities, SameTask,
    CurrentVersion, Versions, EventAccepted, EventAligned, EventIdFresh,
    AuditIdsFresh

\* The batch that is inserted extends its stream by the next versions, each
\* once, and leaves every other stream alone.
LEMMA ApplyDense ==
    ASSUME InductiveInv, NEW w \in Workers, CommitApply(w)
    PROVE  StreamsDense'
<1> DEFINE b == cur[w]
           new == {b.events[i] : i \in DOMAIN b.events}
<1>1. b \in Batch /\ Accepts(b) /\ event_journal' = event_journal \cup new
  BY InputsAssumption DEF CommitApply, InductiveInv, TypeOK, AcceptInv
<1>2. /\ DOMAIN b.events = 1..Len(b.events) /\ Len(b.events) \in Nat
      /\ \A i \in DOMAIN b.events : b.events[i] \in EventRow
  BY <1>1, BatchType
<1> DEFINE n == CurrentVersion(b.stream)
           k == Len(b.events)
<1>3. n \in Nat
  BY <1>1, BatchType DEF Accepts
<1>4. \A i \in 1..k : b.events[i].stream = b.stream /\ b.events[i].version = n + i
  BY <1>1, <1>2 DEF Accepts, EventAccepted, EventAligned
<1>5. \A e \in event_journal : e.stream = b.stream => e.version \in 1..n
  <2>1. Versions(b.stream) = 1..n
    BY <1>1, BatchType DEF InductiveInv, StreamsDense
  <2> QED
    BY <2>1 DEF Versions
<1> HIDE DEF n, k
<1>6. ASSUME NEW stream \in Ids
      PROVE  Versions(stream)' = 1..CurrentVersion(stream)'
  <2>1. CASE stream # b.stream
    <3>1. {x \in event_journal' : x.stream = stream}
              = {x \in event_journal : x.stream = stream}
      BY <1>1, <1>2, <1>4, <2>1 DEF k
    <3>2. Versions(stream)' = Versions(stream)
      BY <3>1 DEF Versions
    <3>3. CurrentVersion(stream)' = CurrentVersion(stream)
      BY <3>2 DEF CurrentVersion
    <3> QED
      BY <3>2, <3>3 DEF InductiveInv, StreamsDense
  <2>2. CASE stream = b.stream
    <3>1. Versions(stream)' \subseteq 1..(n + k)
      BY <1>1, <1>2, <1>3, <1>4, <1>5, <2>2 DEF Versions, k
    <3>2. ASSUME NEW v \in 1..(n + k) PROVE v \in Versions(stream)'
      <4>1. CASE v \in 1..n
        <5>1. v \in Versions(stream)
          BY <2>2, <4>1 DEF InductiveInv, StreamsDense, n
        <5> QED
          BY <1>1, <5>1 DEF Versions
      <4>2. CASE v \notin 1..n
        <5>1. v - n \in 1..k /\ n + (v - n) = v
          BY <1>2, <1>3, <3>2, <4>2 DEF k
        <5>2. b.events[v - n] \in event_journal'
          BY <1>1, <1>2, <5>1 DEF k
        <5>3. b.events[v - n].stream = stream /\ b.events[v - n].version = v
          BY <1>4, <5>1, <2>2
        <5> QED
          BY <5>2, <5>3 DEF Versions
      <4> QED
        BY <4>1, <4>2
    <3>3. Versions(stream)' = 1..(n + k)
      BY <3>1, <3>2
    <3>4. n + k \in Nat
      BY <1>2, <1>3 DEF k
    <3>5. CurrentVersion(stream)' = n + k
      BY <3>3, <3>4, DenseMax
    <3> QED
      BY <3>3, <3>5
  <2> QED
    BY <2>1, <2>2
<1>7. ASSUME NEW d \in event_journal', NEW e \in event_journal',
             d.stream = e.stream, d.version = e.version
      PROVE  d = e
  <2>1. CASE d \in event_journal /\ e \in event_journal
    BY <1>7, <2>1 DEF InductiveInv, StreamsDense, TypeOK, EventRow
  <2>2. CASE d \in new /\ e \in new
    BY SMTT(60), <1>2, <1>3, <1>4, <1>7, <2>2 DEF k
  <2>3. CASE d \in event_journal /\ e \in new
    BY <1>2, <1>3, <1>4, <1>5, <1>7, <2>3 DEF k
  <2>4. CASE d \in new /\ e \in event_journal
    BY <1>2, <1>3, <1>4, <1>5, <1>7, <2>4 DEF k
  <2> QED
    BY <1>1, <2>1, <2>2, <2>3, <2>4
<1> QED
  BY <1>6, <1>7 DEF StreamsDense

\* The inserted receipt finds its rows, and the inserted rows their receipt.
LEMMA ApplyAtomic ==
    ASSUME InductiveInv, NEW w \in Workers, CommitApply(w)
    PROVE  CommitAtomic'
<1> DEFINE b == cur[w]
           r == ReceiptOf(b)
<1>1. /\ b \in Batch /\ Accepts(b)
      /\ event_journal' = event_journal \cup {b.events[i] : i \in DOMAIN b.events}
      /\ outbox' = outbox \cup {b.outbox[i] : i \in DOMAIN b.outbox}
      /\ audit_facts' = audit_facts \cup {b.audit[i] : i \in DOMAIN b.audit}
      /\ command_receipts' = command_receipts \cup {ReceiptRowOf(b)}
  BY InputsAssumption DEF CommitApply, InductiveInv, TypeOK, AcceptInv
<1>2. /\ DOMAIN b.events = 1..Len(b.events) /\ Len(b.events) \in Nat
      /\ DOMAIN b.outbox = 1..Len(b.outbox) /\ Len(b.outbox) \in Nat
      /\ b.expectedVersion \in Nat
  BY <1>1, BatchType
<1>3. /\ DOMAIN r.eventIds = DOMAIN b.events
      /\ \A i \in DOMAIN b.events : r.eventIds[i] = b.events[i].eventId
      /\ Len(r.eventIds) = Len(b.events)
      /\ DOMAIN r.outboxTaskIds = DOMAIN b.outbox
      /\ \A i \in DOMAIN b.outbox : r.outboxTaskIds[i] = b.outbox[i].taskId
      /\ r.auditIds = b.audit /\ r.stream = b.stream
      /\ r.committedVersion = b.expectedVersion + Len(b.events)
  BY <1>2 DEF ReceiptOf
<1>4. ReceiptRowOf(b).receipt = r
  BY DEF ReceiptRowOf
<1> HIDE DEF r
<1>5. ASSUME NEW x, x = r PROVE ReceiptHonoured(x)'
  <2>1. ASSUME NEW i \in DOMAIN r.eventIds
        PROVE  /\ b.events[i] \in event_journal'
               /\ b.events[i].eventId = r.eventIds[i]
               /\ b.events[i].stream = r.stream
               /\ b.events[i].version = r.committedVersion - Len(r.eventIds) + i
    <3>1. /\ b.events[i].stream = b.stream
          /\ b.events[i].version = b.expectedVersion + i
      BY <1>1, <1>3, <2>1 DEF Accepts, EventAccepted, EventAligned
    <3> QED
      BY <1>1, <1>2, <1>3, <2>1, <3>1
  <2>2. \A i \in DOMAIN r.outboxTaskIds :
            \E t \in outbox' : t.taskId = r.outboxTaskIds[i]
    BY <1>1, <1>3
  <2>3. \A i \in DOMAIN r.auditIds : r.auditIds[i] \in audit_facts'
    BY <1>1, <1>3
  <2> QED
    BY <1>5, <2>1, <2>2, <2>3 DEF ReceiptHonoured
<1>6. ASSUME NEW x \in command_receipts PROVE ReceiptHonoured(x.receipt)'
  <2>1. ReceiptHonoured(x.receipt)
    BY DEF InductiveInv, CommitAtomic
  <2> QED
    BY <1>1, <2>1 DEF ReceiptHonoured
<1>7. \A x \in command_receipts' : ReceiptHonoured(x.receipt)'
  BY <1>1, <1>4, <1>5, <1>6
<1>8. ASSUME NEW e \in event_journal'
      PROVE  \E x \in command_receipts' : \E i \in DOMAIN x.receipt.eventIds :
                 x.receipt.eventIds[i] = e.eventId
  BY <1>1, <1>3, <1>4 DEF InductiveInv, CommitAtomic
<1>9. ASSUME NEW t \in outbox'
      PROVE  \E x \in command_receipts' :
                 \E i \in DOMAIN x.receipt.outboxTaskIds :
                     x.receipt.outboxTaskIds[i] = t.taskId
  BY <1>1, <1>3, <1>4 DEF InductiveInv, CommitAtomic
<1>10. ASSUME NEW a \in audit_facts'
       PROVE  \E x \in command_receipts' : \E i \in DOMAIN x.receipt.auditIds :
                  x.receipt.auditIds[i] = a
  BY <1>1, <1>3, <1>4 DEF InductiveInv, CommitAtomic
<1> QED
  BY <1>7, <1>8, <1>9, <1>10 DEF CommitAtomic

\* The inserted row is the only one of its identity.
LEMMA ApplyUnique ==
    ASSUME InductiveInv, NEW w \in Workers, CommitApply(w)
    PROVE  UniqueCommands' /\ SingleEffect'
<1> DEFINE b == cur[w]
<1>1. /\ b \in Batch /\ Accepts(b)
      /\ outbox' = outbox \cup {b.outbox[i] : i \in DOMAIN b.outbox}
      /\ command_receipts' = command_receipts \cup {ReceiptRowOf(b)}
      /\ inbox' = inbox
  BY InputsAssumption DEF CommitApply, InductiveInv, TypeOK, AcceptInv
<1>2. \A x \in command_receipts :
          /\ x.commandId # b.commandId
          /\ ~(x.idempotencyKey = b.idempotencyKey /\ x.effectScope = b.effectScope)
  BY <1>1 DEF Accepts, CommandRows
<1>3. UniqueCommands'
  BY <1>1, <1>2 DEF UniqueCommands, InductiveInv, ReceiptRowOf
<1>4. \A s, t \in outbox' : SameTask(s, t) => s = t
  <2>1. \A i, j \in DOMAIN b.outbox :
            SameTask(b.outbox[i], b.outbox[j]) => i = j
    BY <1>1 DEF Accepts, VerifyOutboxIdentities
  <2>2. \A i \in DOMAIN b.outbox : \A t \in outbox :
            ~SameTask(b.outbox[i], t) /\ ~SameTask(t, b.outbox[i])
    BY <1>1 DEF Accepts, VerifyOutboxIdentities, SameTask
  <2>3. \A s, t \in outbox : SameTask(s, t) => s = t
    BY DEF InductiveInv, SingleEffect
  <2> QED
    BY <1>1, <2>1, <2>2, <2>3
<1> QED
  BY <1>1, <1>3, <1>4 DEF SingleEffect, InductiveInv, SameTask

\* What is about to be answered is stored; Settle is the only way to an answer.
LEMMA ResStep == InductiveInv /\ [Next]_vars => ResInv'
<1> SUFFICES ASSUME InductiveInv, [Next]_vars, NEW v \in Workers,
                    pc'[v] = "reply", res'[v].code = "COMMITTED"
             PROVE  \E row \in command_receipts' :
                        /\ SameCommand(row, cur'[v])
                        /\ row.receipt = res'[v].receipt
  BY DEF ResInv, SameCommand
<1> USE DEF InductiveInv, TypeOK, PcStates
<1>1. ASSUME pc[v] = "reply", res'[v] = res[v], cur'[v] = cur[v],
             command_receipts \subseteq command_receipts'
      PROVE  \E row \in command_receipts' :
                 SameCommand(row, cur'[v]) /\ row.receipt = res'[v].receipt
  BY <1>1 DEF ResInv
<1>2. ASSUME NEW b \in Batches, CommitLookup(v, b)
      PROVE  \E row \in command_receipts' :
                 SameCommand(row, cur'[v]) /\ row.receipt = res'[v].receipt
  <2>1. IsDuplicate(b) /\ res'[v].receipt = StoredReceipt(b) /\ cur'[v] = b
    BY <1>2 DEF CommitLookup, Settle, Outcome
  <2> QED
    BY <1>2, <2>1, DuplicateRow DEF CommitLookup, tables
<1>3. ASSUME CommitDuplicate(v)
      PROVE  \E row \in command_receipts' :
                 SameCommand(row, cur'[v]) /\ row.receipt = res'[v].receipt
  <2>1. /\ IsDuplicate(cur[v]) /\ cur'[v] = cur[v]
        /\ res'[v].receipt = StoredReceipt(cur[v])
    BY <1>3 DEF CommitDuplicate, Settle, Outcome
  <2> QED
    BY <1>3, <2>1, DuplicateRow DEF CommitDuplicate, tables
<1>4. ASSUME CommitApply(v)
      PROVE  \E row \in command_receipts' :
                 SameCommand(row, cur'[v]) /\ row.receipt = res'[v].receipt
  <2>1. ReceiptRowOf(cur[v]) \in command_receipts'
    BY <1>4 DEF CommitApply
  <2>2. /\ SameCommand(ReceiptRowOf(cur[v]), cur'[v])
        /\ ReceiptRowOf(cur[v]).receipt = res'[v].receipt
    BY <1>4 DEF CommitApply, Settle, Outcome, SameCommand, ReceiptRowOf
  <2> QED
    BY <2>1, <2>2
<1>5. ASSUME CommitBegin(v) \/ CommitRollback(v)
      PROVE  FALSE
  BY <1>5, RefusalCode DEF CommitBegin, CommitRollback, Settle, Outcome
<1>6. \/ \E b \in Batches : CommitLookup(v, b)
      \/ CommitBegin(v) \/ CommitDuplicate(v) \/ CommitRollback(v)
      \/ CommitApply(v)
      \/ /\ pc[v] = "reply" /\ res'[v] = res[v] /\ cur'[v] = cur[v]
         /\ command_receipts \subseteq command_receipts'
  BY DEF Next, vars, tables, CommitLookup, ArmCrash, CommitBegin,
         CommitDuplicate, CommitRollback, CommitCheck, CommitApply, Reply,
         RecordInbox, SaveCheckpoint, HoldLock, ReleaseLock, Close, Terminate,
         Open, Settle
<1> QED
  BY <1>1, <1>2, <1>3, <1>4, <1>5, <1>6

\* A caller is answered with what is stored, and what is stored stays.
LEMMA AcksStep == InductiveInv /\ [Next]_vars => AcksDurable'
<1> SUFFICES ASSUME InductiveInv, [Next]_vars PROVE AcksDurable'
  OBVIOUS
<1>1. command_receipts \subseteq command_receipts'
  BY OtherSteps DEF InductiveInv, journal, CommitApply
<1>2. ASSUME NEW w \in Workers, Reply(w) PROVE AcksDurable'
  BY <1>1, <1>2 DEF Reply, InductiveInv, AcksDurable, ResInv, SameCommand
<1>3. ASSUME UNCHANGED acks PROVE AcksDurable'
  BY <1>1, <1>3 DEF InductiveInv, AcksDurable, SameCommand
<1> QED
  BY <1>2, <1>3
  DEF Next, vars, CommitLookup, ArmCrash, CommitBegin, CommitDuplicate,
      CommitRollback, CommitCheck, CommitApply, RecordInbox, SaveCheckpoint,
      HoldLock, ReleaseLock, Close, Terminate, Open

\* Who is in a transaction holds the write lock, and nobody else does; whoever
\* is anywhere in commitBatch has a connection.
LEMMA AccountStep ==
    TypeOK /\ LockInv /\ BusyOpen /\ LockAccounted /\ [Next]_vars
        => (BusyOpen /\ LockAccounted)'
<1> DEFINE Inv == BusyOpen /\ LockAccounted
<1> SUFFICES ASSUME TypeOK, LockInv, BusyOpen, LockAccounted, [Next]_vars
             PROVE  Inv'
  OBVIOUS
<1> USE NoneAssumption
    DEF TypeOK, LockInv, PcStates, BusyOpen, LockAccounted, Transacting, conns
<1>1. ASSUME NEW w \in Workers, NEW b \in Batches, CommitLookup(w, b)
      PROVE  Inv'
  BY <1>1 DEF CommitLookup, Settle
<1>2. ASSUME NEW w \in Workers, NEW b \in Batches, ArmCrash(w, b)
      PROVE  Inv'
  <2>1. b.events[1] # None
    BY <1>2, InputsAssumption, BatchType, EmptySeq DEF ArmCrash, Batch
  <2> QED
    BY <1>2, <2>1 DEF ArmCrash, CanWrite
<1>3. ASSUME NEW w \in Workers, CommitBegin(w)
      PROVE  Inv'
  BY <1>3 DEF CommitBegin, Settle
<1>4. ASSUME NEW w \in Workers,
             CommitDuplicate(w) \/ CommitRollback(w) \/ CommitApply(w)
      PROVE  Inv'
  <2>1. /\ pc[w] \in {"body", "insert"} /\ writer' = None
        /\ pc' = [pc EXCEPT ![w] = "reply"]
        /\ UNCHANGED <<open, held, armed>>
    BY <1>4
    DEF CommitDuplicate, CommitRollback, CommitApply, Settle
  <2>2. \A v \in Workers : ~Transacting(v)'
    BY <2>1
  <2> QED
    BY <2>1, <2>2
<1>5. ASSUME NEW w \in Workers, CommitCheck(w) \/ Reply(w)
      PROVE  Inv'
  BY <1>5 DEF CommitCheck, Reply
<1>6. ASSUME NEW w \in Workers, HoldLock(w) \/ ReleaseLock(w) \/ Open(w)
      PROVE  Inv'
  BY <1>6 DEF HoldLock, ReleaseLock, Open, CanWrite
<1>7. ASSUME NEW w \in Workers, Close(w) \/ Terminate(w)
      PROVE  Inv'
  BY <1>7 DEF Close, Terminate
<1>8. ASSUME UNCHANGED <<writer, conns, pc>>
      PROVE  Inv'
  BY <1>8
<1> QED
  BY <1>1, <1>2, <1>3, <1>4, <1>5, <1>6, <1>7, <1>8
  DEF Next, RecordInbox, SaveCheckpoint, vars

\* Every step keeps the inductive invariant.
LEMMA InductiveStep == InductiveInv /\ [Next]_vars => InductiveInv'
<1> SUFFICES ASSUME InductiveInv, [Next]_vars PROVE InductiveInv'
  OBVIOUS
<1>1. /\ TypeOK' /\ LockInv' /\ BusyOpen' /\ LockAccounted'
      /\ ResInv' /\ AcksDurable'
  BY TypeStep, LockStep, AccountStep, ResStep, AcksStep DEF InductiveInv
<1>2. CASE \E w \in Workers : CommitApply(w)
  <2>1. PICK w \in Workers : CommitApply(w)
    BY <1>2
  <2>2. AcceptInv'
    BY <2>1 DEF CommitApply, Settle, InductiveInv, TypeOK, LockInv, AcceptInv
  <2> QED
    BY <1>1, <2>1, <2>2, ApplyDense, ApplyAtomic, ApplyUnique
    DEF InductiveInv
<1>3. CASE ~ \E w \in Workers : CommitApply(w)
  <2>1. UNCHANGED journal
    BY <1>3, OtherSteps DEF InductiveInv
  <2>2. AcceptInv'
    <3> SUFFICES ASSUME NEW w \in Workers, pc'[w] = "insert"
                 PROVE  Accepts(cur[w])'
      BY DEF AcceptInv
    <3>1. cur'[w] = cur[w] /\ (pc[w] = "insert" \/ CommitCheck(w))
      BY DEF InductiveInv, TypeOK, PcStates, Next, vars,
             CommitLookup, ArmCrash, CommitBegin, CommitDuplicate,
             CommitRollback, CommitCheck, CommitApply, Reply, RecordInbox,
             SaveCheckpoint, HoldLock, ReleaseLock, Close, Terminate, Open,
             Settle
    <3>2. PICK b : b = cur[w] /\ b = cur'[w]
      BY <3>1
    <3>3. Accepts(b)
      BY <3>1, <3>2 DEF CommitCheck, InductiveInv, AcceptInv
    <3>4. Accepts(b)'
      BY <2>1, <3>3, AcceptStable
    <3> QED
      BY <3>2, <3>4
  <2>3. UniqueCommands' /\ StreamsDense' /\ CommitAtomic'
    <3>1. UniqueCommands'
      BY <2>1 DEF journal, InductiveInv, UniqueCommands
    <3>2. StreamsDense'
      BY <2>1 DEF journal, InductiveInv, StreamsDense, Versions, CurrentVersion
    <3>3. CommitAtomic'
      BY <2>1 DEF journal, InductiveInv, CommitAtomic, ReceiptHonoured
    <3> QED
      BY <3>1, <3>2, <3>3
  <2>4. SingleEffect'
    <3>1. ASSUME NEW w \in Workers, NEW r \in InboxRecords, RecordInbox(w, r)
          PROVE  SingleEffect'
      BY <2>1, <3>1 DEF RecordInbox, InboxRows, InductiveInv, SingleEffect,
                        SameTask, journal
    <3>2. ASSUME UNCHANGED inbox PROVE SingleEffect'
      BY <2>1, <3>2 DEF InductiveInv, SingleEffect, SameTask, journal
    <3> QED
      BY <1>3, <3>1, <3>2
      DEF Next, vars, tables, CommitLookup, ArmCrash, CommitBegin,
          CommitDuplicate, CommitRollback, CommitCheck, Reply,
          SaveCheckpoint, HoldLock, ReleaseLock, Close, Terminate, Open
  <2> QED
    BY <1>1, <2>2, <2>3, <2>4 DEF InductiveInv
<1> QED
  BY <1>2, <1>3

\* An empty database satisfies the inductive invariant.
LEMMA InductiveInit == Init => InductiveInv
<1> SUFFICES ASSUME Init PROVE InductiveInv
  OBVIOUS
<1>1. TypeOK
  BY DEF Init, TypeOK, PcStates
<1>2. \A stream \in Ids : Versions(stream) = {} /\ CurrentVersion(stream) = 0
  BY DEF Init, Versions, CurrentVersion
<1>3. StreamsDense
  BY SMTT(60), <1>2 DEF StreamsDense, Init
<1>4. BusyOpen /\ LockAccounted
  BY NoneAssumption DEF Init, BusyOpen, LockAccounted, Transacting
<1> QED
  BY <1>1, <1>3, <1>4
  DEF Init, InductiveInv, LockInv, AcceptInv, ResInv, UniqueCommands,
      CommitAtomic, AcksDurable, SingleEffect

\* The inductive invariant of commitBatch's interleavings always holds.
LEMMA InductiveAlways == Spec => []InductiveInv
BY InductiveInit, InductiveStep, PTL DEF Spec
-----------------------------------------------------------------------------
\* Every aggregate stream of the journal is gap-free and unforked, for any
\* number of workers and any batches.
THEOREM JournalStreamsDense == Spec => []StreamsDense
BY InductiveAlways, PTL DEF InductiveInv

\* The transaction of commitBatch is all or nothing.
THEOREM JournalCommitAtomic == Spec => []CommitAtomic
BY InductiveAlways, PTL DEF InductiveInv

\* A receipt a caller was given is stored under the identity it submitted, and
\* all callers of one command identity were given the same receipt, however
\* their commits, retries and terminations interleaved.
THEOREM JournalAcksSound == Spec => []AcksSound
<1>1. InductiveInv => AcksAgree
  <2> SUFFICES ASSUME InductiveInv, NEW x \in acks, NEW y \in acks,
                      \/ x[1].commandId = y[1].commandId
                      \/ /\ x[1].idempotencyKey = y[1].idempotencyKey
                         /\ x[1].effectScope = y[1].effectScope
               PROVE  x[2] = y[2] /\ x[1].payloadHash = y[1].payloadHash
    BY DEF AcksAgree
  <2>1. PICK p \in command_receipts : SameCommand(p, x[1]) /\ p.receipt = x[2]
    BY DEF InductiveInv, AcksDurable
  <2>2. PICK q \in command_receipts : SameCommand(q, y[1]) /\ q.receipt = y[2]
    BY DEF InductiveInv, AcksDurable
  <2>3. p = q
    BY <2>1, <2>2 DEF SameCommand, InductiveInv, UniqueCommands
  <2> QED
    BY <2>1, <2>2, <2>3 DEF SameCommand
<1>2. InductiveInv => AcksSound
  BY <1>1 DEF AcksSound, InductiveInv
<1> QED
  BY <1>2, InductiveAlways, PTL

\* One result per task and one effect per outbox identity.
THEOREM JournalSingleEffect == Spec => []SingleEffect
BY InductiveAlways, PTL DEF InductiveInv

\* The write lock is held exactly by the connection whose worker knows of an
\* open transaction: no refusal, failure, closing or termination keeps it, and
\* a commit refused inside its own worker's probe does not end that probe.
THEOREM JournalLockAccounted == Spec => []LockAccounted
BY InductiveAlways, PTL DEF InductiveInv
-----------------------------------------------------------------------------
(* Part two: the service.  First the effects of commands in the journal,   *)
(* then the phases of a call, then the answers, then the ledger.           *)

\* The hash of a command covers all of it, so it tells commands apart.
LEMMA HashInjective ==
    ASSUME NEW c \in Commands, NEW d \in Commands,
           canonicalJsonSha256(c) = canonicalJsonSha256(d)
    PROVE  c = d
<1>1. c \in Command /\ d \in Command
  BY CommandsAssumption
<1>2. /\ c.commandId = d.commandId /\ c.idempotencyKey = d.idempotencyKey
      /\ c.stream = d.stream /\ c.expectedVersion = d.expectedVersion
      /\ c.payload = d.payload
  BY DEF canonicalJsonSha256
<1> QED
  BY <1>1, <1>2 DEF Command

\* A stored row is the row of one command only.
LEMMA OneCommand ==
    ASSUME NEW c \in Commands, NEW d \in Commands, NEW row,
           SameCommand(row, commandIdentity(c)),
           SameCommand(row, commandIdentity(d))
    PROVE  c = d
<1>1. canonicalJsonSha256(c) = canonicalJsonSha256(d)
  BY DEF SameCommand, commandIdentity
<1> QED
  BY <1>1, HashInjective

\* A stored row leads to the event of its command.
LEMMA RowEffect ==
    ASSUME EffectsInv, NEW c \in Commands, NEW row \in command_receipts,
           SameCommand(row, commandIdentity(c))
    PROVE  \E e \in event_journal : EffectOf(c, row, e)
<1>1. PICK d \in Commands, e \in event_journal : EffectOf(d, row, e)
  BY DEF EffectsInv
<1>2. c = d
  BY <1>1, OneCommand DEF EffectOf
<1> QED
  BY <1>1, <1>2

\* A stream has one event at most: the creation of its run.
LEMMA OneEvent ==
    ASSUME InductiveInv, EffectsInv, NEW e \in event_journal
    PROVE  History(e.stream) = {e}
<1>1. \A d \in event_journal : d.version = 1 /\ d.stream \in Ids
  BY DEF EffectsInv, EffectOf, InductiveInv, TypeOK, EventRow
<1>2. \A d \in event_journal : d.stream = e.stream => d = e
  BY <1>1 DEF InductiveInv, StreamsDense
<1> QED
  BY <1>2 DEF History

\* A stream has one receipt row at most.
LEMMA OneRow ==
    ASSUME InductiveInv, EffectsInv,
           NEW x \in command_receipts, NEW y \in command_receipts,
           x.effectScope = y.effectScope
    PROVE  x = y
<1>1. PICK c \in Commands, e \in event_journal : EffectOf(c, x, e)
  BY DEF EffectsInv
<1>2. PICK d \in Commands, f \in event_journal : EffectOf(d, y, f)
  BY DEF EffectsInv
<1>3. e.stream = f.stream
  BY <1>1, <1>2 DEF EffectOf, SameCommand, commandIdentity
<1>4. e = f
  <2>1. e \in History(f.stream)
    BY <1>3 DEF History
  <2> QED
    BY <2>1, OneEvent
<1>5. x.commandId = y.commandId
  BY <1>1, <1>2, <1>4 DEF EffectOf, SameCommand, commandIdentity
<1> QED
  BY <1>5 DEF InductiveInv, UniqueCommands

\* What a stream holds always replays.
LEMMA HistoryReplays ==
    ASSUME InductiveInv, EffectsInv, NEW stream
    PROVE  ReplayValid(stream, History(stream))
<1>1. CASE History(stream) = {}
  <2>1. Cardinality({}) = 0
    BY FS_EmptySet
  <2>2. {e.version : e \in {}} = {} /\ {e.eventId : e \in {}} = {} /\ 1..0 = {}
    OBVIOUS
  <2> QED
    BY <1>1, <2>1, <2>2 DEF ReplayValid
<1>2. CASE History(stream) # {}
  <2>1. PICK e \in History(stream) : TRUE
    BY <1>2
  <2>2. e \in event_journal /\ e.stream = stream
    BY <2>1 DEF History
  <2>3. History(stream) = {e}
    BY <2>2, OneEvent
  <2>4. e.version = 1 /\ e.payload[1] = e.causationId
    BY <2>2 DEF EffectsInv, EffectOf
  <2>5. {x.version : x \in {e}} = {e.version} /\ {x.eventId : x \in {e}} = {e.eventId}
    OBVIOUS
  <2>6. Cardinality({e}) = 1 /\ Cardinality({e.eventId}) = 1
    BY FS_Singleton
  <2>7. 1..1 = {1}
    OBVIOUS
  <2> QED
    BY <2>2, <2>3, <2>4, <2>5, <2>6, <2>7 DEF ReplayValid
<1> QED
  BY <1>1, <1>2

\* #result accepts every receipt that is stored for its command, and finds the
\* run that the command created.
LEMMA StoredVerified ==
    ASSUME InductiveInv, EffectsInv, NEW c \in Commands, NEW r, Stored(c, r)
    PROVE  /\ ReceiptVerified(c, r)
           /\ ReplayState({e \in History(c.stream) :
                              e.version <= r.committedVersion})
                  = <<c.commandId, c.payload>>
<1>1. PICK row \in command_receipts :
          SameCommand(row, commandIdentity(c)) /\ row.receipt = r
  BY DEF Stored
<1>2. PICK e \in event_journal : EffectOf(c, row, e)
  BY <1>1, RowEffect
<1>3. /\ e.stream = c.stream /\ e.version = 1 /\ e.causationId = c.commandId
      /\ e.payload = <<c.commandId, c.payload>> /\ c.expectedVersion = 0
      /\ r.commandId = c.commandId /\ r.stream = c.stream
      /\ r.committedVersion = 1 /\ r.eventIds = <<e.eventId>>
  BY <1>1, <1>2 DEF EffectOf
<1>4. History(c.stream) = {e}
  BY <1>3, OneEvent
<1>5. {d \in {e} : d.version > 0 /\ d.version <= 1} = {e}
      /\ {d \in {e} : d.version <= 1} = {e}
  BY <1>3
<1>6. Cardinality({e}) = 1
  BY FS_Singleton
<1>7. Len(r.eventIds) = 1 /\ DOMAIN r.eventIds = {1} /\ r.eventIds[1] = e.eventId
  BY <1>3
<1>8. ReplayValid(c.stream, {e})
  BY <1>4, HistoryReplays
<1>9. ReplayState({e}) = e.payload
  BY DEF ReplayState
<1>10. e.payload # None
  BY NoneAssumption DEF InductiveInv, TypeOK, EventRow
<1>11. ReplayVersion({e}) = 1
  BY <1>6 DEF ReplayVersion
<1>12. \A d \in {e} : {x \in {e} : x.version <= d.version} = {e}
  BY <1>3
<1> QED
  BY <1>3, <1>4, <1>5, <1>6, <1>7, <1>8, <1>9, <1>10, <1>11, <1>12
  DEF ReceiptVerified
-----------------------------------------------------------------------------
\* The batch a call has prepared is its command's, admitted by the schema.
LEMMA PreparedIs ==
    ASSUME ServiceInv, NEW s \in Workers, phase[s] \in {"commit", "committing"}
    PROVE  /\ prepared[s] \in Batches /\ cmd[s] \in Commands
           /\ cmd[s].expectedVersion = 0
           /\ prepared[s] = prepare(cmd[s], {}, createId(s))
<1>1. cmd[s] \in Commands /\ cmd[s].expectedVersion = 0 /\ calls[s] # 0
      /\ prepared[s] = prepare(cmd[s], {}, createId(s))
  BY DEF ServiceInv, CallInv
<1>2. calls[s] \in 1..MaxCalls
  <2>1. MaxCalls \in Nat
    BY PreparedAssumption
  <2>2. calls[s] \in 0..MaxCalls
    BY DEF ServiceInv, CallTypes
  <2> QED
    BY <1>1, <2>1, <2>2
<1> QED
  BY <1>1, <1>2, PreparedAssumption DEF createId

\* workflow's decide accepts a creation on an empty stream only.
LEMMA PreparedEmpty ==
    ASSUME NEW c, NEW stream, NEW events, ReplayValid(stream, events),
           c.expectedVersion = ReplayVersion(events),
           Decides(ReplayState(events), c)
    PROVE  events = {} /\ c.expectedVersion = 0
<1>1. {e.version : e \in events} = 1..0 /\ c.expectedVersion = 0
  BY DEF ReplayValid, ReplayVersion, Decides
<1>2. 1..0 = {}
  OBVIOUS
<1> QED
  BY <1>1, <1>2

\* A prepared batch carries the identity of its command and one creation event.
LEMMA PrepareShape ==
    ASSUME NEW c, NEW token, NEW b, b = prepare(c, {}, token)
    PROVE  /\ b.commandId = c.commandId /\ b.stream = c.stream
           /\ b.idempotencyKey = c.idempotencyKey /\ b.effectScope = c.stream
           /\ b.payloadHash = canonicalJsonSha256(c)
           /\ b.expectedVersion = c.expectedVersion
           /\ Len(b.events) = 1 /\ DOMAIN b.events = {1}
           /\ b.events[1].stream = c.stream /\ b.events[1].version = 1
           /\ b.events[1].payload = <<c.commandId, c.payload>>
           /\ b.events[1].causationId = c.commandId
           /\ b.events[1].payloadHashOk
           /\ DOMAIN b.outbox = {}
           /\ \A row : SameCommand(row, b) <=> SameCommand(row, commandIdentity(c))
           /\ CommandRows(b) = CommandRows(commandIdentity(c))
<1>1. Cardinality({}) = 0
  BY FS_EmptySet
<1>2. ReplayVersion({}) + 1 = 1
  BY <1>1 DEF ReplayVersion
<1> DEFINE e == [eventId |-> token, stream |-> c.stream,
                   version |-> ReplayVersion({}) + 1,
                   payload |-> <<c.commandId, c.payload>>,
                   payloadHashOk |-> TRUE, causationId |-> Cause(c, token)]
<1>3. /\ b.commandId = c.commandId /\ b.stream = c.stream
      /\ b.idempotencyKey = c.idempotencyKey /\ b.effectScope = c.stream
      /\ b.payloadHash = canonicalJsonSha256(c)
      /\ b.expectedVersion = c.expectedVersion
      /\ b.events = <<e>> /\ b.outbox = <<>>
  BY DEF prepare
<1>4. /\ e.stream = c.stream /\ e.version = 1
      /\ e.payload = <<c.commandId, c.payload>>
      /\ e.causationId = c.commandId /\ e.payloadHashOk
  BY <1>2 DEF Cause
<1> HIDE DEF e
<1>5. Len(b.events) = 1 /\ DOMAIN b.events = {1} /\ b.events[1] = e
  <2>1. Len(<<e>>) = 1 /\ <<e>>[1] = e
    OBVIOUS
  <2>2. DOMAIN <<e>> = {1}
    OBVIOUS
  <2> QED
    BY <1>3, <2>1, <2>2
<1>6. DOMAIN b.outbox = {}
  BY <1>3
<1>7. \A row : SameCommand(row, b) <=> SameCommand(row, commandIdentity(c))
  BY <1>3 DEF SameCommand, commandIdentity
<1>8. CommandRows(b) = CommandRows(commandIdentity(c))
  BY <1>3 DEF CommandRows, commandIdentity
<1> QED
  BY <1>3, <1>4, <1>5, <1>6, <1>7, <1>8

\* Every step of the services is a step of the journal.
LEMMA JournalSteps ==
    ServiceInv /\ [SNext]_<<vars, svars>> => [Next]_vars
<1> SUFFICES ASSUME ServiceInv, SNext PROVE [Next]_vars
  BY DEF vars
<1>1. PICK s \in Workers :
          \/ \E c \in Commands : Execute(s, c)
          \/ Progress(s) \/ Reopen(s)
          \/ Crash(s) \/ TerminateForQualification(s)
  BY DEF SNext
<1>2. ASSUME Commit(s) PROVE Next
  <2>1. prepared[s] \in Batches
    BY <1>2, PreparedIs DEF Commit
  <2> QED
    BY <1>2, <2>1 DEF Commit, Next
<1>3. ASSUME UNCHANGED vars PROVE [Next]_vars
  BY <1>3
<1>4. ASSUME \/ WorkerStep(s) \/ Receive(s) \/ Reopen(s)
             \/ Crash(s) \/ TerminateForQualification(s)
      PROVE  [Next]_vars
  BY <1>4 DEF WorkerStep, Receive, Crash, TerminateForQualification,
              WorkerEnds, Reopen, Next
<1> QED
  BY <1>1, <1>2, <1>3, <1>4
  DEF Progress, Execute, Lookup, ReadAndPrepare, RacedLookup, Result
\* Rows and events stay, and only CommitApply adds to them.
LEMMA TablesGrow ==
    ASSUME TypeOK, [Next]_vars
    PROVE  /\ event_journal \subseteq event_journal'
           /\ command_receipts \subseteq command_receipts'
<1>1. CASE \E w \in Workers : CommitApply(w)
  BY <1>1 DEF CommitApply
<1>2. CASE ~ \E w \in Workers : CommitApply(w)
  BY <1>2, OtherSteps DEF journal
<1> QED
  BY <1>1, <1>2

\* What a call has seen stays true while the tables grow.
LEMMA SeenStable ==
    ASSUME event_journal \subseteq event_journal',
           command_receipts \subseteq command_receipts', NEW c
    PROVE  /\ \A r : Stored(c, r) => Stored(c, r)'
           /\ Late(c) => Late(c)'
           /\ Taken(c) => Taken(c)'
<1>1. \A r : Stored(c, r) => Stored(c, r)'
  BY DEF Stored
<1>2. Late(c) => Late(c)'
  BY DEF Late, History
<1>3. Taken(c) => Taken(c)'
  BY DEF Taken, CommandRows
<1> QED
  BY <1>1, <1>2, <1>3

\* findCommandDuplicate throws only for an identity that is another command's.
LEMMA ConflictTaken ==
    ASSUME UniqueCommands, NEW id, IsConflict(id)
    PROVE  \E row \in CommandRows(id) : ~SameCommand(row, id)
<1> SUFFICES ASSUME \A row \in CommandRows(id) : SameCommand(row, id) PROVE FALSE
  OBVIOUS
<1>1. PICK row \in CommandRows(id) : TRUE
  BY DEF IsConflict
<1>2. row \in command_receipts /\ SameCommand(row, id)
  BY <1>1 DEF CommandRows
<1>3. \A x \in CommandRows(id) : x = row
  BY <1>2 DEF CommandRows, SameCommand, UniqueCommands
<1>4. CommandRows(id) = {row}
  BY <1>1, <1>3
<1> QED
  BY <1>2, <1>4 DEF IsConflict, IsDuplicate

\* Why the transaction refuses a prepared batch.
LEMMA RefusalMeans ==
    ASSUME ServiceInv, NEW s \in Workers, phase[s] = "committing",
           ~IsDuplicate(cur[s]), ~Accepts(cur[s])
    PROVE  /\ Refusal(cur[s]) = "PERSISTENCE_OPTIMISTIC_CONCURRENCY" => Late(cmd[s])
           /\ Refusal(cur[s]) = "PERSISTENCE_IDEMPOTENCY_CONFLICT" => Taken(cmd[s])
<1> DEFINE c == cmd[s]
           b == cur[s]
<1>1. b = prepare(c, {}, createId(s)) /\ c.expectedVersion = 0
  BY PreparedIs DEF ServiceInv, CallInv
<1> HIDE DEF b
<1>2. /\ b.stream = c.stream /\ b.expectedVersion = 0
      /\ DOMAIN b.events = {1} /\ b.events[1].stream = c.stream
      /\ b.events[1].version = 1 /\ DOMAIN b.outbox = {}
      /\ CommandRows(b) = CommandRows(commandIdentity(c))
      /\ \A row : SameCommand(row, b) <=> SameCommand(row, commandIdentity(c))
  BY <1>1, PrepareShape
<1>3. VerifyOutboxIdentities(b)
  BY <1>2 DEF VerifyOutboxIdentities
<1>4. IsConflict(b) => Taken(c)
  <2> HAVE IsConflict(b)
  <2>1. PICK row \in CommandRows(b) : ~SameCommand(row, b)
    BY ConflictTaken DEF ServiceInv, InductiveInv
  <2> QED
    BY <1>2, <2>1 DEF Taken
<1>5. CurrentVersion(b.stream) # b.expectedVersion => Late(c)
  BY <1>2 DEF CurrentVersion, Versions, Late, History
<1>6. ASSUME CurrentVersion(b.stream) = b.expectedVersion,
             ~ \A i \in DOMAIN b.events : EventAccepted(b, i)
      PROVE  EventAligned(b, FirstRefusedEvent(b))
  <2>1. ~EventAccepted(b, 1) /\ \A j \in 1..(1 - 1) : EventAccepted(b, j)
    BY <1>2, <1>6
  <2>2. FirstRefusedEvent(b) \in DOMAIN b.events
    BY <1>2, <2>1 DEF FirstRefusedEvent
  <2>3. FirstRefusedEvent(b) = 1
    BY <1>2, <2>2
  <2>4. EventAligned(b, 1)
    BY <1>2, <1>6 DEF EventAligned
  <2> QED
    BY <2>3, <2>4
<1>7. /\ Refusal(b) = "PERSISTENCE_OPTIMISTIC_CONCURRENCY" =>
             CurrentVersion(b.stream) # b.expectedVersion
      /\ Refusal(b) = "PERSISTENCE_IDEMPOTENCY_CONFLICT" => IsConflict(b)
  BY <1>3, <1>6 DEF Refusal
<1> QED
  BY <1>4, <1>5, <1>7 DEF b
-----------------------------------------------------------------------------
\* The journal holds the effects of commands and nothing else, after any step.
LEMMA EffectsStep == ServiceInv /\ [Next]_vars => EffectsInv'
<1> SUFFICES ASSUME ServiceInv, [Next]_vars PROVE EffectsInv'
  OBVIOUS
<1>1. CASE ~ \E w \in Workers : CommitApply(w)
  <2>1. UNCHANGED journal
    BY <1>1, OtherSteps DEF ServiceInv, InductiveInv
  <2> QED
    BY <2>1 DEF journal, ServiceInv, EffectsInv
<1>2. ASSUME NEW s \in Workers, CommitApply(s) PROVE EffectsInv'
  <2>1. PICK b, c : b = cur[s] /\ c = cmd[s]
    OBVIOUS
  <2>2. phase[s] = "committing"
    BY <1>2 DEF CommitApply, ServiceInv, CallInv
  <2>3. /\ b = prepare(c, {}, createId(s)) /\ c \in Commands
        /\ c.expectedVersion = 0
    BY <2>1, <2>2, PreparedIs DEF ServiceInv, CallInv
  <2>4. /\ event_journal' = event_journal \cup {b.events[i] : i \in DOMAIN b.events}
        /\ command_receipts' = command_receipts \cup {ReceiptRowOf(b)}
    BY <1>2, <2>1 DEF CommitApply
  <2>5. PICK e, row : e = b.events[1] /\ row = ReceiptRowOf(b)
    OBVIOUS
  <2>6. /\ event_journal' = event_journal \cup {e}
        /\ command_receipts' = command_receipts \cup {row}
    BY <2>3, <2>4, <2>5, PrepareShape
  <2>7. EffectOf(c, row, e)
    <3>1. SameCommand(row, commandIdentity(c))
      BY <2>3, <2>5, PrepareShape DEF SameCommand, ReceiptRowOf
    <3>2. /\ e.stream = c.stream /\ e.version = 1 /\ e.causationId = c.commandId
          /\ e.payload = <<c.commandId, c.payload>>
      BY <2>3, <2>5, PrepareShape
    <3>3. /\ row.receipt.commandId = c.commandId
          /\ row.receipt.stream = c.stream
          /\ row.receipt.committedVersion = 0 + 1
          /\ row.receipt.eventIds = [i \in {1} |-> b.events[i].eventId]
      <4>1. /\ b.commandId = c.commandId /\ b.stream = c.stream
            /\ b.expectedVersion = 0 /\ Len(b.events) = 1
            /\ DOMAIN b.events = {1}
        BY <2>3, PrepareShape
      <4>2. row.receipt = ReceiptOf(b)
        BY <2>5 DEF ReceiptRowOf
      <4> QED
        BY <4>1, <4>2 DEF ReceiptOf
    <3>4. row.receipt.eventIds = <<e.eventId>>
      BY <2>5, <3>3
    <3> QED
      BY <2>3, <3>1, <3>2, <3>3, <3>4 DEF EffectOf
  <2> QED
    BY <2>3, <2>6, <2>7 DEF ServiceInv, EffectsInv
<1> QED
  BY <1>1, <1>2
-----------------------------------------------------------------------------
\* One step of service s.
StepOf(s) ==
    \/ \E c \in Commands : Execute(s, c)
    \/ Progress(s) \/ Reopen(s) \/ Crash(s) \/ TerminateForQualification(s)

\* Nothing of the call and the commit of service s changes.
Same(s) ==
    /\ phase'[s] = phase[s] /\ cmd'[s] = cmd[s] /\ prepared'[s] = prepared[s]
    /\ receipt'[s] = receipt[s] /\ failure'[s] = failure[s]
    /\ calls'[s] = calls[s]
    /\ pc'[s] = pc[s] /\ cur'[s] = cur[s] /\ res'[s] = res[s]

\* A step of a service is none of another's.
LEMMA OthersSame ==
    ASSUME TypeOK, CallTypes, NEW t \in Workers, StepOf(t),
           NEW s \in Workers, s # t
    PROVE  Same(s)
<1> USE DEF TypeOK, CallTypes, Same
<1>1. ASSUME UNCHANGED vars
      PROVE  pc'[s] = pc[s] /\ cur'[s] = cur[s] /\ res'[s] = res[s]
  BY <1>1 DEF vars
<1>2. ASSUME UNCHANGED svars
      PROVE  /\ phase'[s] = phase[s] /\ cmd'[s] = cmd[s]
             /\ prepared'[s] = prepared[s] /\ receipt'[s] = receipt[s]
             /\ failure'[s] = failure[s] /\ calls'[s] = calls[s]
  BY <1>2 DEF svars
<1>3. ASSUME NEW c \in Commands, Execute(t, c) PROVE Same(s)
  BY <1>1, <1>3 DEF Execute
<1>4. ASSUME Lookup(t) \/ RacedLookup(t) PROVE Same(s)
  BY ZenonT(60), <1>1, <1>4 DEF Lookup, RacedLookup, Refuse, Answer, Verify, Goto
<1>5. ASSUME ReadAndPrepare(t) PROVE Same(s)
  BY ZenonT(60), <1>1, <1>5 DEF ReadAndPrepare, Refuse, Answer
<1>6. ASSUME Commit(t) PROVE Same(s)
  BY <1>6 DEF Commit, CommitLookup, Settle
<1>7. ASSUME WorkerStep(t) PROVE Same(s)
  BY <1>2, <1>7 DEF WorkerStep, CommitBegin, CommitDuplicate, CommitRollback,
                    CommitCheck, CommitApply, Settle
<1>8. ASSUME Receive(t) PROVE Same(s)
  <2>1. pc'[s] = pc[s] /\ cur'[s] = cur[s] /\ res'[s] = res[s]
    BY <1>8 DEF Receive, Reply
  <2>2. CASE Verify(t, res[t].receipt) /\ UNCHANGED calls
    BY <2>1, <2>2 DEF Verify
  <2>3. CASE (\E code : Refuse(t, code)) /\ UNCHANGED calls
    BY ZenonT(60), <2>1, <2>3 DEF Refuse, Answer
  <2>4. CASE /\ failure' = [failure EXCEPT ![t] = res[t].code]
             /\ phase' = [phase EXCEPT ![t] = "raced"]
             /\ UNCHANGED <<cmd, prepared, receipt, answers, calls>>
    BY <2>1, <2>4
  <2> QED
    BY <1>8, <2>2, <2>3, <2>4 DEF Receive
<1>9. ASSUME Result(t) PROVE Same(s)
  BY ZenonT(60), <1>1, <1>9 DEF Result, Refuse, Answer
<1>10. ASSUME Crash(t) \/ TerminateForQualification(t) PROVE Same(s)
  <2>1. FailPending(t) /\ UNCHANGED calls
    BY <1>10 DEF Crash, TerminateForQualification, WorkerEnds
  <2>2. pc'[s] = pc[s] /\ cur'[s] = cur[s] /\ res'[s] = res[s]
    BY <1>10 DEF Crash, TerminateForQualification, WorkerEnds, Terminate, vars
  <2>3. CASE UNCHANGED <<phase, cmd, prepared, receipt, failure, answers>>
    BY <2>1, <2>2, <2>3
  <2>4. CASE Refuse(t, "PERSISTENCE_WORKER_EXITED")
    BY ZenonT(60), <2>1, <2>2, <2>4 DEF Refuse, Answer
  <2> QED
    BY <2>1, <2>3, <2>4 DEF FailPending
<1>11. ASSUME Reopen(t) PROVE Same(s)
  BY <1>11 DEF Reopen, Open
<1> QED
  BY <1>3, <1>4, <1>5, <1>6, <1>7, <1>8, <1>9, <1>10, <1>11 DEF StepOf, Progress

\* What a service has established stays true under the steps of the others.
LEMMA CallStable ==
    ASSUME event_journal \subseteq event_journal',
           command_receipts \subseteq command_receipts',
           NEW s \in Workers, CallInv(s), Same(s)
    PROVE  CallInv(s)'
<1>1. PICK c, r : c = cmd[s] /\ r = receipt[s]
  OBVIOUS
<1>2. /\ phase[s] = "result" => Stored(c, r)'
      /\ phase[s] = "raced" => Late(c)'
      /\ pc[s] = "reply" /\ res[s].code = "PERSISTENCE_OPTIMISTIC_CONCURRENCY"
             => Late(c)'
      /\ pc[s] = "reply" /\ res[s].code = "PERSISTENCE_IDEMPOTENCY_CONFLICT"
             => Taken(c)'
  BY <1>1, SeenStable DEF CallInv
<1>3. PICK n : n = calls[s]
  OBVIOUS
<1>4. c = cmd'[s] /\ r = receipt'[s] /\ n = calls'[s]
  BY <1>1, <1>3 DEF Same
<1> QED
  BY <1>1, <1>2, <1>3, <1>4 DEF CallInv, Same, createId
\* execute keeps the types of its locals.
LEMMA CallTypesStep ==
    ASSUME ServiceInv, NEW t \in Workers, StepOf(t)
    PROVE  CallTypes'
<1> USE DEF CallTypes, Phases
<1>1. CallTypes /\ MaxCalls \in Nat
  BY PreparedAssumption DEF ServiceInv
<1>0. calls[t] \in 0..MaxCalls /\ MaxCalls \in Nat
  <2>1. calls \in [Workers -> 0..MaxCalls] /\ MaxCalls \in Nat
    BY <1>1
  <2> HIDE DEF CallTypes
  <2> QED
    BY <2>1
<1>2. ASSUME NEW c \in Commands, Execute(t, c) PROVE CallTypes'
  <2>1. calls[t] + 1 \in 0..MaxCalls
    <3>1. calls[t] < MaxCalls
      BY <1>2 DEF Execute
    <3> HIDE DEF CallTypes
    <3> QED
      BY <1>0, <3>1
  <2> QED
    BY <1>1, <1>2, <2>1 DEF Execute
<1>14. UNCHANGED closed => closed' \subseteq Workers
  BY <1>1
<1>3. ASSUME NEW code, NEW r, NEW state, Answer(t, code, r, state),
             UNCHANGED calls, closed' \subseteq Workers
      PROVE  CallTypes'
  BY <1>1, <1>3 DEF Answer
<1>4. ASSUME NEW r \in Receipt, Verify(t, r), UNCHANGED <<calls, closed>>
      PROVE  CallTypes'
  BY <1>1, <1>4 DEF Verify
<1>5. ASSUME IsDuplicate(commandIdentity(cmd[t]))
      PROVE  StoredReceipt(commandIdentity(cmd[t])) \in Receipt
  <2>1. PICK row \in command_receipts :
            row.receipt = StoredReceipt(commandIdentity(cmd[t]))
    BY <1>5, DuplicateRow
  <2>2. command_receipts \subseteq ReceiptRow
    BY DEF ServiceInv, InductiveInv, TypeOK
  <2>3. row.receipt \in Receipt
    BY <2>1, <2>2 DEF ReceiptRow
  <2> QED
    BY <2>1, <2>3
<1>6. ASSUME Lookup(t) PROVE CallTypes'
  <2>1. CASE Goto(t, "read") \/ Goto(t, "lost")
    BY <1>1, <1>6, <2>1 DEF Lookup, Goto
  <2> QED
    BY <1>3, <1>4, <1>5, <1>6, <1>14, <2>1 DEF Lookup, Refuse
<1>7. ASSUME RacedLookup(t) PROVE CallTypes'
  BY <1>3, <1>4, <1>5, <1>7, <1>14 DEF RacedLookup, Refuse
<1>8. ASSUME ReadAndPrepare(t) PROVE CallTypes'
  <2>1. CASE /\ failure' = [failure EXCEPT ![t] = "KERNEL_VERSION_CONFLICT"]
             /\ phase' = [phase EXCEPT ![t] = "raced"]
             /\ UNCHANGED <<cmd, prepared, receipt, answers>>
    BY <1>1, <1>8, <2>1 DEF ReadAndPrepare
  <2>2. ASSUME phase' = [phase EXCEPT ![t] = "commit"],
               prepared' = [prepared EXCEPT
                   ![t] = prepare(cmd[t], History(cmd[t].stream), createId(t))],
               ReplayValid(cmd[t].stream, History(cmd[t].stream)),
               cmd[t].expectedVersion = ReplayVersion(History(cmd[t].stream)),
               Decides(ReplayState(History(cmd[t].stream)), cmd[t]),
               UNCHANGED <<cmd, receipt, failure, answers>>
        PROVE  CallTypes'
    <3>1. cmd[t] \in Commands /\ calls[t] # 0
      BY <1>8 DEF ReadAndPrepare, ServiceInv, CallInv
    <3>2. calls[t] \in 1..MaxCalls
      BY <1>0, <3>1
    <3>3. History(cmd[t].stream) = {}
      BY <2>2, PreparedEmpty
    <3>4. prepare(cmd[t], History(cmd[t].stream), createId(t)) \in Batches
      BY <3>1, <3>2, <3>3, PreparedAssumption DEF createId
    <3> QED
      BY <1>1, <1>8, <2>2, <3>4 DEF ReadAndPrepare
  <2> QED
    BY <1>3, <1>8, <1>14, <2>1, <2>2 DEF ReadAndPrepare, Refuse
<1>9. ASSUME Commit(t) PROVE CallTypes'
  BY <1>1, <1>9 DEF Commit
<1>10. ASSUME WorkerStep(t) \/ Reopen(t) PROVE CallTypes'
  <2>1. CASE WorkerStep(t)
    BY <1>1, <2>1 DEF WorkerStep, svars
  <2>2. CASE Reopen(t)
    BY <1>1, <2>2 DEF Reopen
  <2> QED
    BY <1>10, <2>1, <2>2
<1>11. ASSUME Receive(t) PROVE CallTypes'
  <2>1. res[t].code = "COMMITTED" => res[t].receipt \in Receipt
    BY ZenonT(60), <1>11, NoneAssumption
    DEF Receive, Reply, ServiceInv, InductiveInv, TypeOK, PostedOutcome
  <2>2. CASE /\ failure' = [failure EXCEPT ![t] = "PERSISTENCE_OPTIMISTIC_CONCURRENCY"]
             /\ phase' = [phase EXCEPT ![t] = "raced"]
             /\ UNCHANGED <<cmd, prepared, receipt, answers>>
    BY <1>1, <1>11, <2>2 DEF Receive
  <2> QED
    BY <1>3, <1>4, <1>11, <1>14, <2>1, <2>2 DEF Receive, Refuse
<1>12. ASSUME Result(t) PROVE CallTypes'
  BY <1>3, <1>12, <1>14 DEF Result, Refuse
<1>13. ASSUME Crash(t) \/ TerminateForQualification(t) PROVE CallTypes'
  <2>1. /\ FailPending(t) /\ UNCHANGED calls /\ closed' \subseteq Workers
    BY <1>1, <1>13 DEF Crash, TerminateForQualification, WorkerEnds
  <2>2. CASE UNCHANGED <<phase, cmd, prepared, receipt, failure, answers>>
    BY <1>1, <2>1, <2>2
  <2>3. CASE Refuse(t, "PERSISTENCE_WORKER_EXITED")
    BY <1>3, <2>1, <2>3 DEF Refuse
  <2> QED
    BY <2>1, <2>2, <2>3 DEF FailPending
<1> QED
  BY <1>2, <1>6, <1>7, <1>8, <1>9, <1>10, <1>11, <1>12, <1>13
  DEF StepOf, Progress
-----------------------------------------------------------------------------
\* The own steps of a service, phase by phase.

\* A call that has been answered has left nothing behind.
LEMMA AfterAnswer ==
    ASSUME CallTypes, NEW t \in Workers, NEW code, NEW r, NEW state,
           Answer(t, code, r, state), pc'[t] = "idle"
    PROVE  CallInv(t)'
<1>1. phase'[t] = "idle" /\ cmd'[t] = None
  BY DEF Answer, CallTypes
<1> QED
  BY <1>1 DEF CallInv

\* A call that goes to #result with a receipt takes a stored one.
LEMMA AfterVerify ==
    ASSUME CallTypes, NEW t \in Workers, cmd[t] \in Commands, calls[t] # 0,
           NEW r, Stored(cmd[t], r), Verify(t, r), pc'[t] = "idle",
           UNCHANGED <<calls, event_journal, command_receipts>>
    PROVE  CallInv(t)'
<1>1. /\ phase'[t] = "result" /\ cmd'[t] = cmd[t] /\ receipt'[t] = r
      /\ calls'[t] = calls[t]
  BY DEF Verify, CallTypes
<1>2. PICK c : c = cmd[t] /\ c = cmd'[t]
  BY <1>1
<1>3. Stored(c, r)'
  BY <1>2, SeenStable
<1> QED
  BY <1>1, <1>2, <1>3 DEF CallInv

\* A lookup that finds the command finds its stored receipt.
LEMMA LookupStored ==
    ASSUME NEW c, IsDuplicate(commandIdentity(c))
    PROVE  Stored(c, StoredReceipt(commandIdentity(c)))
BY DuplicateRow DEF Stored

LEMMA OwnLookup ==
    ASSUME ServiceInv, NEW t \in Workers, Lookup(t) \/ RacedLookup(t)
    PROVE  CallInv(t)'
<1>1. /\ CallTypes /\ cmd[t] \in Commands /\ calls[t] # 0 /\ pc[t] = "idle"
  BY DEF ServiceInv, CallInv, Lookup, RacedLookup
<1>2. /\ pc'[t] = "idle"
      /\ UNCHANGED <<calls, event_journal, command_receipts>>
  BY <1>1 DEF Lookup, RacedLookup, vars, tables
<1>3. CASE \E code : Refuse(t, code)
  BY <1>1, <1>2, <1>3, AfterAnswer DEF Refuse
<1>4. CASE /\ IsDuplicate(commandIdentity(cmd[t]))
           /\ Verify(t, StoredReceipt(commandIdentity(cmd[t])))
  BY <1>1, <1>2, <1>4, LookupStored, AfterVerify
<1>5. CASE Goto(t, "read") \/ Goto(t, "lost")
  <2>1. /\ phase'[t] \in {"read", "lost"}
        /\ cmd'[t] = cmd[t] /\ calls'[t] = calls[t]
    BY <1>1, <1>2, <1>5 DEF Goto, CallTypes
  <2> QED
    BY <1>1, <1>2, <2>1 DEF CallInv
<1> QED
  BY <1>3, <1>4, <1>5 DEF Lookup, RacedLookup

LEMMA OwnExecute ==
    ASSUME ServiceInv, NEW t \in Workers, NEW c \in Commands, Execute(t, c)
    PROVE  CallInv(t)'
<1>1. pc'[t] = "idle"
  BY DEF Execute, ServiceInv, CallInv, vars
<1>2. phase'[t] = "lookup" /\ cmd'[t] = c /\ calls'[t] = calls[t] + 1
  BY DEF Execute, ServiceInv, CallTypes
<1>3. calls[t] + 1 # 0
  <2>1. calls \in [Workers -> 0..MaxCalls] /\ MaxCalls \in Nat
    BY PreparedAssumption DEF ServiceInv, CallTypes
  <2> QED
    BY <2>1
<1> QED
  BY <1>1, <1>2, <1>3 DEF CallInv

LEMMA OwnReadAndPrepare ==
    ASSUME ServiceInv, NEW t \in Workers, ReadAndPrepare(t)
    PROVE  CallInv(t)'
<1>1. /\ CallTypes /\ cmd[t] \in Commands /\ calls[t] # 0 /\ pc[t] = "idle"
  BY DEF ServiceInv, CallInv, ReadAndPrepare
<1>2. /\ pc'[t] = "idle"
      /\ UNCHANGED <<calls, event_journal, command_receipts>>
  BY <1>1 DEF ReadAndPrepare, vars, tables
<1>3. CASE \E code : Refuse(t, code)
  BY <1>1, <1>2, <1>3, AfterAnswer DEF Refuse
<1>4. CASE /\ cmd[t].expectedVersion # ReplayVersion(History(cmd[t].stream))
           /\ failure' = [failure EXCEPT ![t] = "KERNEL_VERSION_CONFLICT"]
           /\ phase' = [phase EXCEPT ![t] = "raced"]
           /\ UNCHANGED <<cmd, prepared, receipt, answers>>
  <2>1. /\ phase'[t] = "raced" /\ cmd'[t] = cmd[t] /\ calls'[t] = calls[t]
        /\ failure'[t] # ""
    BY <1>1, <1>2, <1>4 DEF CallTypes
  <2>2. Late(cmd[t])
    BY <1>4, FS_EmptySet DEF Late, ReplayVersion
  <2>3. PICK c : c = cmd[t] /\ c = cmd'[t]
    BY <2>1
  <2>4. Late(c)'
    BY <1>2, <2>2, <2>3, SeenStable
  <2> QED
    BY <1>1, <1>2, <2>1, <2>3, <2>4 DEF CallInv
<1>5. CASE /\ ReplayValid(cmd[t].stream, History(cmd[t].stream))
           /\ cmd[t].expectedVersion = ReplayVersion(History(cmd[t].stream))
           /\ Decides(ReplayState(History(cmd[t].stream)), cmd[t])
           /\ prepared' = [prepared EXCEPT ![t] =
                  prepare(cmd[t], History(cmd[t].stream), createId(t))]
           /\ phase' = [phase EXCEPT ![t] = "commit"]
           /\ UNCHANGED <<cmd, receipt, failure, answers>>
  <2>1. History(cmd[t].stream) = {} /\ cmd[t].expectedVersion = 0
    BY <1>5, PreparedEmpty
  <2>2. /\ phase'[t] = "commit" /\ cmd'[t] = cmd[t] /\ calls'[t] = calls[t]
        /\ prepared'[t] = prepare(cmd[t], {}, createId(t))
    BY <1>1, <1>2, <1>5, <2>1 DEF CallTypes
  <2> QED
    BY <1>1, <1>2, <2>1, <2>2 DEF CallInv, createId
<1> QED
  BY <1>3, <1>4, <1>5 DEF ReadAndPrepare
LEMMA OwnCommit ==
    ASSUME ServiceInv, NEW t \in Workers, Commit(t)
    PROVE  CallInv(t)'
<1>1. PICK c, b : c = cmd[t] /\ b = prepared[t]
  OBVIOUS
<1>2. /\ c \in Commands /\ calls[t] # 0 /\ c.expectedVersion = 0
      /\ b = prepare(c, {}, createId(t))
  BY <1>1 DEF ServiceInv, CallInv, Commit
<1>3. /\ phase'[t] = "committing" /\ cmd'[t] = c /\ calls'[t] = calls[t]
      /\ prepared'[t] = b /\ cur'[t] = b
  BY <1>1 DEF Commit, CommitLookup, ServiceInv, CallTypes, InductiveInv, TypeOK
<1>4. UNCHANGED <<event_journal, command_receipts>>
  BY DEF Commit, CommitLookup, tables
<1>5. pc \in [Workers -> PcStates] /\ res \in [Workers -> PostedOutcome \cup {None}]
  BY DEF ServiceInv, InductiveInv, TypeOK
<1>6. CASE /\ IsConflict(b)
           /\ Settle(t, "PERSISTENCE_IDEMPOTENCY_CONFLICT", None)
  <2>1. Taken(c)
    BY <1>2, <1>6, ConflictTaken, PrepareShape DEF Taken, ServiceInv, InductiveInv
  <2>2. Taken(c)'
    BY <1>4, <2>1, SeenStable
  <2>3. pc'[t] = "reply" /\ res'[t].code = "PERSISTENCE_IDEMPOTENCY_CONFLICT"
    BY <1>5, <1>6 DEF Settle, Outcome
  <2> QED
    BY <1>2, <1>3, <2>2, <2>3 DEF CallInv, createId
<1>7. CASE \E code \in {"COMMITTED", "PERSISTENCE_CONTRACT_INVALID"} :
               \E r : Settle(t, code, r)
  <2>1. /\ pc'[t] = "reply"
        /\ res'[t].code \in {"COMMITTED", "PERSISTENCE_CONTRACT_INVALID"}
    BY <1>5, <1>7 DEF Settle, Outcome
  <2> QED
    BY <1>2, <1>3, <2>1 DEF CallInv, createId
<1>8. CASE pc' = [pc EXCEPT ![t] = "begin"]
  <2>1. pc'[t] = "begin"
    BY <1>5, <1>8
  <2> QED
    BY <1>2, <1>3, <2>1 DEF CallInv, createId
<1> QED
  BY <1>1, <1>6, <1>7, <1>8 DEF Commit, CommitLookup

LEMMA OwnWorkerStep ==
    ASSUME ServiceInv, NEW t \in Workers, WorkerStep(t)
    PROVE  CallInv(t)'
<1>1. PICK c, b : c = cmd[t] /\ b = prepared[t]
  OBVIOUS
<1>2. pc[t] \notin {"idle", "reply"}
  BY DEF WorkerStep, CommitBegin, CommitDuplicate, CommitRollback, CommitCheck,
         CommitApply
<1>3. /\ phase[t] = "committing" /\ c \in Commands /\ calls[t] # 0
      /\ c.expectedVersion = 0 /\ b = prepare(c, {}, createId(t)) /\ cur[t] = b
  BY <1>1, <1>2 DEF ServiceInv, CallInv
<1>4. /\ phase'[t] = "committing" /\ cmd'[t] = c /\ calls'[t] = calls[t]
      /\ prepared'[t] = b /\ cur'[t] = b
  BY <1>1, <1>3 DEF WorkerStep, svars, CommitBegin, CommitDuplicate,
                    CommitRollback, CommitCheck, CommitApply
<1>5. pc \in [Workers -> PcStates] /\ res \in [Workers -> PostedOutcome \cup {None}]
  BY DEF ServiceInv, InductiveInv, TypeOK
<1>6. CASE \E code, r : /\ code \notin {"PERSISTENCE_OPTIMISTIC_CONCURRENCY",
                                        "PERSISTENCE_IDEMPOTENCY_CONFLICT"}
                        /\ Settle(t, code, r)
  <2>1. /\ pc'[t] = "reply"
        /\ res'[t].code \notin {"PERSISTENCE_OPTIMISTIC_CONCURRENCY",
                                "PERSISTENCE_IDEMPOTENCY_CONFLICT"}
    BY <1>5, <1>6 DEF Settle, Outcome
  <2> QED
    BY <1>3, <1>4, <2>1 DEF CallInv, createId
<1>7. CASE \E p \in {"body", "insert"} : pc' = [pc EXCEPT ![t] = p]
  <2>1. pc'[t] \in {"body", "insert"}
    BY <1>5, <1>7
  <2> QED
    BY <1>3, <1>4, <2>1 DEF CallInv, createId
<1>8. CASE CommitRollback(t)
  <2>1. /\ Refusal(b) = "PERSISTENCE_OPTIMISTIC_CONCURRENCY" => Late(c)
        /\ Refusal(b) = "PERSISTENCE_IDEMPOTENCY_CONFLICT" => Taken(c)
    BY <1>1, <1>3, <1>8, RefusalMeans DEF CommitRollback
  <2>2. UNCHANGED <<event_journal, command_receipts>>
    BY <1>8 DEF CommitRollback, tables
  <2>3. /\ Refusal(b) = "PERSISTENCE_OPTIMISTIC_CONCURRENCY" => Late(c)'
        /\ Refusal(b) = "PERSISTENCE_IDEMPOTENCY_CONFLICT" => Taken(c)'
    BY <2>1, <2>2, SeenStable
  <2>4. pc'[t] = "reply" /\ res'[t].code = Refusal(b)
    BY <1>3, <1>5, <1>8 DEF CommitRollback, Settle, Outcome
  <2> QED
    BY <1>3, <1>4, <2>3, <2>4 DEF CallInv, createId
<1>9. CASE CommitBegin(t)
  BY <1>6, <1>7, <1>9 DEF CommitBegin
<1>10. CASE CommitDuplicate(t) \/ CommitApply(t)
  BY <1>6, <1>10 DEF CommitDuplicate, CommitApply
<1>11. CASE CommitCheck(t)
  BY <1>7, <1>11 DEF CommitCheck
<1> QED
  BY <1>8, <1>9, <1>10, <1>11 DEF WorkerStep

LEMMA OwnReceive ==
    ASSUME ServiceInv, NEW t \in Workers, Receive(t)
    PROVE  CallInv(t)'
<1>1. /\ CallTypes /\ cmd[t] \in Commands /\ calls[t] # 0 /\ pc[t] = "reply"
      /\ cur[t] = prepare(cmd[t], {}, createId(t))
  BY DEF ServiceInv, CallInv, Receive, Reply
<1>2. /\ pc'[t] = "idle"
      /\ UNCHANGED <<calls, event_journal, command_receipts>>
  BY DEF Receive, Reply, tables, ServiceInv, InductiveInv, TypeOK
<1>3. CASE res[t].code = "COMMITTED" /\ Verify(t, res[t].receipt)
  <2>1. PICK row \in command_receipts :
            SameCommand(row, cur[t]) /\ row.receipt = res[t].receipt
    BY <1>1, <1>3 DEF ServiceInv, InductiveInv, ResInv
  <2>2. Stored(cmd[t], res[t].receipt)
    BY <1>1, <2>1, PrepareShape DEF Stored
  <2> QED
    BY <1>1, <1>2, <1>3, <2>2, AfterVerify
<1>4. CASE /\ res[t].code = "PERSISTENCE_OPTIMISTIC_CONCURRENCY"
           /\ failure' = [failure EXCEPT ![t] = res[t].code]
           /\ phase' = [phase EXCEPT ![t] = "raced"]
           /\ UNCHANGED <<cmd, prepared, receipt, answers>>
  <2>1. /\ phase'[t] = "raced" /\ cmd'[t] = cmd[t] /\ calls'[t] = calls[t]
        /\ failure'[t] # ""
    BY <1>1, <1>2, <1>4 DEF CallTypes
  <2>2. Late(cmd[t])
    BY <1>1, <1>4 DEF ServiceInv, CallInv
  <2>3. PICK c : c = cmd[t] /\ c = cmd'[t]
    BY <2>1
  <2>4. Late(c)'
    BY <1>2, <2>2, <2>3, SeenStable
  <2> QED
    BY <1>1, <1>2, <2>1, <2>3, <2>4 DEF CallInv
<1>5. CASE \E code : Refuse(t, code)
  BY <1>1, <1>2, <1>5, AfterAnswer DEF Refuse
<1> QED
  BY <1>3, <1>4, <1>5 DEF Receive

LEMMA OwnResult ==
    ASSUME ServiceInv, NEW t \in Workers, Result(t)
    PROVE  CallInv(t)'
<1>1. CallTypes /\ pc'[t] = "idle"
  BY DEF Result, ServiceInv, CallInv, vars
<1> QED
  BY <1>1, AfterAnswer DEF Result, Refuse

LEMMA OwnCrash ==
    ASSUME ServiceInv, NEW t \in Workers,
           Crash(t) \/ TerminateForQualification(t)
    PROVE  CallInv(t)'
<1>1. FailPending(t) /\ CallTypes
  BY DEF Crash, TerminateForQualification, WorkerEnds, ServiceInv
<1>2. pc'[t] = "idle"
  BY DEF Crash, TerminateForQualification, WorkerEnds, Terminate, vars,
         ServiceInv, InductiveInv, TypeOK, BusyOpen
<1>3. CASE Refuse(t, "PERSISTENCE_WORKER_EXITED")
  BY <1>1, <1>2, <1>3, AfterAnswer DEF Refuse
<1>4. CASE phase[t] = "idle" /\ UNCHANGED <<phase, cmd>>
  BY <1>2, <1>4 DEF ServiceInv, CallInv
<1> QED
  BY <1>1, <1>3, <1>4 DEF FailPending

LEMMA OwnReopen ==
    ASSUME ServiceInv, NEW t \in Workers, Reopen(t)
    PROVE  CallInv(t)'
<1>1. phase'[t] = "idle" /\ cmd'[t] = None
  BY DEF Reopen, ServiceInv, CallTypes
<1>2. pc'[t] = "idle"
  BY DEF Reopen, Open, ServiceInv, CallInv
<1> QED
  BY <1>1, <1>2 DEF CallInv

\* After a step of one service, every call is where its phase says.
LEMMA CallStep ==
    ASSUME ServiceInv, [Next]_vars, NEW t \in Workers, StepOf(t),
           NEW s \in Workers
    PROVE  CallInv(s)'
<1>1. CASE s = t
  BY <1>1, OwnExecute, OwnLookup, OwnReadAndPrepare, OwnCommit, OwnWorkerStep,
     OwnReceive, OwnResult, OwnCrash, OwnReopen DEF StepOf, Progress
<1>2. CASE s # t
  <2>1. Same(s)
    BY <1>2, OthersSame DEF ServiceInv, InductiveInv
  <2>2. /\ event_journal \subseteq event_journal'
        /\ command_receipts \subseteq command_receipts'
    BY TablesGrow DEF ServiceInv, InductiveInv
  <2> QED
    BY <2>1, <2>2, CallStable DEF ServiceInv
<1> QED
  BY <1>1, <1>2
-----------------------------------------------------------------------------
\* Why a refused command has not taken effect and never will.
Refused(c) ==
    \/ c.expectedVersion # 0
    \/ Taken(c)
    \/ CommandRows(commandIdentity(c)) = {} /\ History(c.stream) # {}

\* What justifies each kind of answer.
Justified(c, code, r, state) ==
    \/ /\ code = "COMMITTED" /\ Stored(c, r)
       /\ state = <<c.commandId, c.payload>>
    \/ code \in Refusals /\ Refused(c)
    \/ code \notin Refusals \cup {"COMMITTED", "KERNEL_REPLAY_INVALID"}

\* The answer a call is given, if it is given one by this step, is justified.
LEMMA AnswerJustified ==
    ASSUME ServiceInv, NEW t \in Workers, StepOf(t)
    PROVE  \/ UNCHANGED answers
           \/ /\ UNCHANGED command_receipts /\ cmd[t] \in Commands
              /\ \E code, r, state : Justified(cmd[t], code, r, state)
                                     /\ Answer(t, code, r, state)
<1> DEFINE c == cmd[t]
           Goal == \/ UNCHANGED answers
                   \/ /\ UNCHANGED command_receipts /\ c \in Commands
                      /\ \E code, r, state : Justified(c, code, r, state)
                                             /\ Answer(t, code, r, state)
<1>1. phase[t] # "idle" => c \in Commands
  BY DEF ServiceInv, CallInv
<1>2. IsConflict(commandIdentity(c)) => Refused(c)
  BY ConflictTaken DEF Refused, Taken, ServiceInv, InductiveInv
<1>3. ASSUME Lookup(t) PROVE Goal
  BY <1>1, <1>2, <1>3
  DEF Lookup, vars, tables, Verify, Goto, Refuse, Justified, Refusals
<1>4. ASSUME RacedLookup(t) PROVE Goal
  <2>1. /\ Late(c) /\ failure[t] \in {"KERNEL_VERSION_CONFLICT",
                                      "PERSISTENCE_OPTIMISTIC_CONCURRENCY"}
    BY <1>4 DEF RacedLookup, ServiceInv, CallInv, CallTypes
  <2>2. CommandRows(commandIdentity(c)) = {} => Refused(c)
    BY <2>1 DEF Late, Refused
  <2> QED
    BY <1>1, <1>2, <1>4, <2>1, <2>2
    DEF RacedLookup, vars, tables, Verify, Refuse, Justified, Refusals
<1>5. ASSUME ReadAndPrepare(t) PROVE Goal
  <2>1. ReplayValid(c.stream, History(c.stream))
    BY HistoryReplays DEF ServiceInv
  <2>2. ASSUME c.expectedVersion = ReplayVersion(History(c.stream)),
               ~Decides(ReplayState(History(c.stream)), c)
        PROVE  Refused(c)
    <3>1. CASE History(c.stream) = {}
      BY <2>2, <3>1 DEF Refused, Decides, ReplayState
    <3>2. CASE History(c.stream) # {}
      <4>1. PICK e \in History(c.stream) : TRUE
        BY <3>2
      <4>2. History(c.stream) = {e}
        BY <4>1, OneEvent DEF History, ServiceInv
      <4>3. c.expectedVersion = 1
        BY <2>2, <4>2, FS_Singleton DEF ReplayVersion
      <4> QED
        BY <4>3 DEF Refused
    <3> QED
      BY <3>1, <3>2
  <2> QED
    BY <1>1, <1>5, <2>1, <2>2
    DEF ReadAndPrepare, vars, tables, Refuse, Justified, Refusals
<1>6. ASSUME Receive(t) PROVE Goal
  <2>1. /\ UNCHANGED command_receipts /\ pc[t] = "reply"
        /\ phase[t] = "committing"
    BY <1>6 DEF Receive, Reply, tables
  <2>2. res[t].code \in Codes
    BY <2>1 DEF ServiceInv, InductiveInv, TypeOK, PostedOutcome, Codes
  <2>3. res[t].code = "PERSISTENCE_IDEMPOTENCY_CONFLICT" => Refused(c)
    BY <2>1 DEF ServiceInv, CallInv, Refused
  <2>4. CASE UNCHANGED answers
    BY <2>4
  <2>5. CASE /\ res[t].code \notin
                    {"COMMITTED", "PERSISTENCE_OPTIMISTIC_CONCURRENCY"}
             /\ Refuse(t, res[t].code)
    <3>1. Justified(c, res[t].code, None, None)
      BY <2>2, <2>3, <2>5 DEF Justified, Refusals, Codes
    <3> QED
      BY <1>1, <2>1, <2>5, <3>1 DEF Refuse
  <2> QED
    BY <1>6, <2>4, <2>5 DEF Receive, Verify
<1>7. ASSUME Result(t) PROVE Goal
  <2>1. Stored(c, receipt[t]) /\ c \in Commands
    BY <1>7 DEF Result, ServiceInv, CallInv
  <2>2. UNCHANGED command_receipts
    BY <1>7 DEF Result, vars, tables
  <2> DEFINE state == ReplayState({e \in History(c.stream) :
                                      e.version <= receipt[t].committedVersion})
  <2>3. ReceiptVerified(c, receipt[t]) /\ state = <<c.commandId, c.payload>>
    BY <2>1, StoredVerified DEF ServiceInv
  <2>4. Answer(t, "COMMITTED", receipt[t], state)
    BY <1>7, <2>3 DEF Result
  <2>5. Justified(c, "COMMITTED", receipt[t], state)
    BY <2>1, <2>3 DEF Justified
  <2> QED
    BY <2>1, <2>2, <2>4, <2>5
<1>8. ASSUME Crash(t) \/ TerminateForQualification(t) PROVE Goal
  <2>1. Justified(c, "PERSISTENCE_WORKER_EXITED", None, None)
    BY DEF Justified, Refusals
  <2> QED
    BY <1>1, <1>8, <2>1
    DEF Crash, TerminateForQualification, WorkerEnds, FailPending, Terminate,
        vars, tables, Refuse
<1> QED
  BY <1>3, <1>4, <1>5, <1>6, <1>7, <1>8
  DEF StepOf, Progress, Execute, Commit, WorkerStep, Reopen, svars

\* Successes stay stored, and no call ever finds a history that cannot replay.
LEMMA AnswersStep ==
    ASSUME ServiceInv, [Next]_vars, NEW t \in Workers, StepOf(t)
    PROVE  AnswersInv' /\ NeverReplayInvalid'
<1>1. /\ event_journal \subseteq event_journal'
      /\ command_receipts \subseteq command_receipts'
  BY TablesGrow DEF ServiceInv, InductiveInv
<1>2. ASSUME NEW a \in answers
      PROVE  /\ a.code # "KERNEL_REPLAY_INVALID"
             /\ a.code = "COMMITTED" =>
                   /\ a.command \in Commands /\ Stored(a.command, a.receipt)'
                   /\ a.state = <<a.command.commandId, a.command.payload>>
  <2>1. a.code = "COMMITTED" => Stored(a.command, a.receipt)
    BY DEF ServiceInv, AnswersInv, Successes
  <2>2. PICK c, r : c = a.command /\ r = a.receipt
    OBVIOUS
  <2>3. a.code = "COMMITTED" => Stored(c, r)'
    BY <1>1, <2>1, <2>2, SeenStable
  <2> QED
    BY <2>2, <2>3 DEF ServiceInv, AnswersInv, Successes, NeverReplayInvalid
<1>3. CASE UNCHANGED answers
  BY <1>2, <1>3 DEF AnswersInv, Successes, NeverReplayInvalid
<1>4. CASE /\ UNCHANGED command_receipts /\ cmd[t] \in Commands
           /\ \E code, r, state : Justified(cmd[t], code, r, state)
                                  /\ Answer(t, code, r, state)
  <2>1. PICK code, r, state : Justified(cmd[t], code, r, state)
                              /\ Answer(t, code, r, state)
    BY <1>4
  <2>2. PICK a : a = [command |-> cmd[t], code |-> code, receipt |-> r,
                      state |-> state]
    OBVIOUS
  <2>3. answers' = answers \cup {a}
    BY <2>1, <2>2 DEF Answer
  <2>4. /\ a.code # "KERNEL_REPLAY_INVALID"
        /\ a.code = "COMMITTED" =>
              /\ a.command \in Commands /\ Stored(a.command, a.receipt)
              /\ a.state = <<a.command.commandId, a.command.payload>>
    BY <1>4, <2>1, <2>2 DEF Justified, Refusals
  <2>5. a.code = "COMMITTED" => Stored(a.command, a.receipt)'
    <3>1. PICK c, q : c = a.command /\ q = a.receipt
      OBVIOUS
    <3> QED
      BY <1>1, <2>4, <3>1, SeenStable
  <2> QED
    BY <1>2, <2>3, <2>4, <2>5 DEF AnswersInv, Successes, NeverReplayInvalid
<1> QED
  BY <1>3, <1>4, AnswerJustified

\* Every step of the services keeps their inductive invariant.
LEMMA ServiceStep == ServiceInv /\ [SNext]_<<vars, svars>> => ServiceInv'
<1> SUFFICES ASSUME ServiceInv, [SNext]_<<vars, svars>> PROVE ServiceInv'
  OBVIOUS
<1>1. [Next]_vars
  BY JournalSteps
<1>2. InductiveInv' /\ EffectsInv'
  BY <1>1, InductiveStep, EffectsStep DEF ServiceInv
<1>3. CASE SNext
  <2>1. PICK t \in Workers : StepOf(t)
    BY <1>3 DEF SNext, StepOf
  <2> QED
    BY <1>1, <1>2, <2>1, CallTypesStep, CallStep, AnswersStep DEF ServiceInv
<1>4. CASE UNCHANGED <<vars, svars>>
  <2>1. UNCHANGED vars /\ UNCHANGED svars
    BY <1>4
  <2>2. UNCHANGED <<event_journal, command_receipts>>
    BY <2>1 DEF vars, tables
  <2>3. CallTypes'
    BY <2>1 DEF svars, CallTypes, ServiceInv
  <2>4. \A s \in Workers : Same(s)
    BY <2>1 DEF vars, svars, Same
  <2>5. \A s \in Workers : CallInv(s)'
    BY <2>2, <2>4, CallStable DEF ServiceInv
  <2>6. AnswersInv' /\ NeverReplayInvalid'
    BY <2>1, <2>2 DEF svars, ServiceInv, AnswersInv, Stored, Successes,
                      NeverReplayInvalid
  <2> QED
    BY <1>2, <2>3, <2>5, <2>6 DEF ServiceInv
<1> QED
  BY <1>3, <1>4

\* Nothing has been called and nothing is stored.
LEMMA ServiceInit == SInit => ServiceInv
<1> SUFFICES ASSUME SInit PROVE ServiceInv
  OBVIOUS
<1>1. InductiveInv
  BY InductiveInit DEF SInit
<1>2. EffectsInv /\ AnswersInv /\ NeverReplayInvalid
  BY DEF SInit, Init, EffectsInv, AnswersInv, Successes, NeverReplayInvalid
<1>3. MaxCalls \in Nat
  BY PreparedAssumption
<1>4. CallTypes
  <2>1. 0 \in 0..MaxCalls
    BY <1>3
  <2>2. calls \in [Workers -> 0..MaxCalls]
    BY <2>1 DEF SInit
  <2> QED
    BY <2>2 DEF SInit, CallTypes, Phases
<1>5. \A s \in Workers : CallInv(s)
  BY DEF SInit, Init, CallInv
<1> QED
  BY <1>1, <1>2, <1>4, <1>5 DEF ServiceInv

LEMMA ServiceAlways == SSpec => []ServiceInv
BY ServiceInit, ServiceStep, PTL DEF SSpec

\* The locals of execute have their types, phase by phase, in every reachable
\* state.
THEOREM ServiceTypeCorrect == SSpec => []STypeOK
<1>1. ServiceInv => STypeOK
  <2> SUFFICES ASSUME ServiceInv PROVE STypeOK
    OBVIOUS
  <2>1. phase \in [Workers -> Phases]
    BY DEF ServiceInv, CallTypes
  <2>2. ASSUME NEW s \in Workers
        PROVE  /\ IF phase[s] = "idle" THEN cmd[s] = None ELSE cmd[s] \in Commands
               /\ phase[s] = "committing" <=> pc[s] # "idle"
    BY DEF ServiceInv, CallInv
  <2>3. ASSUME NEW s \in Workers, phase[s] \in {"commit", "committing"}
        PROVE  prepared[s] \in Batches
    BY <2>3, PreparedIs
  <2>4. ASSUME NEW s \in Workers, phase[s] = "result"
        PROVE  receipt[s] \in Receipt
    <3>1. PICK row \in command_receipts : row.receipt = receipt[s]
      BY <2>4 DEF ServiceInv, CallInv, Stored
    <3>2. row \in ReceiptRow
      BY DEF ServiceInv, InductiveInv, TypeOK
    <3> QED
      BY <3>1, <3>2 DEF ReceiptRow
  <2>5. ASSUME NEW s \in Workers, phase[s] = "raced"
        PROVE  failure[s] \in Refusals
    BY <2>5 DEF ServiceInv, CallInv, CallTypes, Refusals
  <2> QED
    BY <2>1, <2>2, <2>3, <2>4, <2>5 DEF STypeOK
<1> QED
  BY <1>1, ServiceAlways, PTL

\* Whoever was told success under one identity was told one and the same
\* receipt and state, the run of their own command.
THEOREM SuccessesAgree == SSpec => []AnswersAgree
<1>1. ServiceInv => AnswersAgree
  <2> SUFFICES ASSUME ServiceInv, NEW a \in Successes, NEW b \in Successes
               PROVE  /\ a.state = <<a.command.commandId, a.command.payload>>
                      /\ \/ a.command.commandId = b.command.commandId
                         \/ /\ a.command.idempotencyKey = b.command.idempotencyKey
                            /\ a.command.stream = b.command.stream
                         => a.receipt = b.receipt /\ a.state = b.state
    BY DEF AnswersAgree
  <2>1. /\ a.command \in Commands /\ Stored(a.command, a.receipt)
        /\ a.state = <<a.command.commandId, a.command.payload>>
        /\ b.command \in Commands /\ Stored(b.command, b.receipt)
        /\ b.state = <<b.command.commandId, b.command.payload>>
    BY DEF ServiceInv, AnswersInv
  <2>2. ASSUME \/ a.command.commandId = b.command.commandId
               \/ /\ a.command.idempotencyKey = b.command.idempotencyKey
                  /\ a.command.stream = b.command.stream
        PROVE  a.receipt = b.receipt /\ a.state = b.state
    <3>1. PICK x \in command_receipts :
              SameCommand(x, commandIdentity(a.command)) /\ x.receipt = a.receipt
      BY <2>1 DEF Stored
    <3>2. PICK y \in command_receipts :
              SameCommand(y, commandIdentity(b.command)) /\ y.receipt = b.receipt
      BY <2>1 DEF Stored
    <3>3. x = y
      BY <2>2, <3>1, <3>2
      DEF SameCommand, commandIdentity, ServiceInv, InductiveInv, UniqueCommands
    <3>4. a.command = b.command
      BY <2>1, <3>1, <3>2, <3>3, OneCommand
    <3> QED
      BY <2>1, <3>1, <3>2, <3>3, <3>4
  <2> QED
    BY <2>1, <2>2
<1> QED
  BY <1>1, ServiceAlways, PTL

\* Neither prepare nor #result ever meets a history that does not replay.
THEOREM AlwaysReplays == SSpec => []NeverReplayInvalid
BY ServiceAlways, PTL DEF ServiceInv
-----------------------------------------------------------------------------
(* execute implements the ledger of commands.                              *)

\* The owner of a stream is the command whose row is stored for it.
LEMMA OwnerIs ==
    ASSUME InductiveInv, EffectsInv, NEW c \in Commands,
           NEW row \in command_receipts, SameCommand(row, commandIdentity(c))
    PROVE  OwnerOf(c.stream) = c
<1>1. row.effectScope = c.stream /\ row.payloadHash = canonicalJsonSha256(c)
  BY DEF SameCommand, commandIdentity
<1>2. {x \in command_receipts : x.effectScope = c.stream} = {row}
  BY <1>1, OneRow
<1>3. \A d \in Commands : row.payloadHash = canonicalJsonSha256(d) => d = c
  BY <1>1, HashInjective
<1>4. (CHOOSE d \in Commands : \E x \in {row} :
           x.payloadHash = canonicalJsonSha256(d)) = c
  BY <1>1, <1>3
<1> QED
  BY <1>2, <1>4 DEF OwnerOf, OwnerAmong

\* An owner has its row, and its stream an event.
LEMMA OwnerWhose ==
    ASSUME InductiveInv, EffectsInv, NEW stream, OwnerOf(stream) # None
    PROVE  \E c \in Commands, row \in command_receipts :
               /\ c = OwnerOf(stream) /\ c.stream = stream
               /\ SameCommand(row, commandIdentity(c))
               /\ History(stream) # {} /\ c.expectedVersion = 0
<1>1. PICK row \in command_receipts : row.effectScope = stream
  BY DEF OwnerOf, OwnerAmong
<1>2. PICK c \in Commands, e \in event_journal : EffectOf(c, row, e)
  BY DEF EffectsInv
<1>3. SameCommand(row, commandIdentity(c)) /\ c.stream = stream
  BY <1>1, <1>2 DEF EffectOf, SameCommand, commandIdentity
<1>4. OwnerOf(stream) = c
  BY <1>3, OwnerIs
<1>5. e \in History(stream) /\ c.expectedVersion = 0
  BY <1>2, <1>3 DEF EffectOf, History
<1> QED
  BY <1>3, <1>4, <1>5

\* A stream with an event has an owner.
LEMMA OwnerThere ==
    ASSUME InductiveInv, EffectsInv, NEW stream, History(stream) # {}
    PROVE  \E c \in Commands, row \in command_receipts :
               /\ c = OwnerOf(stream) /\ c.stream = stream
               /\ SameCommand(row, commandIdentity(c))
<1>1. PICK e \in event_journal : e.stream = stream
  BY DEF History
<1>2. PICK c \in Commands, row \in command_receipts : EffectOf(c, row, e)
  BY DEF EffectsInv
<1>3. SameCommand(row, commandIdentity(c)) /\ c.stream = stream
  BY <1>1, <1>2 DEF EffectOf
<1> QED
  BY <1>3, OwnerIs

\* A stored command is applied in the ledger.
LEMMA StoredApplied ==
    ASSUME InductiveInv, EffectsInv, NEW c \in Commands, NEW r, Stored(c, r)
    PROVE  Ledger!Applied(c)
<1>1. OwnerOf(c.stream) = c
  BY OwnerIs DEF Stored
<1> QED
  BY <1>1 DEF Ledger!Applied, Effect

\* A command refused for a reason is hopeless in the ledger, and not applied.
LEMMA RefusedHopeless ==
    ASSUME InductiveInv, EffectsInv, NEW c \in Commands, Refused(c)
    PROVE  Ledger!Hopeless(c) /\ ~Ledger!Applied(c)
<1> DEFINE streams == {d.stream : d \in Commands}
<1>1. c \in Command /\ c # None /\ c.stream \in streams
  BY CommandsAssumption
<1>2. Effect[c.stream] = OwnerOf(c.stream)
  BY <1>1 DEF Effect
<1>3. ASSUME OwnerOf(c.stream) = c
      PROVE  /\ c.expectedVersion = 0 /\ ~Taken(c)
             /\ CommandRows(commandIdentity(c)) # {}
  <2>1. PICK row \in command_receipts :
            SameCommand(row, commandIdentity(c)) /\ c.expectedVersion = 0
    BY <1>1, <1>3, OwnerWhose
  <2>2. row \in CommandRows(commandIdentity(c))
    BY <2>1 DEF CommandRows, SameCommand
  <2>3. \A x \in CommandRows(commandIdentity(c)) : x = row
    BY <2>1 DEF CommandRows, SameCommand, InductiveInv, UniqueCommands
  <2> QED
    BY <2>1, <2>2, <2>3 DEF Taken
<1>4. ~Ledger!Applied(c)
  BY <1>2, <1>3 DEF Ledger!Applied, Refused
<1>5. CASE c.expectedVersion # 0
  BY <1>4, <1>5 DEF Ledger!Hopeless
<1>6. CASE CommandRows(commandIdentity(c)) = {} /\ History(c.stream) # {}
  <2>1. OwnerOf(c.stream) \in Commands
    BY <1>6, OwnerThere
  <2>2. OwnerOf(c.stream) # None
    BY <2>1, CommandsAssumption
  <2>3. Effect[c.stream] \notin {None, c}
    BY <1>2, <1>3, <1>6, <2>2
  <2> QED
    BY <1>4, <2>3 DEF Ledger!Hopeless
<1>7. CASE Taken(c)
  <2>1. PICK row \in command_receipts :
            /\ ~SameCommand(row, commandIdentity(c))
            /\ \/ row.commandId = c.commandId
               \/ row.idempotencyKey = c.idempotencyKey /\ row.effectScope = c.stream
    BY <1>7 DEF Taken, CommandRows, commandIdentity
  <2>2. PICK d \in Commands, e \in event_journal : EffectOf(d, row, e)
    BY DEF EffectsInv
  <2>3. SameCommand(row, commandIdentity(d))
    BY <2>2 DEF EffectOf
  <2>4. OwnerOf(d.stream) = d
    BY <2>3, OwnerIs
  <2>5. d # c /\ d # None /\ d.stream \in streams
    BY <2>1, <2>3, CommandsAssumption
  <2>6. Effect[d.stream] = d
    BY <2>4, <2>5 DEF Effect
  <2>7. \/ c.commandId = d.commandId
        \/ c.idempotencyKey = d.idempotencyKey /\ c.stream = d.stream
    BY <2>1, <2>3 DEF SameCommand, commandIdentity
  <2>8. Ledger!Clash(c, Effect[d.stream])
    BY <2>5, <2>6, <2>7 DEF Ledger!Clash
  <2> QED
    BY <1>4, <2>5, <2>6, <2>8 DEF Ledger!Hopeless, Ledger!Streams
<1> QED
  BY <1>4, <1>5, <1>6, <1>7 DEF Refused
\* The COMMIT of a batch is the moment its command takes effect.
LEMMA ApplyMaps ==
    ASSUME ServiceInv, NEW t \in Workers, CommitApply(t), UNCHANGED svars
    PROVE  \E c \in Commands : Ledger!Apply(c)
<1> DEFINE streams == {d.stream : d \in Commands}
<1>1. PICK b, c : b = cur[t] /\ c = cmd[t]
  OBVIOUS
<1>2. phase[t] = "committing" /\ Accepts(b)
  BY <1>1 DEF CommitApply, ServiceInv, CallInv, InductiveInv, AcceptInv
<1>3. b = prepare(c, {}, createId(t)) /\ c \in Commands /\ c.expectedVersion = 0
  BY <1>1, <1>2, PreparedIs DEF ServiceInv, CallInv
<1>4. /\ CommandRows(commandIdentity(c)) = {}
      /\ CurrentVersion(c.stream) = 0
  BY <1>2, <1>3, PrepareShape DEF Accepts
<1>5. c \in Command /\ c.stream \in streams /\ c.stream \in Ids /\ c # None
  BY <1>3, CommandsAssumption DEF Command
<1>6. History(c.stream) = {}
  <2>1. Versions(c.stream) = 1..0
    BY <1>4, <1>5 DEF ServiceInv, InductiveInv, StreamsDense
  <2>2. 1..0 = {}
    OBVIOUS
  <2> QED
    BY <2>1, <2>2 DEF Versions, History
<1>7. OwnerOf(c.stream) = None
  BY <1>6, OwnerWhose DEF ServiceInv
<1>8. Effect[c.stream] = None
  BY <1>5, <1>7 DEF Effect
<1>9. ASSUME NEW stream \in streams, Effect[stream] # None,
             Ledger!Clash(c, Effect[stream])
      PROVE  FALSE
  <2>1. Effect[stream] = OwnerOf(stream)
    BY <1>9 DEF Effect
  <2>2. PICK d \in Commands, row \in command_receipts :
            d = OwnerOf(stream) /\ SameCommand(row, commandIdentity(d))
    BY <1>9, <2>1, OwnerWhose DEF ServiceInv
  <2>3. row \in CommandRows(commandIdentity(c))
    BY <1>9, <2>1, <2>2
    DEF Ledger!Clash, CommandRows, commandIdentity, SameCommand
  <2> QED
    BY <1>4, <2>3
<1>10. ~Ledger!Hopeless(c)
  BY <1>3, <1>8, <1>9 DEF Ledger!Hopeless, Ledger!Streams
<1>11. PICK row : row = ReceiptRowOf(b)
  OBVIOUS
<1>12. /\ command_receipts' = command_receipts \cup {row}
       /\ row.effectScope = c.stream /\ row.payloadHash = canonicalJsonSha256(c)
  BY <1>1, <1>3, <1>11, PrepareShape DEF CommitApply, ReceiptRowOf
<1>13. {x \in command_receipts : x.effectScope = c.stream} = {}
  <2> SUFFICES ASSUME NEW x \in command_receipts, x.effectScope = c.stream
               PROVE  FALSE
    OBVIOUS
  <2>1. PICK d \in Commands, e \in event_journal : EffectOf(d, x, e)
    BY DEF ServiceInv, EffectsInv
  <2>2. e \in History(c.stream)
    BY <2>1 DEF EffectOf, History, SameCommand, commandIdentity
  <2> QED
    BY <1>6, <2>2
<1>14. OwnerOf(c.stream)' = c
  <2>1. {x \in command_receipts' : x.effectScope = c.stream} = {row}
    BY <1>12, <1>13
  <2>2. \A d \in Commands : row.payloadHash = canonicalJsonSha256(d) => d = c
    BY <1>3, <1>12, HashInjective
  <2>3. (CHOOSE d \in Commands : \E x \in {row} :
             x.payloadHash = canonicalJsonSha256(d)) = c
    BY <1>3, <1>12, <2>2
  <2> QED
    BY <2>1, <2>3 DEF OwnerOf, OwnerAmong
<1>15. ASSUME NEW stream, stream # c.stream
       PROVE  OwnerOf(stream)' = OwnerOf(stream)
  <2>1. {x \in command_receipts' : x.effectScope = stream}
            = {x \in command_receipts : x.effectScope = stream}
    BY <1>12, <1>15
  <2> QED
    BY <2>1 DEF OwnerOf
<1>16. Effect' = [Effect EXCEPT ![c.stream] = c]
  BY <1>14, <1>15 DEF Effect
<1>17. Told' = Told
  BY DEF svars, Told, Successes
<1> QED
  BY <1>3, <1>8, <1>10, <1>16, <1>17 DEF Ledger!Apply

\* Any other step that gives an answer tells the truth of the ledger; the rest
\* change nothing in it.
LEMMA TellMaps ==
    ASSUME ServiceInv, NEW t \in Workers, StepOf(t), UNCHANGED command_receipts
    PROVE  \/ \E c \in Commands : Ledger!Tell(c)
           \/ UNCHANGED <<Effect, Told>>
<1>1. Effect' = Effect
  BY DEF Effect, OwnerOf
<1>2. CASE UNCHANGED answers
  BY <1>1, <1>2 DEF Told, Successes
<1>3. CASE /\ cmd[t] \in Commands
           /\ \E code, r, state : Justified(cmd[t], code, r, state)
                                  /\ Answer(t, code, r, state)
  <2>1. PICK c, code, r, state :
            /\ c = cmd[t] /\ Justified(c, code, r, state)
            /\ Answer(t, code, r, state)
    BY <1>3
  <2>2. PICK a : a = [command |-> c, code |-> code, receipt |-> r,
                      state |-> state]
    OBVIOUS
  <2>3. answers' = answers \cup {a} /\ a.command = c /\ a.code = code
    BY <2>1, <2>2 DEF Answer
  <2>4. CASE code = "COMMITTED"
    <3>1. Ledger!Applied(c)
      BY <1>3, <2>1, <2>4, StoredApplied DEF ServiceInv, Justified, Refusals
    <3>2. Told' = Told \cup {<<c, "applied">>}
      BY <2>3, <2>4 DEF Told, Successes, Refusals
    <3> QED
      BY <1>1, <1>3, <2>1, <3>1, <3>2 DEF Ledger!Tell
  <2>5. CASE code \in Refusals
    <3>1. Ledger!Hopeless(c) /\ ~Ledger!Applied(c)
      BY <1>3, <2>1, <2>5, RefusedHopeless DEF ServiceInv, Justified, Refusals
    <3>2. Told' = Told \cup {<<c, "refused">>}
      BY <2>3, <2>5 DEF Told, Successes, Refusals
    <3> QED
      BY <1>1, <1>3, <2>1, <3>1, <3>2 DEF Ledger!Tell
  <2>6. CASE code \notin Refusals \cup {"COMMITTED"}
    <3>1. Told' = Told
      BY <2>3, <2>6 DEF Told, Successes, Refusals
    <3> QED
      BY <1>1, <3>1
  <2> QED
    BY <2>4, <2>5, <2>6
<1> QED
  BY <1>2, <1>3, AnswerJustified

\* Every step of the services is a step of the ledger, or changes nothing in it.
LEMMA LedgerStep ==
    ServiceInv /\ [SNext]_<<vars, svars>> => [Ledger!Next]_<<Effect, Told>>
<1> SUFFICES ASSUME ServiceInv, [SNext]_<<vars, svars>>
             PROVE  [Ledger!Next]_<<Effect, Told>>
  OBVIOUS
<1>1. CASE UNCHANGED <<vars, svars>>
  BY <1>1 DEF vars, tables, svars, Effect, OwnerOf, Told, Successes
<1>2. ASSUME NEW t \in Workers, StepOf(t), UNCHANGED command_receipts
      PROVE  [Ledger!Next]_<<Effect, Told>>
  BY <1>2, TellMaps DEF Ledger!Next
<1>3. ASSUME NEW t \in Workers, CommitApply(t), UNCHANGED svars
      PROVE  [Ledger!Next]_<<Effect, Told>>
  BY <1>3, ApplyMaps DEF Ledger!Next
<1>4. ASSUME NEW t \in Workers, StepOf(t)
      PROVE  UNCHANGED command_receipts \/ (CommitApply(t) /\ UNCHANGED svars)
  BY <1>4
  DEF StepOf, Progress, Execute, Lookup, ReadAndPrepare, Commit, WorkerStep,
      Receive, RacedLookup, Result, Crash, TerminateForQualification, WorkerEnds,
      Reopen, vars, tables, CommitLookup,
      CommitBegin, CommitDuplicate, CommitRollback, CommitCheck, Reply,
      Terminate, Open
<1>5. CASE SNext
  <2>1. PICK t \in Workers : StepOf(t)
    BY <1>5 DEF SNext, StepOf
  <2> QED
    BY <1>2, <1>3, <1>4, <2>1
<1> QED
  BY <1>1, <1>5

\* execute implements the ledger of commands: whatever is interleaved, retried
\* or terminated, a command takes effect at most once, and applied or refused
\* are truths.
THEOREM ServiceImplementsLedger == SSpec => ImplementsLedger
<1>1. ASSUME SInit PROVE Ledger!Init
  <2>1. command_receipts = {} /\ answers = {}
    BY <1>1 DEF SInit, Init
  <2>2. \A stream : OwnerOf(stream) = None
    BY <2>1 DEF OwnerOf, OwnerAmong
  <2>3. Effect = [stream \in {c.stream : c \in Commands} |-> None]
    BY <2>2 DEF Effect
  <2>4. Told = {}
    BY <2>1 DEF Told, Successes
  <2> QED
    BY <2>3, <2>4 DEF Ledger!Init, Ledger!Streams
<1> QED
  BY <1>1, ServiceAlways, LedgerStep, PTL DEF SSpec, ImplementsLedger, Ledger!Spec

=============================================================================
