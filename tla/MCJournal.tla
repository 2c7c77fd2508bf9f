----------------------------- MODULE MCJournal -----------------------------
(* Bounded instance of Journal: batches that retry, race, reuse identities  *)
(* and fail half way through their inserts.                                 *)
EXTENDS Journal

CONSTANTS w1, w2,
          A, B,                          \* streams
          c1, c2, c3, c4, k1, k2, k3, k4, h1, h2, h3, h4, h5, \* identities
          e1, e2, e3, e4, e5, e6, t1, t2, a1, a2, a3,
          x1, x2                         \* worker results

MCWorkers == {w1, w2}
MCIds == {A, B, c1, c2, c3, c4, k1, k2, k3, k4, h1, h2, h3, h4, h5,
          e1, e2, e3, e4, e5, e6, t1, t2, a1, a2, a3, x1, x2}

Event(id, stream, version, cause) ==
    [eventId |-> id, stream |-> stream, version |-> version,
     payload |-> h1, payloadHashOk |-> TRUE, causationId |-> cause]
Task(id, key) == [taskId |-> id, idempotencyKey |-> key, effectScope |-> A,
                  payloadHashOk |-> TRUE]

\* Creates stream A with two events and a task.
Create == [commandId |-> c1, idempotencyKey |-> k1, effectScope |-> A,
           payloadHash |-> h1, transactionId |-> c1, stream |-> A,
           expectedVersion |-> 0,
           events |-> <<Event(e1, A, 1, c1), Event(e2, A, 2, c1)>>,
           outbox |-> <<Task(t1, k1)>>, audit |-> <<a1>>]
\* The same command prepared again by a retry, with fresh event and audit ids.
Retry == [Create EXCEPT !.events = <<Event(e3, A, 1, c1), Event(e4, A, 2, c1)>>,
                        !.audit = <<a2>>, !.transactionId = c2]
\* Another command racing for version 1 of A, with its own task.
Rival == [commandId |-> c2, idempotencyKey |-> k2, effectScope |-> A,
          payloadHash |-> h2, transactionId |-> c2, stream |-> A,
          expectedVersion |-> 0, events |-> <<Event(e5, A, 1, c2)>>,
          outbox |-> <<Task(t2, k2)>>, audit |-> <<a3>>]
\* The command id of Create with another payload and another key.
Reused == [Rival EXCEPT !.commandId = c1, !.payloadHash = h3]
\* Extends A after Create; its task repeats the id of Create's task.
SameTaskAgain == [Create EXCEPT !.commandId = c3, !.idempotencyKey = k3,
                  !.payloadHash = h4, !.expectedVersion = 2,
                  !.events = <<Event(e6, A, 3, c3)>>, !.audit = <<a2>>,
                  !.outbox = <<Task(t1, k3)>>]
\* Fails on its second event, whose hash is wrong, after inserting the first.
Torn == [Rival EXCEPT !.commandId = c4, !.idempotencyKey = k4,
         !.payloadHash = h5, !.stream = B, !.outbox = <<>>,
         !.events = <<Event(e5, B, 1, c4),
                      [Event(e6, B, 2, c4) EXCEPT !.payloadHashOk = FALSE]>>]
\* Extends A after Rival, but claims an audit id that Create may have used.
Extend == [Rival EXCEPT !.commandId = c4, !.idempotencyKey = k4,
           !.payloadHash = h5, !.expectedVersion = 1, !.outbox = <<>>,
           !.events = <<Event(e6, A, 2, c4)>>, !.audit = <<a1>>]

MCBatches == {Create, Retry, Rival, Reused, SameTaskAgain, Torn, Extend}
MCInbox == {[resultId |-> x1, taskId |-> t1, payloadHash |-> h1],
            [resultId |-> x2, taskId |-> t1, payloadHash |-> h1]}
MCCheckpoints == {[projectionName |-> A, sourceSequence |-> n] : n \in 0..1}
=============================================================================
