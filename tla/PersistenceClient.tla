------------------------- MODULE PersistenceClient -------------------------
(***************************************************************************)
(* The main-thread side of packages/persistence (class PersistenceWorker): *)
(* requests are posted to the worker thread, kept in #pending until their  *)
(* reply, and failed when the worker is gone.  The worker answers its      *)
(* requests one after another and closes its port after a close.  What a   *)
(* request does to the database is module Journal's matter.                *)
(***************************************************************************)
EXTENDS Integers, Sequences, FiniteSets, SequencesExt

CONSTANTS Requests,      \* calls of #request on one open instance
          Closers,       \* the ones among them that close() makes
          MaxQueueDepth, \* the option of the same name
          CanCrash       \* whether the worker thread may die by an error

ASSUME ClientAssumption ==
    Closers \subseteq Requests /\ MaxQueueDepth \in Nat \ {0}
    /\ CanCrash \in BOOLEAN

VARIABLES
    state,   \* of each call: "new", "pending", "resolved" or its error code
    id,      \* the request id of each call, 0 before it is posted
    nextId,  \* #nextRequestId
    pending, \* #pending
    closed,  \* #closed
    closing, \* close() has its reply and has not gone on yet
    toWorker, toMain, \* the messages in flight, oldest first
    worker,  \* "running", "portClosed" or "exited"
    killed,  \* worker.terminate() has been called
    failed,  \* an error event is on its way to the main thread
    exit,    \* the code of the exit event on its way, -1 for none
    handled  \* history: the requests the worker has executed

main == <<state, id, nextId, pending, closed, closing>>
thread == <<worker, killed, failed, exit, handled>>
clientVars == <<main, toWorker, toMain, thread>>

ClientInit ==
    /\ state = [r \in Requests |-> "new"]
    /\ id = [r \in Requests |-> 0]
    /\ nextId = 1
    /\ pending = {} /\ closed = FALSE /\ closing = FALSE
    /\ toWorker = <<>> /\ toMain = <<>>
    /\ worker = "running" /\ killed = FALSE /\ failed = FALSE /\ exit = -1
    /\ handled = {}
-----------------------------------------------------------------------------
(* The main thread.                                                        *)

\* The call is rejected and leaves nothing behind.
Reject(r, code) ==
    /\ state' = [state EXCEPT ![r] = code]
    /\ UNCHANGED <<id, nextId, pending, toWorker>>

QueueFull == Cardinality(pending) >= MaxQueueDepth

\* #request, after #ready; close() looks at #closed before #request does, and
\* goes on in the microtask its reply queued, with no call in between.
\* postMessage to a worker that is gone is ignored.
Request(r) ==
    /\ state[r] = "new" /\ ~closing
    /\ \/ closed /\ r \in Closers /\ Reject(r, "resolved")
       \/ closed /\ Reject(r, "PERSISTENCE_CLOSED")
       \/ /\ ~closed /\ QueueFull
          /\ Reject(r, "PERSISTENCE_QUEUE_FULL")
       \/ /\ ~closed /\ ~QueueFull
          /\ state' = [state EXCEPT ![r] = "pending"]
          /\ id' = [id EXCEPT ![r] = nextId]
          /\ nextId' = nextId + 1
          /\ pending' = pending \cup {r}
          /\ toWorker' = IF worker = "exited" THEN toWorker
                         ELSE Append(toWorker, r)
    /\ UNCHANGED <<closed, closing, toMain, thread>>

\* A reply settles its pending call and is dropped when there is none; the
\* reply of close() lets it go on.
OnMessage ==
    /\ toMain # <<>>
    /\ LET m == Head(toMain) IN
       /\ pending' = pending \ {m.request}
       /\ state' = IF m.request \in pending
                   THEN [state EXCEPT ![m.request] = m.answer] ELSE state
       /\ closing' = (closing \/ (/\ m.request \in pending \cap Closers
                                  /\ m.answer = "resolved"))
    /\ toMain' = Tail(toMain)
    /\ UNCHANGED <<id, nextId, closed, toWorker, thread>>

\* close() after its reply.
CloseGoesOn ==
    /\ closing
    /\ closing' = FALSE /\ closed' = TRUE /\ killed' = TRUE
    /\ UNCHANGED <<state, id, nextId, pending, toWorker, toMain,
                   worker, failed, exit, handled>>

\* #failPending.
FailPending ==
    /\ pending' = {}
    /\ state' = [r \in Requests |->
                    IF r \in pending THEN "PERSISTENCE_WORKER_EXITED"
                    ELSE state[r]]
    /\ UNCHANGED <<id, nextId, closing>>

\* terminateForQualification.
Terminate ==
    /\ ~closed
    /\ closed' = TRUE /\ killed' = TRUE
    /\ FailPending
    /\ UNCHANGED <<toWorker, toMain, worker, failed, exit, handled>>

\* Mutant of OnExit: only the error listener fails what is pending.
OnExitIgnored ==
    /\ exit # -1 /\ ~failed /\ toMain = <<>>
    /\ exit' = -1
    /\ UNCHANGED <<main, toWorker, toMain, worker, killed, failed, handled>>

\* The error and the exit listeners; messages are delivered before an exit.
OnError ==
    /\ failed
    /\ failed' = FALSE
    /\ FailPending
    /\ UNCHANGED <<closed, toWorker, toMain, worker, killed, exit, handled>>
OnExit ==
    /\ exit # -1 /\ ~failed /\ toMain = <<>>
    /\ exit' = -1
    /\ IF closed /\ exit = 0 THEN UNCHANGED main
       ELSE FailPending /\ UNCHANGED closed
    /\ UNCHANGED <<toWorker, toMain, worker, killed, failed, handled>>
-----------------------------------------------------------------------------
(* The worker thread.                                                      *)

\* Mutant of NextRequest: a close overtakes the requests that came before it.
CloseFirst ==
    LET closers == {i \in DOMAIN toWorker : toWorker[i] \in Closers}
    IN IF closers = {} THEN 1 ELSE CHOOSE i \in closers : TRUE
\* The serial chain takes the requests in the order of their messages.
NextRequest == 1

\* One request of the serial chain succeeds or throws.  A close that succeeds
\* closes the port after its reply, and a closed port sends nothing any more.
Handle ==
    LET r == toWorker[NextRequest] IN
    /\ worker # "exited" /\ toWorker # <<>>
    /\ toWorker' = RemoveAt(toWorker, NextRequest)
    /\ handled' = IF worker = "running" THEN handled \cup {r} ELSE handled
    /\ \E answer \in {"resolved", "PERSISTENCE_STORAGE_FAILURE"} :
          /\ toMain' = IF worker = "portClosed" THEN toMain
                       ELSE Append(toMain, [request |-> r, answer |-> answer])
          /\ worker' = IF r \in Closers /\ answer = "resolved" THEN "portClosed"
                       ELSE worker
    /\ UNCHANGED <<main, killed, failed, exit>>

\* The thread ends: by itself once its port is closed, by terminate(), or by
\* an error nobody caught.
End(code) ==
    /\ worker' = "exited" /\ exit' = code /\ toWorker' = <<>>
    /\ UNCHANGED <<main, toMain, killed, handled>>
ExitByItself ==
    worker = "portClosed" /\ toWorker = <<>> /\ End(0) /\ UNCHANGED failed
Terminated ==
    worker # "exited" /\ killed /\ End(1) /\ UNCHANGED failed
ThreadDies ==
    CanCrash /\ worker # "exited" /\ End(1) /\ failed' = TRUE

Progress ==
    \/ OnMessage \/ CloseGoesOn \/ OnError \/ OnExit
    \/ Handle \/ ExitByItself \/ Terminated

ClientNext == Progress \/ Terminate \/ ThreadDies \/ \E r \in Requests : Request(r)

\* Both event loops run, and terminate() takes effect.
ClientSpec ==
    /\ ClientInit /\ [][ClientNext]_clientVars
    /\ WF_clientVars(OnMessage) /\ WF_clientVars(CloseGoesOn)
    /\ WF_clientVars(OnError) /\ WF_clientVars(OnExit)
    /\ WF_clientVars(Handle) /\ WF_clientVars(ExitByItself \/ Terminated)
-----------------------------------------------------------------------------
(* Properties.                                                             *)

CallErrors ==
    {"PERSISTENCE_CLOSED", "PERSISTENCE_QUEUE_FULL",
     "PERSISTENCE_WORKER_EXITED", "PERSISTENCE_STORAGE_FAILURE"}

\* Backpressure: what waits in the facade, in flight and in the worker together
\* never exceeds the queue depth, whatever errors, replies and exits are late.
QueueBounded ==
    Cardinality(pending \cup ToSet(toWorker)) <= MaxQueueDepth
        \/ closed \/ worker = "exited"

\* A reply of the worker to a request.
Message == [request : Requests,
            answer : {"resolved", "PERSISTENCE_STORAGE_FAILURE"}]

\* Every variable has its type, #pending holds the calls that wait, and the
\* queue is bounded.
TypeOK ==
    /\ state \in [Requests -> {"new", "pending", "resolved"} \cup CallErrors]
    /\ id \in [Requests -> Nat] /\ nextId \in Nat \ {0}
    /\ pending = {r \in Requests : state[r] = "pending"}
    /\ {closed, closing, killed, failed} \subseteq BOOLEAN
    /\ toWorker \in Seq(Requests) /\ toMain \in Seq(Message)
    /\ worker \in {"running", "portClosed", "exited"}
    /\ exit \in -1..1 /\ handled \subseteq Requests
    /\ QueueBounded

\* close() drains: when it returns, every request posted before it has been
\* settled by its own reply.
CloseDrains ==
    \A c \in Closers, r \in Requests :
        /\ state[c] = "resolved" /\ id[c] > 0
        /\ id[r] > 0 /\ id[r] < id[c]
        => r \in handled /\ state[r] # "pending"

\* A caller told PERSISTENCE_CLOSED or PERSISTENCE_QUEUE_FULL may retry: its
\* request was not executed and never will be; and a caller with an answer of
\* the worker had its request executed.
RefusalsDefinite ==
    \A r \in Requests :
        /\ state[r] \in {"PERSISTENCE_CLOSED", "PERSISTENCE_QUEUE_FULL"} =>
              r \notin handled \cup ToSet(toWorker)
        /\ state[r] = "PERSISTENCE_STORAGE_FAILURE" => r \in handled

\* What a settled call tells its caller is so, and the queue keeps its bound.
CallsDefinite == CloseDrains /\ RefusalsDefinite /\ QueueBounded

\* No call is left unsettled: every posted request is answered or rejected.
RequestsSettle == \A r \in Requests : state[r] = "pending" ~> state[r] # "pending"

\* The same, for calls made while the worker runs and no close() is under way:
\* replies, a termination and a crash each settle every one of them.
Abandoned(r) ==
    \/ \E c \in Closers : id[c] > 0 /\ id[r] > id[c]
    \/ worker = "exited" /\ exit = -1 /\ ~failed
OpenRequestsSettle ==
    \A r \in Requests :
        state[r] = "pending" /\ ~Abandoned(r) ~> state[r] # "pending"
=============================================================================
