-------------------------- MODULE ControlRequests --------------------------
(***************************************************************************)
(* The request handler of the Control API server (packages/platform/src/   *)
(* server.ts, createRequestHandler) with the idempotency registry, the     *)
(* authentication-failure window and the stop route.  A request runs in    *)
(* one step up to its only await (the body), and in one step after it;     *)
(* its timer, the flushing of its response, the end of its connection and  *)
(* the stop of the runtime come in between in any order.  Operation ids,   *)
(* fresh UUIDs in the code, are consecutive numbers.  What an event stream *)
(* carries is module EventStream's matter.                                 *)
(***************************************************************************)
EXTENDS Integers, Sequences, FiniteSets

CONSTANTS
    Requests,       \* the requests that reach the server
    Queries,        \* what a request may ask, see Query
    Keys, Remotes,  \* idempotency keys, remote addresses
    MaxConcurrentRequests, IdempotencyCapacity, IdempotencyTtl,
    AuthFailureCapacity, AuthFailureWindow, SseConnectionCapacity,
    RemoteCapacity, \* the addresses the failure window remembers
    MaxTime         \* bound on the clock

(* flaw is the first check the request fails: its URL is too long, it is   *)
(* refused for its target (host, origin, query, preflight) or answered as  *)
(* a preflight, its token, body or content type is wrong; key and match    *)
(* are its Idempotency-Key and If-Match headers.                           *)
Query == [flaw : {"none", "url", "host", "origin", "query", "preflight",
                  "options", "auth", "body", "size", "type"},
          route : {"version", "endpoint", "health", "doctor", "status",
                   "events", "stop", "unknown"},
          key : Keys \cup {"none"},
          match : {"none", "other", "instance"},
          remote : Remotes]

ASSUME RequestsAssumption ==
    /\ Queries \subseteq Query
    /\ \A limit \in {MaxConcurrentRequests, IdempotencyCapacity,
                     IdempotencyTtl, AuthFailureCapacity, AuthFailureWindow,
                     SseConnectionCapacity, RemoteCapacity} :
          limit \in Nat \ {0}
    /\ MaxTime \in Nat

VARIABLES
    ask,            \* what each request that is reading has asked
    run,            \* of each request: "idle", "reading" its body or "over"
    sent,           \* the statuses of the responses written for a request
    wire,           \* its response: "open", "flushed" or "closed"
    timer,          \* the requests whose timer is armed
    timedOut, slotOwned, \* the variables of the handler, as sets of requests
    stopOnFinish,   \* the requests whose "finish" will request the stop
    activeRequests, \* state.activeRequests
    streams,        \* state.eventConnections
    entries,        \* #entries of the idempotency registry, see Room
    authFailures,   \* state.authFailures, oldest first
    finding,        \* state.securityFindingExpiresAt, 0 without a finding
    stopDue,        \* setImmediate(requestStop) is queued
    stopped,        \* who stopped the runtime: "none", "route" or "owner"
    clock,          \* Date.now()
    accepted,       \* history: the stops answered with 202
    limitedAt       \* history: when a request was last refused with 429

perRequest == <<ask, run, sent, wire, timer, timedOut, stopOnFinish>>
slots == <<slotOwned, activeRequests>>
auth == <<authFailures, finding, limitedAt>>
idempotency == <<entries, accepted>>
stopping == <<stopDue, stopped>>
vars == <<perRequest, slots, streams, idempotency, auth, stopping, clock>>

Init ==
    /\ ask = [r \in Requests |-> {}]
    /\ run = [r \in Requests |-> "idle"]
    /\ sent = [r \in Requests |-> <<>>]
    /\ wire = [r \in Requests |-> "open"]
    /\ timer = {} /\ timedOut = {} /\ slotOwned = {} /\ stopOnFinish = {}
    /\ activeRequests = 0 /\ streams = {}
    /\ entries = {} /\ authFailures = <<>> /\ finding = 0
    /\ stopDue = FALSE /\ stopped = "none" /\ clock = 0
    /\ accepted = <<>> /\ limitedAt = -1
-----------------------------------------------------------------------------
(* The idempotency registry.                                               *)

\* Mutant of Prune: an entry expires a moment early.
PruneEarly(E) == {e \in E : e.expiresAt > clock + 1}
\* #prune: what has expired is dropped.
Prune(E) == {e \in E : e.expiresAt > clock}

\* lookup: the operation recorded for the key, as a set.  Every stop of one
\* runtime has the same payload, so the outcome is never CONFLICT.
Lookup(key) == {e.operation : e \in {f \in Prune(entries) : f.key = key}}

\* The oldest entries make room for one more.  The Map keeps them as they
\* were inserted: of two entries the older has the smaller operation.
Room(E) ==
    LET begun == {e.operation : e \in E}
    IN  {e \in E : Cardinality({o \in begun : o > e.operation})
                       < IdempotencyCapacity - 1}

\* record: a repetition leaves the entry, its place and its expiry alone.
Record(key, operation) ==
    entries' = IF Lookup(key) # {} THEN Prune(entries)
               ELSE Room(Prune(entries))
                       \cup {[key |-> key, operation |-> operation,
                              expiresAt |-> clock + IdempotencyTtl]}
-----------------------------------------------------------------------------
(* The authentication-failure window.                                      *)

Window(remote) ==
    {e \in {authFailures[i] : i \in DOMAIN authFailures} :
        e.remote = remote /\ e.resetAt > clock}

\* Map.set: a known address keeps its place.
Put(s, entry) ==
    IF \E i \in DOMAIN s : s[i].remote = entry.remote
    THEN [i \in DOMAIN s |-> IF s[i].remote = entry.remote THEN entry
                             ELSE s[i]]
    ELSE Append(s, entry)

FailureCount(remote) ==
    1 + IF Window(remote) = {} THEN 0
        ELSE (CHOOSE e \in Window(remote) : TRUE).count

\* registerAuthFailure: a new window, which may push out the oldest address,
\* or one more failure in the current one.
RegisterAuthFailure(remote) ==
    authFailures' =
        IF Window(remote) = {}
        THEN Put(IF Len(authFailures) >= RemoteCapacity
                 THEN Tail(authFailures) ELSE authFailures,
                 [remote |-> remote, count |-> 1,
                  resetAt |-> clock + AuthFailureWindow])
        ELSE Put(authFailures,
                 [CHOOSE e \in Window(remote) : TRUE EXCEPT !.count = @ + 1])

\* A refusal is reported when no finding is, or the one there has expired.
NeedsFinding == finding <= clock

RefuseToken(remote) ==
    LET limited == FailureCount(remote) > AuthFailureCapacity IN
    /\ RegisterAuthFailure(remote)
    /\ finding' = IF limited /\ NeedsFinding
                  THEN clock + AuthFailureWindow ELSE finding
    /\ limitedAt' = IF limited THEN clock ELSE limitedAt

\* securityFindings: reading the findings drops the expired one.
SecurityFindings ==
    /\ finding' = IF finding <= clock THEN 0 ELSE finding
    /\ UNCHANGED <<authFailures, limitedAt>>
-----------------------------------------------------------------------------
(* The arrival of a request, up to the await of its body.                  *)

\* Mutant of ReleaseSlot: the slot is given back whoever owns it.
ReleaseSlotTwice(R) ==
    /\ slotOwned' = slotOwned \ R
    /\ activeRequests' = activeRequests - Cardinality(R)
\* releaseSlot, of the requests R.
ReleaseSlot(R) ==
    /\ slotOwned' = slotOwned \ R
    /\ activeRequests' = activeRequests - Cardinality(slotOwned \cap R)

TargetStatus == [host |-> 400, origin |-> 403, query |-> 400,
                 preflight |-> 403, options |-> 204]

\* A request is over in the step it arrives in.  Before the slot is taken the
\* timer stays armed until the response is closed.
AnswerAtOnce(r, status, armed) ==
    /\ run' = [run EXCEPT ![r] = "over"]
    /\ sent' = [sent EXCEPT ![r] = Append(@, status)]
    /\ timer' = IF armed THEN timer \cup {r} ELSE timer
    /\ UNCHANGED <<ask, slots>>

Busy == activeRequests >= MaxConcurrentRequests

Arrive(r, q) ==
    /\ run[r] = "idle" /\ stopped = "none"
    /\ \/ /\ q.flaw = "url" /\ AnswerAtOnce(r, 414, TRUE)
          /\ UNCHANGED auth
       \/ /\ q.flaw # "url" /\ Busy /\ AnswerAtOnce(r, 503, TRUE)
          /\ UNCHANGED auth
       \/ /\ q.flaw \in DOMAIN TargetStatus /\ ~Busy
          /\ AnswerAtOnce(r, TargetStatus[q.flaw], FALSE)
          /\ UNCHANGED auth
       \/ /\ q.flaw = "auth" /\ ~Busy
          /\ RefuseToken(q.remote)
          /\ AnswerAtOnce(r, IF FailureCount(q.remote) > AuthFailureCapacity
                             THEN 429 ELSE 401, FALSE)
       \/ /\ q.flaw \in {"none", "body", "size", "type"} /\ ~Busy
          /\ run' = [run EXCEPT ![r] = "reading"]
          /\ ask' = [ask EXCEPT ![r] = {q}]
          /\ slotOwned' = slotOwned \cup {r}
          /\ activeRequests' = activeRequests + 1
          /\ timer' = timer \cup {r}
          /\ UNCHANGED <<sent, auth>>
    /\ UNCHANGED <<wire, timedOut, stopOnFinish, streams, idempotency,
                   stopping, clock>>
-----------------------------------------------------------------------------
(* The request goes on after its body has ended or failed.                 *)

Send(r, status) == sent' = [sent EXCEPT ![r] = Append(@, status)]

\* Mutant of AcceptStop: only the first answer to a key arranges the stop.
AcceptNewStop(r, key) ==
    \E operation \in IF Lookup(key) = {} THEN {Len(accepted) + 1}
                     ELSE Lookup(key) :
       /\ Record(key, operation)
       /\ accepted' = Append(accepted, [request |-> r, key |-> key,
                                        operation |-> operation,
                                        at |-> clock])
       /\ stopOnFinish' = IF Lookup(key) = {} THEN stopOnFinish \cup {r}
                          ELSE stopOnFinish
\* The stop is recorded, or found recorded, and will be requested once the
\* client has the answer.
AcceptStop(r, key) ==
    \E operation \in IF Lookup(key) = {} THEN {Len(accepted) + 1}
                     ELSE Lookup(key) :
       /\ Record(key, operation)
       /\ accepted' = Append(accepted, [request |-> r, key |-> key,
                                        operation |-> operation,
                                        at |-> clock])
       /\ stopOnFinish' = stopOnFinish \cup {r}

StopRoute(r, q) ==
    \/ /\ q.key = "none" /\ Send(r, 400)
       /\ UNCHANGED <<idempotency, stopOnFinish>>
    \/ /\ q.key # "none" /\ q.match = "none" /\ Send(r, 428)
       /\ UNCHANGED <<idempotency, stopOnFinish>>
    \/ /\ q.key # "none" /\ q.match = "other" /\ Send(r, 412)
       /\ UNCHANGED <<idempotency, stopOnFinish>>
    \/ /\ q.key # "none" /\ q.match = "instance" /\ Send(r, 202)
       /\ AcceptStop(r, q.key)

\* serveEvents, up to the frames: the response stays open.
EventsRoute(r) ==
    \/ /\ Cardinality(streams) >= SseConnectionCapacity
       /\ Send(r, 503) /\ UNCHANGED streams
    \/ /\ Cardinality(streams) < SseConnectionCapacity
       /\ Send(r, 200) /\ streams' = streams \cup {r}

BodyStatus == [body |-> 400, size |-> 413, type |-> 415]

\* The routes; /v1/status reads the size of the registry, which prunes it.
Serve(r, q) ==
    \/ /\ q.flaw # "none" /\ Send(r, BodyStatus[q.flaw])
       /\ UNCHANGED <<idempotency, stopOnFinish, streams, auth>>
    \/ /\ q.flaw = "none" /\ q.route \in {"version", "endpoint", "unknown"}
       /\ Send(r, IF q.route = "unknown" THEN 404 ELSE 200)
       /\ UNCHANGED <<idempotency, stopOnFinish, streams, auth>>
    \/ /\ q.flaw = "none" /\ q.route \in {"health", "doctor"}
       /\ Send(r, 200) /\ SecurityFindings
       /\ UNCHANGED <<idempotency, stopOnFinish, streams>>
    \/ /\ q.flaw = "none" /\ q.route = "status"
       /\ Send(r, 200) /\ entries' = Prune(entries)
       /\ UNCHANGED <<accepted, stopOnFinish, streams, auth>>
    \/ /\ q.flaw = "none" /\ q.route = "events"
       /\ EventsRoute(r)
       /\ UNCHANGED <<idempotency, stopOnFinish, auth>>
    \/ /\ q.flaw = "none" /\ q.route = "stop"
       /\ StopRoute(r, q)
       /\ UNCHANGED <<streams, auth>>

\* Mutant of Late: only the closed connection is noticed.
LateIfClosed(r) == wire[r] # "open"
\* The answer would come too late: the timer has fired or the client is gone.
Late(r) == r \in timedOut \/ wire[r] = "closed"

Resume(r) ==
    /\ run[r] = "reading"
    /\ \/ /\ Late(r)
          /\ UNCHANGED <<sent, idempotency, stopOnFinish, streams, auth>>
       \/ ~Late(r) /\ \E q \in ask[r] : Serve(r, q)
    /\ run' = [run EXCEPT ![r] = "over"]
    /\ ask' = [ask EXCEPT ![r] = {}]
    /\ timer' = timer \ {r}
    /\ ReleaseSlot({r})
    /\ UNCHANGED <<wire, timedOut, stopping, clock>>
-----------------------------------------------------------------------------
(* Events of the response and its connection.                              *)

\* The response's "close" for the requests R.
Closed(R, how) ==
    /\ wire' = [r \in Requests |-> IF r \in R THEN how ELSE wire[r]]
    /\ timer' = timer \ R
    /\ streams' = streams \ R
    /\ ReleaseSlot(R)

\* Mutant of Timeout: the slot is left to the end of the request.
TimeoutKeepsSlot(r) ==
    /\ r \in timer /\ wire[r] = "open"
    /\ timedOut' = timedOut \cup {r}
    /\ \/ /\ sent[r] = <<>> /\ Send(r, 504)
          /\ timer' = timer \ {r}
          /\ UNCHANGED <<wire, streams, slots>>
       \/ /\ sent[r] # <<>> /\ Closed({r}, "closed") /\ UNCHANGED sent
    /\ UNCHANGED <<ask, run, stopOnFinish, idempotency, auth, stopping,
                   clock>>
\* The timer: 504 when nothing has been sent, else the request is destroyed.
Timeout(r) ==
    /\ r \in timer /\ wire[r] = "open"
    /\ timedOut' = timedOut \cup {r}
    /\ \/ /\ sent[r] = <<>> /\ Send(r, 504)
          /\ timer' = timer \ {r}
          /\ ReleaseSlot({r})
          /\ UNCHANGED <<wire, streams>>
       \/ /\ sent[r] # <<>> /\ Closed({r}, "closed") /\ UNCHANGED sent
    /\ UNCHANGED <<ask, run, stopOnFinish, idempotency, auth, stopping,
                   clock>>

\* "finish", then "close": the whole response has been handed to the system.
Finish(r) ==
    /\ wire[r] = "open" /\ sent[r] # <<>> /\ r \notin streams
    /\ Closed({r}, "flushed")
    /\ stopDue' = (stopDue \/ r \in stopOnFinish)
    /\ UNCHANGED <<ask, run, sent, timedOut, stopOnFinish, idempotency, auth,
                   stopped, clock>>

\* The connection ends before the response has been flushed.
ClientGone(r) ==
    /\ wire[r] = "open" /\ run[r] # "idle"
    /\ Closed({r}, "closed")
    /\ UNCHANGED <<ask, run, sent, timedOut, stopOnFinish, idempotency, auth,
                   stopping, clock>>

\* stop(), up to the await of closeServer: no further request is taken and
\* every connection is closed.  What follows is module ControlRuntime's.
Stop(by) ==
    /\ stopped = "none"
    /\ stopped' = by
    /\ Closed({r \in Requests : wire[r] = "open" /\ run[r] # "idle"},
              "closed")
    /\ UNCHANGED <<ask, run, sent, timedOut, stopOnFinish, idempotency, auth,
                   stopDue, clock>>

\* Mutant of RequestStop: the stop does not wait for the answer to be flushed.
StopAtOnce == stopOnFinish # {} /\ Stop("route")
RequestStop == stopDue /\ Stop("route")

\* runtime.stop(), by a signal or the descriptor monitor.
OwnerStop == Stop("owner")

Tick ==
    /\ clock < MaxTime
    /\ clock' = clock + 1
    /\ UNCHANGED <<perRequest, slots, streams, idempotency, auth, stopping>>

\* What happens to requests that have arrived.
Proceed ==
    \/ \E r \in Requests :
          Resume(r) \/ Timeout(r) \/ Finish(r) \/ ClientGone(r)
    \/ RequestStop \/ OwnerStop \/ Tick

Next == (\E r \in Requests, q \in Queries : Arrive(r, q)) \/ Proceed

Spec == Init /\ [][Next]_vars

\* Timers fire, a queued immediate runs, and the iteration over a body ends
\* once its connection has.  No client has to send, read or leave.
Fairness ==
    /\ \A r \in Requests : /\ WF_vars(Timeout(r))
                           /\ WF_vars(wire[r] # "open" /\ Resume(r))
    /\ WF_vars(RequestStop)

FairSpec == Spec /\ Fairness
-----------------------------------------------------------------------------
\* The variables have their types: a request is over, reading or idle, the
\* registry and the failure window stay within their capacities.
TypeOK ==
    /\ \A r \in Requests : ask[r] \subseteq Queries
    /\ run \in [Requests -> {"idle", "reading", "over"}]
    /\ \A r \in Requests : sent[r] \in Seq(200 .. 504)
    /\ wire \in [Requests -> {"open", "flushed", "closed"}]
    /\ timer \subseteq Requests /\ timedOut \subseteq Requests
    /\ slotOwned \subseteq Requests /\ stopOnFinish \subseteq Requests
    /\ activeRequests \in 0 .. MaxConcurrentRequests
    /\ streams \subseteq Requests
    /\ Cardinality(entries) <= IdempotencyCapacity
    /\ Len(authFailures) <= RemoteCapacity
    /\ finding \in 0 .. MaxTime + AuthFailureWindow
    /\ stopDue \in BOOLEAN /\ stopped \in {"none", "route", "owner"}
    /\ clock \in 0 .. MaxTime /\ limitedAt \in -1 .. MaxTime

\* state.activeRequests counts exactly the requests that own a slot, and only
\* a request whose handler is still waiting for its body on a live connection
\* owns one: timer, close and finally never give back a slot twice nor keep
\* it, and an open event stream holds none.
SlotsExact ==
    /\ activeRequests = Cardinality(slotOwned)
    /\ \A r \in slotOwned : /\ run[r] = "reading" /\ wire[r] = "open"
                            /\ r \notin timedOut \cup streams

\* A request is answered once, however its timer races its body, and a stop
\* is in the registry's answers only if its request was answered 202: one
\* that was told 504 has no late effect.
AnsweredOnce ==
    /\ \A r \in Requests : Len(sent[r]) <= 1
    /\ \A i \in DOMAIN accepted : sent[accepted[i].request] = <<202>>

\* The route stops the runtime only after some client has been told, in full,
\* which operation stops it.
StopAfterAnswer ==
    stopped = "route" =>
        \E r \in Requests : wire[r] = "flushed" /\ sent[r] = <<202>>

\* The operations begun between the i-th and the j-th accepted stop.
BegunBetween(i, j) == {accepted[k].operation : k \in i + 1 .. j - 1}
                         \ {accepted[k].operation : k \in 1 .. i}

\* A stop repeated with its key is given the operation it was given at first,
\* unless that first answer is at least the TTL old or as many other
\* operations as the registry holds were begun since.
ReplayStable ==
    \A i, j \in DOMAIN accepted :
        LET a == accepted[i]
            b == accepted[j]
        IN  (i < j /\ a.key = b.key /\ a.operation # b.operation
             /\ \A k \in 1 .. i - 1 : accepted[k].operation # a.operation)
            => \/ b.at - a.at >= IdempotencyTtl
               \/ Cardinality(BegunBetween(i, j)) >= IdempotencyCapacity

\* When a request is refused with 429 a finding is in force at that moment,
\* so that health and doctor report it, also when an older one has expired
\* unread.
LimitReported == limitedAt = clock => finding > clock

\* What the handler keeps of each request is exact: its slot, its answer, and
\* the finding about its refusal.
RequestsAccounted == SlotsExact /\ AnsweredOnce /\ LimitReported

\* A slot that is taken is given back, also when the client neither sends its
\* body nor leaves.
SlotsReturn == \A r \in Requests : r \in slotOwned ~> r \notin slotOwned

\* Once a client has a complete 202 the runtime stops, also when the answer
\* was a repetition of one that never reached its client.
AcceptedStopHappens ==
    (\E r \in Requests : wire[r] = "flushed" /\ sent[r] = <<202>>)
        ~> stopped # "none"
=============================================================================
