-------------------------- MODULE ControlRuntime ---------------------------
(***************************************************************************)
(* The lifecycle of a runtime on one data root (startControlApi, its stop, *)
(* the descriptor monitor of apps/runtime) and the clients that discover   *)
(* it through its files (createControlApiClient, start and stop of         *)
(* apps/cli).  Processes share the lock, the token file, the descriptor    *)
(* file and the ports of the machine; every await of the code is a place   *)
(* where another process, or a crash, comes in between.  The lock is taken *)
(* in one step here: module RuntimeLock shows that it can be.  A token is  *)
(* the runtime that drew it, and so is a descriptor, with its port.        *)
(***************************************************************************)
EXTENDS Integers, FiniteSets

CONSTANTS
    Runtimes,   \* runtime processes, each with its own instanceId
    Clients,    \* runs of createControlApiClient
    Starters,   \* the ones among them that are "start" commands
    RuntimeOf,  \* the runtime a start command spawns, a process of its own
    Leftover,   \* runtimes that crashed while serving before the model starts
    Ports,
    None,
    Windows,    \* whether the token file is deleted before it is created
    Faults      \* whether processes crash, startups fail and files get lost

ASSUME RuntimeAssumption ==
    /\ Starters \subseteq Clients
    /\ RuntimeOf \in [Starters -> Runtimes \ Leftover]
    /\ \A k, l \in Starters : RuntimeOf[k] = RuntimeOf[l] => k = l
    /\ Leftover \subseteq Runtimes
    /\ IsFiniteSet(Leftover) /\ Cardinality(Leftover) <= 1
    /\ None \notin Runtimes \cup Ports
    /\ Windows \in BOOLEAN /\ Faults \in BOOLEAN

VARIABLES
    pc,         \* where each runtime is in startControlApi or stop
    removed,    \* the files its shutdown has removed
    port,       \* the port each runtime listens on, or listened on
    lock, token, descriptor, \* the three files: whose they are
    stopAsked,  \* the runtimes whose stop route has answered 202
    tampered,   \* the descriptor has been removed by someone else
    cpc,        \* where each client is, or the code it has failed with
    waiting,    \* the start commands that have spawned their runtime
    seen,       \* the descriptor each client has read
    secret,     \* the token each client has read
    answeredBy  \* the runtime that answered the client's first health call

runtimeVars == <<pc, removed, port, lock, token, descriptor, stopAsked,
                 tampered>>
clientVars == <<cpc, waiting, seen, secret, answeredBy>>
vars == <<runtimeVars, clientVars>>

Steps == {"off", "starting", "locked", "unlinked", "token", "listening",
          "serving", "removing", "ended", "refused", "dead"}

FileOf(i) == IF i = {} THEN None ELSE CHOOSE r \in i : TRUE

Init ==
    /\ pc = [i \in Runtimes |-> IF i \in Leftover THEN "dead" ELSE "off"]
    /\ removed = [i \in Runtimes |-> {}]
    /\ \E p \in Ports : port = [i \in Runtimes |-> IF i \in Leftover THEN p
                                                   ELSE None]
    /\ lock = FileOf(Leftover) /\ token = lock /\ descriptor = lock
    /\ stopAsked = {} /\ tampered = FALSE
    /\ cpc = [k \in Clients |-> "idle"] /\ waiting = {}
    /\ seen = [k \in Clients |-> None] /\ secret = [k \in Clients |-> None]
    /\ answeredBy = [k \in Clients |-> None]
-----------------------------------------------------------------------------
(* A runtime.                                                              *)

Go(i, step) == pc' = [pc EXCEPT ![i] = step]
Listening == {i \in Runtimes : pc[i] \in {"listening", "serving"}}
Running(i) == pc[i] \notin {"off", "ended", "refused", "dead"}

\* main, of a runtime no start command spawns.
Launch(i) ==
    /\ pc[i] = "off" /\ \A k \in Starters : RuntimeOf[k] # i
    /\ Go(i, "starting")
    /\ UNCHANGED <<removed, port, lock, token, descriptor, stopAsked,
                   tampered, clientVars>>

\* acquireRuntimeLock.  The owner's PID exists while it runs, and may belong
\* to another process once it does not.
AcquireLock(i) ==
    /\ pc[i] = "starting"
    /\ \/ /\ lock \in {None} \cup {j \in Runtimes : pc[j] = "dead"}
          /\ lock' = i /\ Go(i, "locked")
       \/ /\ lock # None /\ (Running(lock) \/ Faults)
          /\ Go(i, "refused") /\ UNCHANGED lock
    /\ UNCHANGED <<removed, port, token, descriptor, stopAsked, tampered,
                   clientVars>>

\* createSecureToken: the helper of Windows deletes the old file first,
\* elsewhere the new one is renamed over it.
CreateToken(i) ==
    /\ \/ /\ Windows /\ pc[i] = "locked"
          /\ token' = None /\ Go(i, "unlinked")
       \/ /\ pc[i] = IF Windows THEN "unlinked" ELSE "locked"
          /\ token' = i /\ Go(i, "token")
    /\ UNCHANGED <<removed, port, lock, descriptor, stopAsked, tampered,
                   clientVars>>

\* listen: the system picks a free port.
Listen(i) ==
    /\ pc[i] = "token"
    /\ \E p \in Ports \ {port[j] : j \in Listening} :
          port' = [port EXCEPT ![i] = p]
    /\ Go(i, "listening")
    /\ UNCHANGED <<removed, lock, token, descriptor, stopAsked, tampered,
                   clientVars>>

\* writeDescriptor renames the new file into place.
WriteDescriptor(i) ==
    /\ pc[i] = "listening"
    /\ descriptor' = i /\ Go(i, "serving")
    /\ UNCHANGED <<removed, port, lock, token, stopAsked, tampered,
                   clientVars>>

\* Mutant of StartFails: the error path only closes the server.
StartFailsUncleaned(i) ==
    /\ Faults /\ pc[i] \in {"locked", "unlinked", "token", "listening"}
    /\ Go(i, "removing")
    /\ removed' = [removed EXCEPT ![i] = {"token", "descriptor"}]
    /\ UNCHANGED <<port, lock, token, descriptor, stopAsked, tampered,
                   clientVars>>
\* A step of the startup throws: the server is closed, then the files are
\* removed and the lock is released, as by stop.
StartFails(i) ==
    /\ Faults /\ pc[i] \in {"locked", "unlinked", "token", "listening"}
    /\ Go(i, "removing")
    /\ UNCHANGED <<removed, port, lock, token, descriptor, stopAsked,
                   tampered, clientVars>>

\* stop, up to the end of closeServer: by the route, by the monitor that does
\* not find the descriptor, or by a signal.
StopRuntime(i) ==
    /\ pc[i] = "serving"
    /\ Go(i, "removing")
    /\ UNCHANGED <<removed, port, lock, token, descriptor, stopAsked,
                   tampered, clientVars>>

RouteStop(i) == i \in stopAsked /\ StopRuntime(i)
\* Mutant of MonitorStop: the monitor looks for another runtime's descriptor.
MonitorOverwritten(i) == descriptor \notin {i, None} /\ StopRuntime(i)
MonitorStop(i) == descriptor = None /\ StopRuntime(i)
SignalStop(i) == Faults /\ StopRuntime(i)

\* Mutant of WaitsFor: the lock is released without waiting for the files.
WaitsForNothing == [descriptor |-> {}, token |-> {}, lock |-> {}]
\* removeControlFiles removes two files at the same time, whosever they are;
\* the lock is released after it.
WaitsFor == [descriptor |-> {}, token |-> {}, lock |-> {"descriptor", "token"}]

Remove(i, file) ==
    /\ pc[i] = "removing" /\ file \notin removed[i]
    /\ WaitsFor[file] \subseteq removed[i]
    /\ removed' = [removed EXCEPT ![i] = @ \cup {file}]
    /\ descriptor' = IF file = "descriptor" THEN None ELSE descriptor
    /\ token' = IF file = "token" THEN None ELSE token
    /\ lock' = IF file = "lock" THEN None ELSE lock
    /\ IF removed'[i] = DOMAIN WaitsFor THEN Go(i, "ended") ELSE UNCHANGED pc
    /\ UNCHANGED <<port, stopAsked, tampered, clientVars>>

\* The process ends wherever it is; a removal that fails ends it as well.
Crash(i) ==
    /\ Faults /\ Running(i)
    /\ Go(i, "dead")
    /\ UNCHANGED <<removed, port, lock, token, descriptor, stopAsked,
                   tampered, clientVars>>

\* Somebody cleans the descriptor away.
LoseDescriptor ==
    /\ Faults /\ ~tampered
    /\ tampered' = TRUE /\ descriptor' = None
    /\ UNCHANGED <<pc, removed, port, lock, token, stopAsked, clientVars>>
-----------------------------------------------------------------------------
(* A client.                                                               *)

\* recoverableDiscoveryCodes: what makes start spawn a runtime.
Recoverable == {"CONTROL_DESCRIPTOR_STALE", "CONTROL_DESCRIPTOR_UNAVAILABLE",
                "CONTROL_CLIENT_UNAVAILABLE"}

\* createControlApiClient throws.  A start command then spawns its runtime,
\* or tries again when it has done so, or gives up.
Fails(k, code) ==
    /\ \/ /\ k \notin Starters \/ (k \notin waiting /\ code \notin Recoverable)
          /\ cpc' = [cpc EXCEPT ![k] = code]
          /\ UNCHANGED <<waiting, pc>>
       \/ /\ k \in Starters \ waiting /\ code \in Recoverable
          /\ cpc' = [cpc EXCEPT ![k] = "idle"]
          /\ waiting' = waiting \cup {k}
          /\ Go(RuntimeOf[k], "starting")
       \/ /\ k \in waiting
          /\ cpc' = [cpc EXCEPT ![k] = "idle"]
          /\ UNCHANGED <<waiting, pc>>
    /\ seen' = [seen EXCEPT ![k] = None]
    /\ secret' = [secret EXCEPT ![k] = None]
    /\ UNCHANGED answeredBy

Proceeds(k, step) ==
    /\ cpc' = [cpc EXCEPT ![k] = step] /\ UNCHANGED <<waiting, pc>>

files == <<removed, port, lock, token, descriptor, tampered>>

\* discoverControlEndpoint.
Discover(k) ==
    /\ cpc[k] = "idle"
    /\ \/ descriptor = None /\ Fails(k, "CONTROL_DESCRIPTOR_UNAVAILABLE")
       \/ /\ descriptor # None /\ Proceeds(k, "described")
          /\ seen' = [seen EXCEPT ![k] = descriptor]
          /\ UNCHANGED <<secret, answeredBy>>
    /\ UNCHANGED <<files, stopAsked>>

\* processExists: the PID of a runtime that is gone may have been reused.
CheckPid(k) ==
    /\ cpc[k] = "described"
    /\ \/ ~Running(seen[k]) /\ Fails(k, "CONTROL_DESCRIPTOR_STALE")
       \/ /\ Proceeds(k, "alive")
          /\ UNCHANGED <<seen, secret, answeredBy>>
    /\ UNCHANGED <<files, stopAsked>>

ReadControlToken(k) ==
    /\ cpc[k] = "alive"
    /\ \/ token = None /\ Fails(k, "CONTROL_TOKEN_UNAVAILABLE")
       \/ /\ token # None /\ Proceeds(k, "armed")
          /\ secret' = [secret EXCEPT ![k] = token]
          /\ UNCHANGED <<seen, answeredBy>>
    /\ UNCHANGED <<files, stopAsked>>

\* The runtime that listens on the port of the descriptor, as a set.
Endpoint(k) == {i \in Listening : port[i] = port[seen[k]]}

\* Mutant of SameIdentity: whoever knows the token is taken for the runtime.
AnyIdentity(k, i) == TRUE
SameIdentity(k, i) == i = seen[k]

\* The first health call, and the comparison of its answer.
FirstHealth(k) ==
    /\ cpc[k] = "armed"
    /\ \/ Endpoint(k) = {} /\ Fails(k, "CONTROL_CLIENT_UNAVAILABLE")
       \/ \E i \in Endpoint(k) :
             \/ secret[k] # i /\ Fails(k, "CONTROL_AUTH_REQUIRED")
             \/ /\ secret[k] = i /\ ~SameIdentity(k, i)
                /\ Fails(k, "CONTROL_ENDPOINT_IDENTITY_MISMATCH")
             \/ /\ secret[k] = i /\ SameIdentity(k, i)
                /\ Proceeds(k, "ready")
                /\ answeredBy' = [answeredBy EXCEPT ![k] = i]
                /\ UNCHANGED <<seen, secret>>
    /\ UNCHANGED <<files, stopAsked>>

\* client.stop of the stop command, and the checks of the route.
SendStop(k) ==
    /\ cpc[k] = "ready" /\ k \notin Starters
    /\ \/ /\ Endpoint(k) = {} /\ Proceeds(k, "CONTROL_CLIENT_UNAVAILABLE")
          /\ UNCHANGED stopAsked
       \/ \E i \in Endpoint(k) :
             \/ /\ secret[k] # i \/ seen[k] # i
                /\ Proceeds(k, IF secret[k] # i
                               THEN "CONTROL_AUTH_REQUIRED"
                               ELSE "CONTROL_INSTANCE_VERSION_MISMATCH")
                /\ UNCHANGED stopAsked
             \/ /\ secret[k] = i /\ seen[k] = i
                /\ Proceeds(k, "accepted")
                /\ stopAsked' = stopAsked \cup {i}
    /\ UNCHANGED <<files, seen, secret, answeredBy>>

RuntimeStep(i) ==
    \/ AcquireLock(i) \/ CreateToken(i) \/ Listen(i) \/ WriteDescriptor(i)
    \/ RouteStop(i) \/ MonitorStop(i)
    \/ \E file \in DOMAIN WaitsFor : Remove(i, file)

ClientStep(k) ==
    \/ Discover(k) \/ CheckPid(k) \/ ReadControlToken(k) \/ FirstHealth(k)

Next ==
    \/ \E i \in Runtimes : \/ RuntimeStep(i) \/ Launch(i) \/ StartFails(i)
                           \/ SignalStop(i) \/ Crash(i)
    \/ LoseDescriptor
    \/ \E k \in Clients : ClientStep(k) \/ SendStop(k)

Spec == Init /\ [][Next]_vars

\* A process goes on with what it has begun; its intervals fire.  Nobody has
\* to launch a runtime or send a stop.
Fairness ==
    /\ \A i \in Runtimes : WF_vars(RuntimeStep(i))
    /\ \A k \in Clients : WF_vars(ClientStep(k))

FairSpec == Spec /\ Fairness
-----------------------------------------------------------------------------
\* The variables have their types; a runtime that takes requests has a port.
TypeOK ==
    /\ pc \in [Runtimes -> Steps]
    /\ removed \in [Runtimes -> SUBSET DOMAIN WaitsFor]
    /\ port \in [Runtimes -> Ports \cup {None}]
    /\ {lock, token, descriptor} \subseteq Runtimes \cup {None}
    /\ stopAsked \subseteq Runtimes /\ tampered \in BOOLEAN
    /\ waiting \subseteq Starters
    /\ seen \in [Clients -> Runtimes \cup {None}]
    /\ secret \in [Clients -> Runtimes \cup {None}]
    /\ answeredBy \in [Clients -> Runtimes \cup {None}]
    /\ \A i \in Listening : port[i] \in Ports

\* A runtime that is serving can be found: the descriptor and the token on
\* disk are its own, however another runtime is stopping, failing to start or
\* has crashed, unless someone cleaned the descriptor away.
ServingDiscoverable ==
    \A i \in Runtimes :
        pc[i] = "serving" =>
            /\ token = i /\ lock = i
            /\ descriptor = i \/ (tampered /\ descriptor = None)

\* A control file on disk is the lock owner's or was left by a crash: a
\* runtime that stopped, or failed to start, leaves neither a token nor a
\* descriptor behind.
NothingLeftBehind ==
    \A i \in {token, descriptor, lock} \ {None} :
        (i = lock /\ Running(i)) \/ pc[i] = "dead"

\* A client is connected to the runtime its descriptor names, never to
\* another one on a reused port, and what it stops is that runtime.
RightRuntime ==
    /\ \A k \in Clients : cpc[k] \in {"ready", "accepted"} =>
          answeredBy[k] = seen[k] /\ secret[k] = seen[k]
    /\ \A i \in stopAsked : \E k \in Clients \ Starters :
          cpc[k] = "accepted" /\ seen[k] = i

\* A runtime whose stop was accepted, or whose descriptor has been removed
\* while it serves, ends.
StopsAndEnds ==
    \A i \in Runtimes :
        (i \in stopAsked \/ (pc[i] = "serving" /\ descriptor = None))
            ~> pc[i] \in {"ended", "dead"}
=============================================================================
