------------------------ MODULE ControlRuntimeProofs ------------------------
(***************************************************************************)
(* What the control files say of the runtimes, for any number of runtimes, *)
(* clients and start commands.  The invariant follows the lock: whoever is *)
(* between taking it and the end of its shutdown owns it, so every file    *)
(* on disk is the owner's or belongs to a process that is gone.            *)
(***************************************************************************)
EXTENDS ControlRuntime, TLAPS

\* A runtime from the time it has the lock to the end of its shutdown.
Owning == {"locked", "unlinked", "token", "listening", "serving", "removing"}

ClientSteps ==
    {"idle", "described", "alive", "armed", "ready", "accepted",
     "CONTROL_TOKEN_UNAVAILABLE", "CONTROL_AUTH_REQUIRED",
     "CONTROL_ENDPOINT_IDENTITY_MISMATCH", "CONTROL_INSTANCE_VERSION_MISMATCH"}
        \cup Recoverable

\* An owner holds the lock, and a lock is an owner's or a dead process's.
LockInv ==
    /\ \A i \in Runtimes : pc[i] \in Owning => lock = i
    /\ lock # None => pc[lock] \in Owning \cup {"dead"}

\* Files are removed in a shutdown only, the lock last.
RemovedInv ==
    /\ \A i \in Runtimes :
          pc[i] \notin {"removing", "ended", "dead"} => removed[i] = {}
    /\ \A i \in Runtimes : pc[i] = "removing" => "lock" \notin removed[i]

\* A token on disk is a dead process's, or its owner has not removed it yet;
\* from its creation to the shutdown it is on disk.
TokenInv ==
    /\ \A i \in Runtimes \ {lock} : token = i => pc[i] = "dead"
    /\ \A i \in Runtimes : token = i => pc[i] # "removing"
                                        \/ "token" \notin removed[i]
    /\ \A i \in Runtimes :
          pc[i] \in {"token", "listening", "serving"} => token = i

\* The same of the descriptor, which others may clean away.
DescriptorInv ==
    /\ \A i \in Runtimes \ {lock} : descriptor = i => pc[i] = "dead"
    /\ \A i \in Runtimes : descriptor = i => pc[i] # "removing"
                                             \/ "descriptor" \notin removed[i]
    /\ \A i \in Runtimes : pc[i] = "serving" =>
          descriptor = i \/ (tampered /\ descriptor = None)

\* A start command spawns its runtime once.
SpawnInv == \A k \in Starters \ waiting : pc[RuntimeOf[k]] = "off"

FilesInv == LockInv /\ RemovedInv /\ TokenInv /\ DescriptorInv /\ SpawnInv

TypeInv == TypeOK /\ cpc \in [Clients -> ClientSteps]

\* A client that has its answer stays with the runtime it has read of.
ClientInv ==
    /\ RightRuntime
    /\ \A k \in Clients : cpc[k] = "accepted" => k \notin Starters

IInv == TypeInv /\ FilesInv /\ ClientInv
-----------------------------------------------------------------------------
LEMMA InitInv == Init => IInv
<1> SUFFICES ASSUME Init PROVE IInv
    OBVIOUS
<1> USE RuntimeAssumption
<1>1. lock = None \/ (lock \in Leftover /\ lock \in Runtimes)
    BY DEF Init, FileOf
<1>2. TypeInv
    BY ZenonT(60), <1>1 DEF Init, TypeInv, TypeOK, Steps, ClientSteps, WaitsFor, Listening
<1>3. LockInv /\ RemovedInv
    BY <1>1 DEF Init, LockInv, RemovedInv, Owning
<1>4. TokenInv /\ DescriptorInv
    BY <1>1 DEF Init, TokenInv, DescriptorInv
<1>5. SpawnInv
    BY DEF Init, SpawnInv
<1>6. ClientInv
    BY DEF Init, ClientInv, RightRuntime
<1> QED BY <1>2, <1>3, <1>4, <1>5, <1>6 DEF IInv, FilesInv

\* The steps of a startup, a shutdown or a crash keep the invariant of the
\* files: none of them reads what a client has.
LEMMA RuntimeKeepsFiles ==
    ASSUME TypeInv, FilesInv, NEW i \in Runtimes,
           RuntimeStep(i) \/ Launch(i) \/ StartFails(i) \/ SignalStop(i)
              \/ Crash(i)
    PROVE  TypeInv' /\ FilesInv'
<1> USE RuntimeAssumption
<1> USE DEF TypeInv, TypeOK, Steps, Listening, Owning, Go, FilesInv, LockInv,
            RemovedInv, TokenInv, DescriptorInv, SpawnInv, clientVars
<1>0. pc \in [Runtimes -> Steps]
    OBVIOUS
<1>1. CASE Launch(i)
    BY <1>1 DEF Launch
<1>2. CASE AcquireLock(i)
  <2>1. CASE lock' = i /\ pc' = [pc EXCEPT ![i] = "locked"]
    <3>1. \A j \in Runtimes : pc[j] \notin Owning
        BY <1>2, <2>1 DEF AcquireLock
    <3>2. \A j \in Runtimes : token = j \/ descriptor = j => pc[j] = "dead"
        BY <1>2, <3>1 DEF AcquireLock
    <3> QED BY <1>2, <2>1, <3>1, <3>2 DEF AcquireLock
  <2>2. CASE lock' = lock /\ pc' = [pc EXCEPT ![i] = "refused"]
    BY <1>2, <2>2 DEF AcquireLock
  <2> QED BY <1>2, <2>1, <2>2 DEF AcquireLock
<1>3. CASE CreateToken(i)
    BY <1>3 DEF CreateToken
<1>4. CASE Listen(i)
    BY <1>4 DEF Listen
<1>5. CASE WriteDescriptor(i)
    BY <1>5 DEF WriteDescriptor
<1>6. CASE StartFails(i)
    BY <1>6 DEF StartFails
<1>7. CASE StopRuntime(i)
    BY <1>7 DEF StopRuntime
<1>8. ASSUME NEW file \in DOMAIN WaitsFor, Remove(i, file)
      PROVE  TypeInv' /\ FilesInv'
  <2>1. lock = i /\ file \in {"descriptor", "token", "lock"}
    BY <1>8 DEF Remove, WaitsFor
  <2>2. CASE file = "lock"
    <3>1. pc' = [pc EXCEPT ![i] = "ended"] /\ lock' = None
        BY <1>8, <2>2 DEF Remove, WaitsFor
    <3>2. token # i /\ descriptor # i
        BY <1>8, <2>2 DEF Remove, WaitsFor
    <3> QED BY <1>8, <2>1, <2>2, <3>1, <3>2 DEF Remove, WaitsFor
  <2>3. CASE file # "lock"
    <3>1. UNCHANGED pc /\ lock' = lock
        BY <1>8, <2>3 DEF Remove, WaitsFor
    <3> QED BY <1>8, <2>1, <2>3, <3>1 DEF Remove, WaitsFor
  <2> QED BY <2>2, <2>3
<1>9. CASE Crash(i)
    BY <1>9 DEF Crash, Running
<1> QED
    BY <1>1, <1>2, <1>3, <1>4, <1>5, <1>6, <1>7, <1>8, <1>9
    DEF RuntimeStep, RouteStop, MonitorStop, SignalStop

\* A start command whose client fails spawns a runtime that is off; no other
\* step of a client touches a runtime.
LEMMA FailureKeepsFiles ==
    ASSUME TypeInv, FilesInv, UNCHANGED <<files, stopAsked>>,
           NEW k \in Clients, NEW code \in ClientSteps, Fails(k, code)
    PROVE  TypeInv' /\ FilesInv'
<1> USE RuntimeAssumption
<1> USE DEF TypeInv, TypeOK, Listening, FilesInv, Fails, files
<1>1. CASE UNCHANGED <<pc, waiting>>
    BY <1>1 DEF ClientSteps, LockInv, RemovedInv, TokenInv, DescriptorInv,
                SpawnInv
<1>2. CASE /\ k \in Starters \ waiting
           /\ pc' = [pc EXCEPT ![RuntimeOf[k]] = "starting"]
           /\ waiting' = waiting \cup {k}
  <2>1. RuntimeOf[k] \in Runtimes /\ pc[RuntimeOf[k]] = "off"
    BY <1>2 DEF SpawnInv
  <2>2. TypeInv'
    BY <1>2, <2>1 DEF ClientSteps, Steps
  <2>3. LockInv' /\ RemovedInv' /\ TokenInv' /\ DescriptorInv'
    BY <1>2, <2>1 DEF LockInv, RemovedInv, TokenInv, DescriptorInv, Owning
  <2>4. SpawnInv'
    BY <1>2, <2>1 DEF SpawnInv
  <2> QED BY <2>2, <2>3, <2>4
<1> QED BY <1>1, <1>2 DEF Go

\* What a client does keeps the invariant of the files.
LEMMA ClientsKeepFiles ==
    ASSUME TypeInv, FilesInv, NEW k \in Clients, ClientStep(k) \/ SendStop(k)
    PROVE  TypeInv' /\ FilesInv'
<1> USE RuntimeAssumption
<1>1. ASSUME NEW code \in ClientSteps, Fails(k, code),
             UNCHANGED <<files, stopAsked>>
      PROVE  TypeInv' /\ FilesInv'
    BY <1>1, FailureKeepsFiles
<1>2. ASSUME NEW step \in ClientSteps, Proceeds(k, step), UNCHANGED files,
             stopAsked' \subseteq Runtimes,
             seen' \in [Clients -> Runtimes \cup {None}],
             secret' \in [Clients -> Runtimes \cup {None}],
             answeredBy' \in [Clients -> Runtimes \cup {None}]
      PROVE  TypeInv' /\ FilesInv'
    BY <1>2 DEF Proceeds, files, TypeInv, TypeOK, Listening, FilesInv, LockInv,
                RemovedInv, TokenInv, DescriptorInv, SpawnInv, ClientSteps
<1>3. Recoverable \subseteq ClientSteps
    BY DEF ClientSteps
<1>4. CASE Discover(k)
    BY <1>1, <1>2, <1>3, <1>4
    DEF Discover, ClientSteps, Recoverable, TypeInv, TypeOK
<1>5. CASE CheckPid(k)
    BY <1>1, <1>2, <1>3, <1>5
    DEF CheckPid, ClientSteps, Recoverable, TypeInv, TypeOK
<1>6. CASE ReadControlToken(k)
    BY <1>1, <1>2, <1>6
    DEF ReadControlToken, ClientSteps, TypeInv, TypeOK
<1>7. CASE FirstHealth(k)
    BY <1>1, <1>2, <1>3, <1>7
    DEF FirstHealth, Endpoint, Listening, ClientSteps, Recoverable, TypeInv,
        TypeOK
<1>8. CASE SendStop(k)
    BY <1>2, <1>8
    DEF SendStop, Endpoint, Listening, ClientSteps, Recoverable, TypeInv, TypeOK
<1> QED BY <1>4, <1>5, <1>6, <1>7, <1>8 DEF ClientStep

\* What a client has read and who answered it change before it is ready, and
\* a stop is accepted by the runtime it names.
LEMMA ClientsKeepRight ==
    ASSUME TypeInv, ClientInv, NEW k \in Clients, ClientStep(k) \/ SendStop(k)
    PROVE  ClientInv'
<1> USE RuntimeAssumption
<1> USE DEF TypeInv, TypeOK, ClientInv, RightRuntime
<1>1. ASSUME NEW code, code \notin {"ready", "accepted"}, Fails(k, code),
             cpc[k] # "accepted", UNCHANGED stopAsked
      PROVE  ClientInv'
    BY <1>1 DEF Fails
<1>2. ASSUME NEW step, step \notin {"ready", "accepted"}, Proceeds(k, step),
             cpc[k] # "accepted",
             \A l \in Clients \ {k} : /\ seen'[l] = seen[l]
                                      /\ secret'[l] = secret[l]
                                      /\ answeredBy'[l] = answeredBy[l],
             UNCHANGED stopAsked
      PROVE  ClientInv'
    BY <1>2 DEF Proceeds
<1>3. CASE Discover(k)
    BY <1>1, <1>2, <1>3 DEF Discover
<1>4. CASE CheckPid(k)
    BY <1>1, <1>2, <1>4 DEF CheckPid
<1>5. CASE ReadControlToken(k)
    BY <1>1, <1>2, <1>5 DEF ReadControlToken
<1>6. CASE FirstHealth(k)
  <2>1. ASSUME NEW i \in Endpoint(k), secret[k] = i, SameIdentity(k, i),
               Proceeds(k, "ready"), answeredBy' = [answeredBy EXCEPT ![k] = i],
               UNCHANGED <<seen, secret, stopAsked>>
        PROVE  ClientInv'
    BY <1>6, <2>1 DEF FirstHealth, SameIdentity, Proceeds, Endpoint, Listening
  <2> QED BY <1>1, <1>6, <2>1 DEF FirstHealth
<1>7. CASE SendStop(k)
  <2>1. ASSUME NEW i \in Endpoint(k), secret[k] = i, seen[k] = i,
               Proceeds(k, "accepted"), stopAsked' = stopAsked \cup {i},
               UNCHANGED <<seen, secret, answeredBy>>
        PROVE  ClientInv'
    BY <1>7, <2>1 DEF SendStop, Proceeds, Endpoint, Listening
  <2> QED BY <1>2, <1>7, <2>1 DEF SendStop
<1> QED BY <1>3, <1>4, <1>5, <1>6, <1>7 DEF ClientStep

LEMMA NextInv == IInv /\ [Next]_vars => IInv'
<1> SUFFICES ASSUME IInv, [Next]_vars PROVE IInv'
    OBVIOUS
<1> USE DEF IInv
<1>1. ASSUME NEW i \in Runtimes,
             RuntimeStep(i) \/ Launch(i) \/ StartFails(i) \/ SignalStop(i)
                \/ Crash(i)
      PROVE  IInv'
  <2>1. UNCHANGED clientVars /\ UNCHANGED stopAsked
    BY <1>1 DEF RuntimeStep, Launch, AcquireLock, CreateToken, Listen,
                WriteDescriptor, RouteStop, MonitorStop, SignalStop,
                StopRuntime, StartFails, Remove, Crash
  <2>2. ClientInv'
    BY <2>1 DEF ClientInv, RightRuntime, clientVars
  <2> QED BY <1>1, <2>2, RuntimeKeepsFiles
<1>2. CASE LoseDescriptor
    BY <1>2, RuntimeAssumption
    DEF LoseDescriptor, TypeInv, TypeOK, Listening, FilesInv, LockInv,
        RemovedInv, TokenInv, DescriptorInv, SpawnInv, ClientInv, RightRuntime,
        clientVars
<1>3. ASSUME NEW k \in Clients, ClientStep(k) \/ SendStop(k)
      PROVE  IInv'
    BY <1>3, ClientsKeepFiles, ClientsKeepRight
<1>4. CASE UNCHANGED vars
    BY <1>4 DEF vars, runtimeVars, clientVars, TypeInv, TypeOK, Listening,
                FilesInv, LockInv, RemovedInv, TokenInv, DescriptorInv,
                SpawnInv, ClientInv, RightRuntime
<1> QED BY <1>1, <1>2, <1>3, <1>4 DEF Next

LEMMA Invariance == Spec => []IInv
<1> QED BY InitInv, NextInv, PTL DEF Spec
-----------------------------------------------------------------------------
(* The lock a runtime lives under (module DataRootLock).                   *)

\* Where a runtime stands with the lock.
Stage ==
    [i \in Runtimes |->
        CASE pc[i] \in {"off", "starting"} -> "out"
          [] pc[i] \in {"ended", "refused"} -> "over"
          [] pc[i] = "dead" -> "crashed"
          [] OTHER -> "in"]

DataRoot ==
    INSTANCE DataRootLock WITH Owners <- Runtimes, file <- lock, stage <- Stage

\* Everything a runtime does between taking the lock and its end happens under
\* the lock module RuntimeLock implements: no startup, failed or not, no
\* shutdown and no client gives the lock away early or keeps it.
UsesLock == DataRoot!Spec

\* A start command spawns a runtime that has not asked for the lock yet.
LEMMA ClientsLeaveLock ==
    ASSUME TypeInv, SpawnInv, NEW k \in Clients, ClientStep(k) \/ SendStop(k)
    PROVE  lock' = lock /\ Stage' = Stage
<1>1. ASSUME NEW code, Fails(k, code) PROVE Stage' = Stage
  <2>1. CASE UNCHANGED pc
      BY <2>1 DEF Stage
  <2>2. CASE k \in Starters \ waiting /\ pc' = [pc EXCEPT ![RuntimeOf[k]] = "starting"]
    <3>1. RuntimeOf[k] \in Runtimes /\ pc[RuntimeOf[k]] = "off"
        BY <2>2, RuntimeAssumption DEF SpawnInv
    <3> QED BY <2>2, <3>1 DEF Stage, TypeInv, TypeOK
  <2> QED BY <1>1, <2>1, <2>2 DEF Fails, Go
<1>2. ASSUME NEW step, Proceeds(k, step) PROVE Stage' = Stage
    BY <1>2 DEF Proceeds, Stage
<1>3. lock' = lock
    BY DEF ClientStep, Discover, CheckPid, ReadControlToken, FirstHealth, SendStop,
           files
<1>4. \/ \E code : Fails(k, code)
      \/ \E step : Proceeds(k, step)
    BY DEF ClientStep, Discover, CheckPid, ReadControlToken, FirstHealth, SendStop
<1> QED BY <1>1, <1>2, <1>3, <1>4

\* A startup, a service and a shutdown are under the lock from one end to the
\* other: it is taken before the first file and given back after the last.
LEMMA RuntimeUsesLock ==
    ASSUME IInv, NEW i \in Runtimes,
           RuntimeStep(i) \/ Launch(i) \/ StartFails(i) \/ SignalStop(i)
              \/ Crash(i)
    PROVE  \/ lock' = lock /\ Stage' = Stage
           \/ DataRoot!Next
<1> USE RuntimeAssumption
<1>t. pc \in [Runtimes -> Steps] /\ lock \in Runtimes \cup {None}
    BY DEF IInv, TypeInv, TypeOK
\* Steps under the lock, and those before it.
<1>1. ASSUME lock' = lock,
             \/ pc' = pc
             \/ pc[i] \in Owning /\ \E s \in Owning : pc' = [pc EXCEPT ![i] = s]
             \/ pc[i] = "off" /\ pc' = [pc EXCEPT ![i] = "starting"]
      PROVE  Stage' = Stage
    BY <1>1, <1>t DEF Stage, Owning
<1>2. CASE Launch(i)
    BY <1>1, <1>2 DEF Launch, Go
<1>3. CASE CreateToken(i) \/ Listen(i) \/ WriteDescriptor(i) \/ StartFails(i)
              \/ StopRuntime(i)
  <2>1. /\ lock' = lock /\ pc[i] \in Owning
        /\ \E s \in Owning : pc' = [pc EXCEPT ![i] = s]
      BY <1>3 DEF CreateToken, Listen, WriteDescriptor, StartFails, StopRuntime, Go,
                  Owning
  <2> QED BY <1>1, <2>1
<1>4. CASE AcquireLock(i)
  <2>1. pc[i] = "starting" /\ Stage[i] = "out"
      BY <1>4 DEF AcquireLock, Stage
  <2>2. CASE /\ lock \in {None} \cup {j \in Runtimes : pc[j] = "dead"}
             /\ lock' = i /\ pc' = [pc EXCEPT ![i] = "locked"]
    <3>1. lock = None \/ Stage[lock] = "crashed"
        BY <2>2 DEF Stage
    <3>2. Stage' = [Stage EXCEPT ![i] = "in"]
        BY <1>t, <2>2 DEF Stage
    <3> QED BY <2>1, <2>2, <3>1, <3>2 DEF DataRoot!Next, DataRoot!Acquire, DataRoot!Moves
  <2>3. CASE lock' = lock /\ pc' = [pc EXCEPT ![i] = "refused"]
    <3>1. Stage' = [Stage EXCEPT ![i] = "over"]
        BY <1>t, <2>3 DEF Stage
    <3> QED BY <2>1, <2>3, <3>1 DEF DataRoot!Next, DataRoot!Refuse, DataRoot!Moves
  <2> QED BY <1>4, <2>2, <2>3 DEF AcquireLock, Go
<1>5. ASSUME NEW file \in DOMAIN WaitsFor, Remove(i, file)
      PROVE  (lock' = lock /\ Stage' = Stage) \/ DataRoot!Next
  <2>1. pc[i] = "removing" /\ removed' = [removed EXCEPT ![i] = @ \cup {file}]
      BY <1>5 DEF Remove
  <2>r. removed[i] \subseteq DOMAIN WaitsFor /\ "lock" \notin removed[i]
      BY <2>1 DEF IInv, TypeInv, TypeOK, FilesInv, RemovedInv
  <2>2. removed'[i] = removed[i] \cup {file}
      BY <2>1 DEF IInv, TypeInv, TypeOK
  <2>3. CASE file = "lock"
    <3>1. lock' = None /\ pc' = [pc EXCEPT ![i] = "ended"]
        BY <1>5, <2>2, <2>3, <2>r DEF Remove, WaitsFor, Go
    <3>2. Stage[i] = "in" /\ Stage' = [Stage EXCEPT ![i] = "over"]
        BY <1>t, <2>1, <3>1 DEF Stage
    <3> QED BY <3>1, <3>2 DEF DataRoot!Next, DataRoot!Release, DataRoot!Moves
  <2>4. CASE file # "lock"
    <3>1. lock' = lock /\ pc' = pc
        BY <1>5, <2>2, <2>4, <2>r DEF Remove, WaitsFor
    <3> QED BY <1>1, <3>1
  <2> QED BY <2>3, <2>4
<1>6. CASE Crash(i)
  <2>1. lock' = lock /\ pc' = [pc EXCEPT ![i] = "dead"]
      BY <1>6 DEF Crash, Go
  <2>2. Stage' = [j \in Runtimes |-> IF j \in {i} THEN "crashed" ELSE Stage[j]]
      BY <1>t, <2>1 DEF Stage
  <2>3. {i} \in SUBSET Runtimes
      OBVIOUS
  <2>4. DataRoot!Crash({i})
      BY <2>1, <2>2 DEF DataRoot!Crash
  <2> QED BY <2>3, <2>4 DEF DataRoot!Next
<1> QED
    BY <1>1, <1>2, <1>3, <1>4, <1>5, <1>6
    DEF RuntimeStep, RouteStop, MonitorStop, SignalStop

LEMMA LockStep ==
    ASSUME IInv, [Next]_vars PROVE [DataRoot!Next]_<<lock, Stage>>
<1>1. ASSUME NEW i \in Runtimes,
             RuntimeStep(i) \/ Launch(i) \/ StartFails(i) \/ SignalStop(i)
                \/ Crash(i)
      PROVE  [DataRoot!Next]_<<lock, Stage>>
    BY <1>1, RuntimeUsesLock
<1>2. CASE LoseDescriptor
    BY <1>2 DEF LoseDescriptor, Stage
<1>3. ASSUME NEW k \in Clients, ClientStep(k) \/ SendStop(k)
      PROVE  [DataRoot!Next]_<<lock, Stage>>
    BY <1>3, ClientsLeaveLock DEF IInv, FilesInv
<1>4. CASE UNCHANGED vars
    BY <1>4 DEF vars, runtimeVars, Stage
<1> QED BY <1>1, <1>2, <1>3, <1>4 DEF Next
-----------------------------------------------------------------------------
\* A runtime that serves can be found through its files, whatever the other
\* runtimes do (TypeOK goes with it).
THEOREM Discoverable == Spec => [](TypeOK /\ ServingDiscoverable)
<1>1. IInv => TypeOK /\ ServingDiscoverable
    BY DEF IInv, TypeInv, FilesInv, LockInv, TokenInv, DescriptorInv,
           ServingDiscoverable, Owning
<1> QED BY <1>1, Invariance, PTL

\* Only the owner of the lock and crashed processes have files on disk: a
\* shutdown and a failed startup remove them all.
THEOREM NothingIsLeft == Spec => []NothingLeftBehind
<1>1. IInv => NothingLeftBehind
  <2> SUFFICES ASSUME IInv, NEW i \in {token, descriptor, lock} \ {None}
               PROVE  (i = lock /\ Running(i)) \/ pc[i] = "dead"
    BY DEF NothingLeftBehind
  <2>1. i \in Runtimes
    BY DEF IInv, TypeInv, TypeOK
  <2>2. i = lock \/ pc[i] = "dead"
    BY <2>1 DEF IInv, FilesInv, TokenInv, DescriptorInv
  <2> QED BY <2>2 DEF IInv, FilesInv, LockInv, Owning, Running
<1> QED BY <1>1, Invariance, PTL

\* A client talks to the runtime it has discovered and stops no other.
THEOREM ConnectsRight == Spec => []RightRuntime
<1>1. IInv => RightRuntime
    BY DEF IInv, ClientInv
<1> QED BY <1>1, Invariance, PTL

\* A runtime's startup, service and shutdown, its failures and crashes and the
\* start commands that spawn it use the lock as module DataRootLock has it,
\* which is the lock that acquireRuntimeLock implements.
THEOREM RuntimesUseLock == Spec => UsesLock
<1>1. Init => DataRoot!Init
  <2> SUFFICES ASSUME Init PROVE DataRoot!Init
      OBVIOUS
  <2>1. lock \in Leftover \cup {None}
      BY DEF Init, FileOf
  <2>2. Stage = [i \in Runtimes |-> IF i \in Leftover THEN "crashed" ELSE "out"]
      BY DEF Init, Stage
  <2>3. Leftover \in SUBSET Runtimes
      BY RuntimeAssumption
  <2> QED BY <2>1, <2>2, <2>3 DEF DataRoot!Init
<1>2. IInv /\ [Next]_vars => [DataRoot!Next]_<<lock, Stage>>
    BY LockStep
<1> QED BY Invariance, <1>1, <1>2, PTL DEF Spec, UsesLock, DataRoot!Spec
=============================================================================
