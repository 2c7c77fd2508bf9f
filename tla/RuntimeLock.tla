---------------------------- MODULE RuntimeLock ----------------------------
(***************************************************************************)
(* acquireRuntimeLock of packages/platform: processes that start a control *)
(* runtime on one data root elect one of them by a bakery over claim       *)
(* directories, and the elected one writes the lock file.  An attempt is   *)
(* one call; its claim directory has a name of its own (PID and nonce).    *)
(* Every file operation is a step, so that attempts interleave between any *)
(* two awaits.  A process may crash anywhere, leaving its claim and the    *)
(* lock file behind, and its PID may come back as another process.         *)
(***************************************************************************)
EXTENDS Integers

CONSTANTS Attempts, \* calls; a number is its claim's rank in string order
          Pid,      \* attempt -> the PID of the process that makes it
          None      \* no attempt

Pids == {Pid[a] : a \in Attempts}

ASSUME AttemptsAssumption == Attempts \subseteq Nat /\ None \notin Attempts

VARIABLES
    alive,    \* the PIDs process.kill(pid, 0) finds
    dir,      \* the claim directories that exist
    tickets,  \* claim directory -> the content of its ticket.json, 0: none
    lock,     \* whose content control-api.lock has, or None
    pc,       \* where attempt a is
    ticket,   \* the ticket attempt a has drawn
    todo,     \* the names of its readdir it has still to look at
    at,       \* the claim whose ticket it is reading, or None
    claims,   \* the RuntimeClaims it has collected; ticket 0 stands for null
    outcome,  \* what acquireRuntimeLock answered, "" until then
    crashed   \* history: some process has crashed

disk  == <<dir, tickets, lock>>
local == <<ticket, todo, at, claims>>
vars  == <<alive, disk, pc, local, outcome, crashed>>

Init ==
    /\ alive = Pids
    /\ dir = {} /\ lock = None
    /\ tickets = [a \in Attempts |-> 0]
    /\ pc = [a \in Attempts |-> "idle"]
    /\ ticket = [a \in Attempts |-> 0]
    /\ todo = [a \in Attempts |-> {}]
    /\ at = [a \in Attempts |-> None]
    /\ claims = [a \in Attempts |-> {}]
    /\ outcome = [a \in Attempts |-> ""]
    /\ crashed = FALSE

\* acquireRuntimeLock is called: the claim directory is made.
Claim(a) ==
    /\ pc[a] = "idle" /\ Pid[a] \in alive
    /\ dir' = dir \cup {a}
    /\ pc' = [pc EXCEPT ![a] = "list1"]
    /\ UNCHANGED <<alive, tickets, lock, local, outcome, crashed>>
-----------------------------------------------------------------------------
(* runtimeClaims, called once to draw a ticket (list1, scan1) and then in   *)
(* the loop that waits for choosers (list2, scan2).                         *)

\* The collected claims go out of scope.
Forget(a) == claims' = [claims EXCEPT ![a] = {}]

Scanning == {"scan1", "scan2"}

\* readdir; the attempt's own claim never matters to it.
List(a) ==
    /\ pc[a] \in {"list1", "list2"}
    /\ todo' = [todo EXCEPT ![a] = dir \ {a}]
    /\ Forget(a)
    /\ pc' = [pc EXCEPT ![a] = IF pc[a] = "list1" THEN "scan1" ELSE "scan2"]
    /\ UNCHANGED <<alive, disk, ticket, at, outcome, crashed>>

\* Mutant of Leftover: the claims of dead processes count like any other.
NeverLeftover(n) == FALSE
\* processExists: the claim's process is gone.
Leftover(n) == Pid[n] \notin alive

\* The claim of a dead process is removed, a live one is read.
Probe(a, n) ==
    /\ pc[a] \in Scanning /\ at[a] = None /\ n \in todo[a]
    /\ todo' = [todo EXCEPT ![a] = @ \ {n}]
    /\ \/ /\ Pid[n] \in alive
          /\ at' = [at EXCEPT ![a] = n]
          /\ UNCHANGED <<dir, tickets>>
       \/ /\ Leftover(n)
          /\ dir' = dir \ {n}
          /\ tickets' = [tickets EXCEPT ![n] = 0]
          /\ UNCHANGED at
    /\ UNCHANGED <<alive, lock, pc, ticket, claims, outcome, crashed>>

\* readFile and stat: no ticket in a directory that exists is a chooser.
Read(a) ==
    LET n == at[a] IN
    /\ pc[a] \in Scanning /\ n # None
    /\ at' = [at EXCEPT ![a] = None]
    /\ claims' = IF n \in dir
                 THEN [claims EXCEPT ![a] = @ \cup {<<n, tickets[n]>>}]
                 ELSE claims
    /\ UNCHANGED <<alive, disk, pc, ticket, todo, outcome, crashed>>

\* Windows refuses the path of a directory that is being deleted: the scan
\* starts again for at most a second, then the attempt gives up.
DeletePending(a) ==
    /\ pc[a] \in Scanning /\ at[a] # None /\ pc[at[a]] = "rmdir"
    /\ at' = [at EXCEPT ![a] = None]
    /\ Forget(a)
    /\ todo' = [todo EXCEPT ![a] = {}]
    /\ \/ /\ pc' = [pc EXCEPT ![a] = IF @ = "scan1" THEN "list1" ELSE "list2"]
          /\ UNCHANGED outcome
       \/ /\ pc' = [pc EXCEPT ![a] = "remove"]
          /\ outcome' = [outcome EXCEPT ![a] = "CONTROL_RUNTIME_LOCK_FAILED"]
    /\ UNCHANGED <<alive, disk, ticket, crashed>>
-----------------------------------------------------------------------------
(* acquireRuntimeLock after a complete scan.                                *)

Scanned(a) == todo[a] = {} /\ at[a] = None

\* 1 + Math.max(0, ...) is drawn and published by one rename.
Publish(a) ==
    /\ pc[a] = "scan1" /\ Scanned(a)
    /\ \E m \in {0} \cup {c[2] : c \in claims[a]} :
          /\ \A c \in claims[a] : c[2] <= m
          /\ ticket' = [ticket EXCEPT ![a] = m + 1]
          /\ tickets' = [tickets EXCEPT ![a] = m + 1]
    /\ Forget(a)
    /\ pc' = [pc EXCEPT ![a] = "list2"]
    /\ UNCHANGED <<alive, dir, lock, todo, at, outcome, crashed>>

\* Mutant of Earlier: equal tickets are not told apart by their names.
EarlierOrTied(c, a) == c[2] # 0 /\ c[2] <= ticket[a]

\* A claim with a published ticket that goes first.
Earlier(c, a) ==
    /\ c[2] # 0
    /\ c[2] < ticket[a] \/ (c[2] = ticket[a] /\ c[1] < a)
Beaten(a) == \E c \in claims[a] : Earlier(c, a)
\* Mutant of MustWait: choosers are not waited for.
NeverWaits(a) == FALSE
\* A claim without a ticket belongs to a chooser.
MustWait(a) == \E c \in claims[a] : c[2] = 0

\* The attempt throws: its own claim is removed first.
Abort(a, code) ==
    /\ pc' = [pc EXCEPT ![a] = "remove"]
    /\ outcome' = [outcome EXCEPT ![a] = code]

Lose(a) ==
    /\ pc[a] = "scan2" /\ Scanned(a) /\ Beaten(a)
    /\ Abort(a, "CONTROL_RUNTIME_ALREADY_ACTIVE")
    /\ Forget(a)
    /\ UNCHANGED <<alive, disk, ticket, todo, at, crashed>>
Wait(a) ==
    /\ pc[a] = "scan2" /\ Scanned(a) /\ ~Beaten(a) /\ MustWait(a)
    /\ pc' = [pc EXCEPT ![a] = "list2"]
    /\ Forget(a)
    /\ UNCHANGED <<alive, disk, ticket, todo, at, outcome, crashed>>
\* Mutant of GiveUp: the wait has no deadline.
NeverGivesUp(a) == FALSE
\* Five seconds have passed since the ticket was published.
GiveUp(a) ==
    /\ pc[a] = "scan2" /\ Scanned(a) /\ ~Beaten(a) /\ MustWait(a)
    /\ Abort(a, "CONTROL_RUNTIME_LOCK_FAILED")
    /\ Forget(a)
    /\ UNCHANGED <<alive, disk, ticket, todo, at, crashed>>
Win(a) ==
    /\ pc[a] = "scan2" /\ Scanned(a) /\ ~Beaten(a) /\ ~MustWait(a)
    /\ pc' = [pc EXCEPT ![a] = "check"]
    /\ Forget(a)
    /\ UNCHANGED <<alive, disk, ticket, todo, at, outcome, crashed>>

\* The lock file of a live process is respected.
LockIsLive == lock # None /\ Pid[lock] \in alive
CheckLock(a) ==
    /\ pc[a] = "check"
    /\ \/ /\ lock # None /\ Pid[lock] \in alive
          /\ Abort(a, "CONTROL_RUNTIME_ALREADY_ACTIVE")
       \/ /\ ~LockIsLive
          /\ pc' = [pc EXCEPT ![a] = "write"]
          /\ UNCHANGED outcome
    /\ UNCHANGED <<alive, disk, local, crashed>>
WriteLock(a) ==
    /\ pc[a] = "write"
    /\ lock' = a
    /\ pc' = [pc EXCEPT ![a] = "held"]
    /\ outcome' = [outcome EXCEPT ![a] = "ACQUIRED"]
    /\ UNCHANGED <<alive, dir, tickets, local, crashed>>

\* The release function: the lock file is read, unlinked if it is still this
\* attempt's, and the claim goes last.
Release(a) ==
    /\ pc[a] = "held"
    /\ pc' = [pc EXCEPT ![a] = IF lock = a THEN "unlink" ELSE "remove"]
    /\ UNCHANGED <<alive, disk, local, outcome, crashed>>
\* The lock file goes before the claim does.
Unlink(a) ==
    /\ pc[a] = "unlink"
    /\ lock' = None
    /\ pc' = [pc EXCEPT ![a] = "remove"]
    /\ UNCHANGED <<alive, dir, tickets, local, outcome, crashed>>

\* rm of the own claim: first what is in the directory, then the directory.
Remove(a) ==
    /\ pc[a] = "remove"
    /\ tickets' = [tickets EXCEPT ![a] = 0]
    /\ pc' = [pc EXCEPT ![a] = "rmdir"]
    /\ UNCHANGED <<alive, dir, lock, local, outcome, crashed>>
RemoveDir(a) ==
    /\ pc[a] = "rmdir"
    /\ dir' = dir \ {a}
    /\ pc' = [pc EXCEPT ![a] = "done"]
    /\ UNCHANGED <<alive, tickets, lock, local, outcome, crashed>>
-----------------------------------------------------------------------------
\* A process dies with every attempt it was making or holding, and what they
\* knew; what is on disk stays.
Crash(p) ==
    LET dying == {a \in Attempts : Pid[a] = p /\ pc[a] \notin {"idle", "done"}}
        Kill(f, x) == [a \in Attempts |-> IF a \in dying THEN x ELSE f[a]]
    IN /\ p \in alive
       /\ alive' = alive \ {p}
       /\ pc' = Kill(pc, "dead")
       /\ ticket' = Kill(ticket, 0)
       /\ todo' = Kill(todo, {})
       /\ at' = Kill(at, None)
       /\ claims' = Kill(claims, {})
       /\ outcome' = Kill(outcome, "")
       /\ crashed' = TRUE
       /\ UNCHANGED disk
\* Another process gets the PID.
Respawn(p) ==
    /\ p \notin alive
    /\ alive' = alive \cup {p}
    /\ UNCHANGED <<disk, pc, local, outcome, crashed>>

\* What a running process does next in a call it has begun.
Step(a) ==
    \/ List(a) \/ (\E n \in Attempts : Probe(a, n)) \/ Read(a)
    \/ DeletePending(a) \/ Publish(a) \/ Lose(a) \/ Wait(a) \/ GiveUp(a)
    \/ Win(a) \/ CheckLock(a) \/ WriteLock(a) \/ Unlink(a)
    \/ Remove(a) \/ RemoveDir(a)

Next ==
    \/ \E a \in Attempts : Claim(a) \/ Step(a) \/ Release(a)
    \/ \E p \in Pids : Crash(p) \/ Respawn(p)

\* A live process runs, and the five seconds of a waiting attempt run out; no
\* process has to start, to release or to crash.
Fairness ==
    \A a \in Attempts : WF_vars(Step(a)) /\ SF_vars(GiveUp(a))

Spec == Init /\ [][Next]_vars /\ Fairness
-----------------------------------------------------------------------------
(* Properties.                                                             *)

Elected == {"check", "write", "held", "unlink"}
Published == {"list2", "scan2"} \cup Elected
Active == {"list1", "scan1", "remove", "rmdir"} \cup Published

\* Every variable has its type.
TypeOK ==
    /\ alive \subseteq Pids
    /\ dir \subseteq Attempts
    /\ tickets \in [Attempts -> Nat]
    /\ lock \in Attempts \cup {None}
    /\ pc \in [Attempts -> Active \cup {"idle", "done", "dead"}]
    /\ ticket \in [Attempts -> Nat]
    /\ todo \in [Attempts -> SUBSET Attempts]
    /\ at \in [Attempts -> Attempts \cup {None}]
    /\ claims \in [Attempts -> SUBSET (Attempts \X Nat)]
    /\ outcome \in [Attempts -> {"", "ACQUIRED", "CONTROL_RUNTIME_ALREADY_ACTIVE",
                                 "CONTROL_RUNTIME_LOCK_FAILED"}]
    /\ crashed \in BOOLEAN

\* Two attempts are never both between their election and the end of their
\* release: at most one control runtime owns the data root, whatever the scans
\* interleave, whoever crashes and whichever PIDs are reused.
MutualExclusion ==
    \A a, b \in Attempts : pc[a] \in Elected /\ pc[b] \in Elected => a = b

\* The lock file names the runtime that holds the lock for as long as it does:
\* nobody overwrites it and no late release of another runtime removes it.
LockFileHeld ==
    \A a \in Attempts : pc[a] \in {"held", "unlink"} => lock = a

\* Reclaiming the claims of dead processes never removes the claim or the
\* ticket of a live one, whose PID may be the one that died.
ClaimsSafe ==
    \A a \in Attempts :
        /\ pc[a] \in Active => a \in dir
        /\ pc[a] \in Published => ticket[a] > 0 /\ tickets[a] = ticket[a]

\* Where an attempt stands with the lock.
Stage ==
    [a \in Attempts |->
        CASE pc[a] \in {"held", "unlink"} -> "in"
          [] pc[a] \in {"remove", "rmdir", "done"} -> "over"
          [] pc[a] = "dead" -> "crashed"
          [] OTHER -> "out"]

DataRoot ==
    INSTANCE DataRootLock WITH Owners <- Attempts, file <- lock, stage <- Stage

\* The bakery over claim directories implements a lock that is taken in one
\* step: whoever writes the lock file finds none or one that a crash left,
\* though other attempts have run since it looked, and it alone removes it.
ImplementsLock == DataRoot!Spec

\* A contended start does not cancel itself out: if every attempt has been
\* answered, at least one was given the lock, unless a process crashed or a
\* scan failed.
SomeoneWins ==
    \/ \E a \in Attempts : outcome[a] = "ACQUIRED" \/ pc[a] \notin {"done", "idle"}
    \/ \A a \in Attempts : pc[a] = "idle"
    \/ crashed
    \/ \E a \in Attempts : outcome[a] = "CONTROL_RUNTIME_LOCK_FAILED"

\* acquireRuntimeLock answers every caller whose process lives on.
Settled(a) == pc[a] \in {"idle", "held", "done", "dead"}
AttemptSettles == \A a \in Attempts : ~Settled(a) ~> Settled(a)

\* Only claims and a lock file of dead processes are in the way of a.
Alone(a) ==
    \A b \in Attempts \ {a} :
        /\ b \in dir => Pid[b] \notin alive
        /\ lock = b => Pid[b] \notin alive
\* Crash recovery: an attempt that meets only leftovers of dead processes gets
\* the lock, unless a rival or a reused PID turns up or its own process dies.
RecoversFromCrash ==
    \A a \in Attempts :
        pc[a] = "list1" /\ Alone(a) ~>
            pc[a] \in {"held", "dead"} \/ ~Alone(a)
-----------------------------------------------------------------------------
(* The inductive invariant behind mutual exclusion.                         *)

\* The process of an attempt in progress lives.
AliveInv == \A a \in Attempts : pc[a] \in Active => Pid[a] \in alive

\* A chooser has no ticket yet; a directory that is gone has none.
ChooserInv ==
    \A a \in Attempts : pc[a] \in {"idle", "list1", "scan1"} => tickets[a] = 0

\* What a knows of b lets it be elected before b.
Passed(a, b) ==
    \/ pc[a] \in Elected
    \/ /\ pc[a] = "scan2" /\ b \notin todo[a] /\ at[a] # b
       /\ \A c \in claims[a] : c[1] = b => c[2] # 0 /\ ~Earlier(c, a)

Before(a, b) == ticket[a] < ticket[b] \/ (ticket[a] = ticket[b] /\ a < b)

\* b cannot go before a: it is sure to read a's ticket while it chooses, or it
\* has chosen a later one.
Behind(b, a) ==
    /\ pc[b] = "scan1" =>
          a \in todo[b] \/ at[b] = a \/ <<a, ticket[a]>> \in claims[b]
    /\ pc[b] \in Published => Before(a, b)

\* Once a has passed b, b stays behind a.
BakeryInv ==
    \A a, b \in Attempts : a # b /\ Passed(a, b) => Behind(b, a)

InductiveInv ==
    /\ TypeOK /\ AliveInv /\ ClaimsSafe /\ ChooserInv /\ BakeryInv
    /\ LockFileHeld
=============================================================================
