------------------------- MODULE PersistenceStartup -------------------------
(***************************************************************************)
(* How a persistence worker comes up on a data root, and how it puts a     *)
(* corrupt database aside: the top level, initialize and                   *)
(* quarantineDatabase of persistence-worker.ts, one step per await or per  *)
(* SQLite statement.  A database file is a number; what is in it is one of *)
(*   "empty"     zero bytes          "blank"      a header without tables   *)
(*   "authority" the tables and history of the manifest                     *)
(*   "foreign"   other tables or another history                            *)
(*   "corrupt"   no database         "damaged"    fails quick_check         *)
(*   "directory" not a file                                                 *)
(***************************************************************************)
EXTENDS Integers, FiniteSets

CONSTANTS Workers,    \* calls of PersistenceWorker.open that may overlap
          Files,      \* the files that can come to be, as numbers
          MaxStarts, MaxCrashes, MaxDamages, MaxFailures, \* bounds of the run
          None

\* What can be in a file.
Kinds == {"empty", "blank", "authority", "foreign", "corrupt", "damaged",
          "directory"}

ASSUME StartupAssumption ==
    /\ Files \subseteq Nat /\ 1 \in Files
    /\ None \notin Files /\ None \notin Kinds

VARIABLES
    path,     \* the file at databasePath
    bytes,    \* what is in each file; None before it exists
    beside,   \* the file whose sidecar stands next to databasePath
    aside,    \* the files that were moved to a quarantine path
    moved,    \* the files whose sidecar was moved there
    marker,   \* whether quarantineMarkerPath exists
    pc,       \* where each worker is
    required, \* quarantineRequired of each
    existed,  \* databaseExisted of each
    conn,     \* the file its connection has open
    answer,   \* what open() returned: "ready", a code, or "died"
    overlap,  \* history: two workers were starting or serving at a time
    starts, crashes, damages, failures

disk == <<path, bytes, beside, aside, moved, marker>>
bounds == <<overlap, starts, crashes, damages, failures>>
vars == <<disk, pc, required, existed, conn, answer, bounds>>

Sidecars == {"-wal", "-shm"}
Codes == {"PERSISTENCE_CORRUPTION", "PERSISTENCE_MIGRATION_MISMATCH",
          "PERSISTENCE_STORAGE_FAILURE", "PERSISTENCE_BUSY",
          "PERSISTENCE_CONTRACT_INVALID"}
Running(w) == pc[w] \notin {"off", "done"}

\* The data root is new, or has a database that some earlier start left.
Init ==
    /\ bytes \in [Files -> {None, "authority", "foreign", "directory"}]
    /\ \A f \in Files : bytes[f] # None => f = 1
    /\ path = (IF bytes[1] = None THEN None ELSE 1)
    /\ beside = [s \in Sidecars |-> None]
    /\ aside = {} /\ moved = [s \in Sidecars |-> {}] /\ marker = FALSE
    /\ pc = [w \in Workers |-> "off"]
    /\ required = [w \in Workers |-> FALSE]
    /\ existed = [w \in Workers |-> FALSE]
    /\ conn = [w \in Workers |-> None]
    /\ answer = [w \in Workers |-> None]
    /\ overlap = FALSE
    /\ starts = 0 /\ crashes = 0 /\ damages = 0 /\ failures = 0

\* What stands at the path.
Found == IF path = None THEN None ELSE bytes[path]

Goto(w, step) == pc' = [pc EXCEPT ![w] = step]

\* The port tells the main thread, whose promise of open() settles.
Answers(w, result) ==
    /\ Goto(w, IF result = "ready" THEN "serving" ELSE "done")
    /\ answer' = [answer EXCEPT ![w] = result]

\* The last connection that closes removes the sidecars of its file.
Disconnect(w) ==
    /\ conn' = [conn EXCEPT ![w] = None]
    /\ beside' = [s \in Sidecars |->
                     IF /\ beside[s] = conn[w]
                        /\ \A v \in Workers \ {w} : conn[v] # conn[w]
                     THEN None ELSE beside[s]]

\* Mutant of Quarantines: any failure on an existing database puts it aside.
QuarantinesAnything(w, code) == ~required[w] /\ existed[w]
\* Only corruption of a database that was there before does.
Quarantines(w, code) ==
    ~required[w] /\ existed[w] /\ code = "PERSISTENCE_CORRUPTION"

\* The catch of the top level: the connection is closed, and a corrupt
\* database is quarantined before open() is answered.
Fails(w, code) ==
    /\ Disconnect(w)
    /\ IF Quarantines(w, code) THEN Goto(w, "quarantine") /\ UNCHANGED answer
       ELSE Answers(w, code)
    /\ UNCHANGED <<path, bytes, aside, moved, marker, required, existed, bounds>>

\* open() starts a worker.
Start(w) ==
    /\ ~Running(w) /\ starts < MaxStarts
    /\ Goto(w, "checkMarker")
    /\ answer' = [answer EXCEPT ![w] = None]
    /\ starts' = starts + 1
    /\ overlap' = (overlap \/ \E v \in Workers \ {w} : Running(v))
    /\ UNCHANGED <<disk, required, existed, conn, crashes, damages, failures>>

CheckMarker(w) ==
    /\ pc[w] = "checkMarker"
    /\ required' = [required EXCEPT ![w] = marker]
    /\ Goto(w, "checkDatabase")
    /\ UNCHANGED <<disk, existed, conn, answer, bounds>>

\* Mutant of CheckDatabase: the marker is only looked at if there is a file.
CheckDatabaseFirst(w) ==
    /\ pc[w] = "checkDatabase"
    /\ existed' = [existed EXCEPT ![w] = path # None]
    /\ Goto(w, IF path = None THEN "loadAssets"
               ELSE IF required[w] THEN "refuse" ELSE "stat")
    /\ UNCHANGED <<disk, required, conn, answer, bounds>>
CheckDatabase(w) ==
    /\ pc[w] = "checkDatabase"
    /\ existed' = [existed EXCEPT ![w] = path # None]
    /\ Goto(w, IF required[w] THEN "refuse"
               ELSE IF path # None THEN "stat" ELSE "loadAssets")
    /\ UNCHANGED <<disk, required, conn, answer, bounds>>

\* A quarantined authority waits for an explicit recovery.
Refuse(w) == pc[w] = "refuse" /\ Fails(w, "PERSISTENCE_CORRUPTION")

\* A file that has gone meanwhile, a directory and an empty file are refused.
StatDatabase(w) ==
    /\ pc[w] = "stat"
    /\ \/ /\ Found \in {None, "directory"}
          /\ Fails(w, "PERSISTENCE_STORAGE_FAILURE")
       \/ Found = "empty" /\ Fails(w, "PERSISTENCE_CORRUPTION")
       \/ /\ Found \notin {None, "directory", "empty"}
          /\ Goto(w, "loadAssets")
          /\ UNCHANGED <<disk, required, existed, conn, answer, bounds>>

\* The configuration, the directory and the checksum of the migration.
LoadAssets(w) ==
    /\ pc[w] = "loadAssets"
    /\ Goto(w, "open")
    /\ UNCHANGED <<disk, required, existed, conn, answer, bounds>>
LoadAssetsFails(w) ==
    /\ pc[w] = "loadAssets" /\ failures < MaxFailures
    /\ failures' = failures + 1
    /\ \E code \in {"PERSISTENCE_CONTRACT_INVALID", "PERSISTENCE_STORAGE_FAILURE",
                    "PERSISTENCE_MIGRATION_MISMATCH"} : Answers(w, code)
    /\ UNCHANGED <<disk, required, existed, conn, overlap, starts, crashes, damages>>
-----------------------------------------------------------------------------
(* The connection.                                                         *)

\* Opening creates the file; a directory cannot be opened.
OpenDatabase(w) ==
    /\ pc[w] = "open"
    /\ \/ Found = "directory" /\ Fails(w, "PERSISTENCE_STORAGE_FAILURE")
       \/ /\ Found \notin {None, "directory"}
          /\ conn' = [conn EXCEPT ![w] = path]
          /\ Goto(w, "enableWal")
          /\ UNCHANGED <<disk, required, existed, answer, bounds>>
       \/ /\ path = None
          /\ \E f \in Files :
              /\ bytes[f] = None /\ \A g \in Files : bytes[g] = None => f <= g
              /\ path' = f
              /\ bytes' = [bytes EXCEPT ![f] = "empty"]
              /\ conn' = [conn EXCEPT ![w] = f]
          /\ Goto(w, "enableWal")
          /\ UNCHANGED <<beside, aside, moved, marker, required, existed,
                         answer, bounds>>

\* PRAGMA journal_mode = WAL writes the header of an empty file.
EnableWal(w) ==
    /\ pc[w] = "enableWal"
    /\ \/ bytes[conn[w]] = "corrupt" /\ Fails(w, "PERSISTENCE_CORRUPTION")
       \/ /\ bytes[conn[w]] # "corrupt"
          /\ bytes' = [bytes EXCEPT ![conn[w]] = IF @ = "empty" THEN "blank" ELSE @]
          /\ beside' = [s \in Sidecars |->
                           IF beside[s] = None THEN conn[w] ELSE beside[s]]
          /\ Goto(w, "quickCheck")
          /\ UNCHANGED <<path, aside, moved, marker, required, existed, conn,
                         answer, bounds>>

QuickCheck(w) ==
    /\ pc[w] = "quickCheck"
    /\ \/ bytes[conn[w]] \in {"damaged", "corrupt"} /\ Fails(w, "PERSISTENCE_CORRUPTION")
       \/ /\ bytes[conn[w]] \notin {"damaged", "corrupt"}
          /\ Goto(w, IF existed[w] THEN "verify" ELSE "migrate")
          /\ UNCHANGED <<disk, required, existed, conn, answer, bounds>>

\* One transaction: the tables, and the history unless it is there already.
applyMigration(w) ==
    /\ pc[w] = "migrate"
    /\ \/ /\ bytes[conn[w]] \in {"blank", "authority"}
          /\ bytes' = [bytes EXCEPT ![conn[w]] = "authority"]
          /\ Goto(w, "verify")
          /\ UNCHANGED <<path, beside, aside, moved, marker, required, existed,
                         conn, answer, bounds>>
       \/ /\ bytes[conn[w]] \notin {"blank", "authority"}
          /\ Fails(w, "PERSISTENCE_MIGRATION_MISMATCH")

\* Mutant of Verified: what is not the authority's schema will do.
VerifiedLoosely(kind) == kind \in {"authority", "foreign"}
\* The complete schema and history are those of the manifest.
Verified(kind) == kind = "authority"

\* verifyAppliedSchema; quick_check and the authorizer follow.
Verify(w) ==
    /\ pc[w] = "verify"
    /\ \/ /\ ~Verified(bytes[conn[w]])
          /\ Fails(w, "PERSISTENCE_MIGRATION_MISMATCH")
       \/ /\ Verified(bytes[conn[w]]) /\ Answers(w, "ready")
          /\ UNCHANGED <<disk, required, existed, conn, bounds>>

\* A statement or file operation that fails for another reason.
OperationFails(w) ==
    /\ pc[w] \in {"open", "enableWal", "quickCheck", "migrate"}
    /\ failures < MaxFailures
    /\ failures' = failures + 1
    /\ Disconnect(w)
    /\ \E code \in {"PERSISTENCE_BUSY", "PERSISTENCE_STORAGE_FAILURE"} :
          IF Quarantines(w, code) THEN Goto(w, "quarantine") /\ UNCHANGED answer
          ELSE Answers(w, code)
    /\ UNCHANGED <<path, bytes, aside, moved, marker, required, existed,
                   overlap, starts, crashes, damages>>
-----------------------------------------------------------------------------
(* quarantineDatabase.                                                     *)

Quarantine(w) ==
    /\ pc[w] = "quarantine"
    /\ IF path = None THEN Answers(w, "PERSISTENCE_CORRUPTION")
       ELSE Goto(w, "mark") /\ UNCHANGED answer
    /\ UNCHANGED <<disk, required, existed, conn, bounds>>

\* Mutant of Mark: an existing marker is waited for.
MarkWaits(w) ==
    /\ pc[w] = "mark" /\ ~marker
    /\ marker' = TRUE
    /\ Goto(w, "rename")
    /\ UNCHANGED <<path, bytes, beside, aside, moved, required, existed, conn,
                   answer, bounds>>
\* The marker is created exclusively; an existing one ends the worker.
Mark(w) ==
    /\ pc[w] = "mark"
    /\ IF marker THEN Answers(w, "died") ELSE Goto(w, "rename") /\ UNCHANGED answer
    /\ marker' = TRUE
    /\ UNCHANGED <<path, bytes, beside, aside, moved, required, existed, conn, bounds>>

\* A file that another connection has open may not be moved (Windows).
Rename(w) ==
    /\ pc[w] = "rename"
    /\ \/ /\ path # None
          /\ aside' = aside \cup {path} /\ path' = None
          /\ Goto(w, "-wal") /\ UNCHANGED answer
       \/ /\ path = None \/ \E v \in Workers : conn[v] = path
          /\ Answers(w, "died") /\ UNCHANGED <<path, aside>>
    /\ UNCHANGED <<bytes, beside, moved, marker, required, existed, conn, bounds>>

\* Each sidecar that is there, in turn.
MoveSidecar(w, s) ==
    /\ pc[w] = s
    /\ moved' = [moved EXCEPT ![s] = @ \cup ({beside[s]} \ {None})]
    /\ beside' = [beside EXCEPT ![s] = None]
    /\ IF s = "-wal" THEN Goto(w, "-shm") /\ UNCHANGED answer
       ELSE Answers(w, "PERSISTENCE_CORRUPTION")
    /\ UNCHANGED <<path, bytes, aside, marker, required, existed, conn, bounds>>
-----------------------------------------------------------------------------
(* What ends a worker, and what storage does.                              *)

\* close(), whose worker removes the sidecars as the last connection.
Close(w) ==
    /\ pc[w] = "serving"
    /\ Disconnect(w) /\ Goto(w, "off")
    /\ UNCHANGED <<path, bytes, aside, moved, marker, required, existed, answer,
                   bounds>>

\* The process or thread ends; the system closes its connection.
Crash(w) ==
    /\ Running(w) /\ crashes < MaxCrashes
    /\ crashes' = crashes + 1
    /\ Goto(w, "off")
    /\ conn' = [conn EXCEPT ![w] = None]
    /\ UNCHANGED <<disk, required, existed, answer, overlap, starts, damages, failures>>

\* The file is truncated or damaged while no worker is about.
Damage ==
    /\ damages < MaxDamages /\ \A w \in Workers : ~Running(w)
    /\ Found \in {"authority", "foreign"}
    /\ \E kind \in {"corrupt", "damaged", "empty"} :
        bytes' = [bytes EXCEPT ![path] = kind]
    /\ damages' = damages + 1
    /\ UNCHANGED <<path, beside, aside, moved, marker, pc, required, existed,
                   conn, answer, overlap, starts, crashes, failures>>

Step(w) ==
    \/ CheckMarker(w) \/ CheckDatabase(w) \/ Refuse(w) \/ StatDatabase(w)
    \/ LoadAssets(w) \/ LoadAssetsFails(w) \/ OpenDatabase(w) \/ EnableWal(w)
    \/ QuickCheck(w) \/ applyMigration(w) \/ Verify(w) \/ OperationFails(w)
    \/ Quarantine(w) \/ Mark(w) \/ Rename(w)
    \/ \E s \in Sidecars : MoveSidecar(w, s)

Next ==
    \/ \E w \in Workers : Start(w) \/ Step(w) \/ Close(w) \/ Crash(w)
    \/ Damage

\* A worker that runs gets on with its start.
Spec == Init /\ [][Next]_vars /\ \A w \in Workers : WF_vars(Step(w))
-----------------------------------------------------------------------------
(* Properties.                                                             *)

\* What was found corrupt is never replaced by an empty database, wherever a
\* start or a quarantine was cut short.  (Only while starts do not overlap: one
\* that read "no marker" before another's quarantine creates a new database.)
NeverReplaced == ~overlap /\ aside # {} => path = None /\ marker

\* Whoever reports ready serves a complete authority database, the one at the
\* path and the one that was opened; and never one that waits for recovery.
ServesAuthority ==
    \A w \in Workers : pc[w] = "serving" =>
        /\ bytes[conn[w]] = "authority"
        /\ ~overlap => conn[w] = path /\ ~marker

\* A failure that is not corruption (another schema, a lock, a full disk, a
\* directory) leaves the database where it is and makes no marker; corruption
\* is only answered for what really is corrupt, or was put aside as such.
OnlyCorruptionQuarantined ==
    /\ \A f \in aside : bytes[f] \in {"corrupt", "damaged", "empty"}
                         \/ overlap
    /\ ~overlap /\ marker =>
          aside # {} \/ Found \in {"corrupt", "damaged", "empty"}

\* However many workers find the corruption, it is put aside once; and its
\* sidecars are moved with it, not those of another database.
QuarantinedOnce ==
    /\ Cardinality(aside) <= 1
    /\ ~overlap => \A s \in Sidecars : moved[s] \subseteq aside

\* What is put aside was corrupt, and is put aside once and whole.
QuarantineSound == OnlyCorruptionQuarantined /\ QuarantinedOnce

\* Each start ends: ready, refused, or its worker has died.
StartSettles ==
    \A w \in Workers : Running(w) ~> (pc[w] = "serving" \/ ~Running(w))
=============================================================================
