-------------------------- MODULE PersistenceProofs --------------------------
(***************************************************************************)
(* What the persistence package guarantees, for any number of workers,     *)
(* calls, starts, crashes and failures: of the database when a worker      *)
(* starts, and of the calls of a running one.                              *)
(***************************************************************************)
EXTENDS PersistenceClient, PersistenceStartup, FiniteSetTheorems,
        SequenceTheorems, TLAPS

-----------------------------------------------------------------------------
(* The start: one worker after another, a marker and a quarantine.         *)

Corrupted == {"corrupt", "damaged", "empty"}

\* Where a worker has a connection.
Connected == {"enableWal", "quickCheck", "migrate", "verify", "serving"}
Moving == {"rename", "-wal", "-shm"}
Steps == {"off", "done", "checkMarker", "checkDatabase", "refuse", "stat",
          "loadAssets", "open", "quarantine", "mark"} \cup Connected \cup Moving

TypeInv ==
    /\ path \in Files \cup {None} /\ bytes \in [Files -> Kinds \cup {None}]
    /\ path # None => bytes[path] # None
    /\ beside \in [Sidecars -> Files \cup {None}]
    /\ aside \subseteq Files /\ moved \in [Sidecars -> SUBSET Files]
    /\ marker \in BOOLEAN /\ overlap \in BOOLEAN
    /\ pc \in [Workers -> Steps]
    /\ required \in [Workers -> BOOLEAN] /\ existed \in [Workers -> BOOLEAN]
    /\ conn \in [Workers -> Files \cup {None}]
    /\ answer \in [Workers -> Codes \cup {None, "ready", "died"}]

\* A connection has a file, and who serves an authority, starts overlapping
\* or not.
ConnInv ==
    \A w \in Workers :
        /\ pc[w] \in Connected => conn[w] \in Files /\ bytes[conn[w]] # None
        /\ pc[w] = "serving" => bytes[conn[w]] = "authority"

\* The marker is made by one worker, which alone may move the database, once.
TokenInv ==
    /\ ~marker => aside = {} /\ \A w \in Workers : pc[w] \notin Moving
    /\ \A w \in Workers : pc[w] = "rename" =>
          aside = {} /\ \A v \in Workers : pc[v] = "rename" => v = w
    /\ \A f, g \in aside : f = g

\* While starts do not overlap: what the marker and the quarantine mean.
DiskInv ==
    /\ aside # {} => path = None /\ marker
    /\ \A f \in aside : bytes[f] \in Corrupted
    /\ marker => aside # {} \/ Found \in Corrupted
    /\ \A s \in Sidecars : beside[s] \in {None, path} \cup aside
    /\ \A s \in Sidecars : moved[s] \subseteq aside

\* ... and what the one worker knows of the disk at each of its steps.
Placed(w) ==
    /\ pc[w] = "checkDatabase" => required[w] = marker
    /\ pc[w] = "refuse" => required[w]
    /\ pc[w] \in {"stat", "loadAssets", "open"} \cup Connected =>
          ~required[w] /\ ~marker
    /\ pc[w] \in Connected => conn[w] = path
    /\ pc[w] \in {"quarantine", "mark"} => ~marker /\ Found \in Corrupted
    /\ pc[w] = "rename" => Found \in Corrupted
    /\ pc[w] \in {"-wal", "-shm"} => aside # {}

SoloInv ==
    ~overlap =>
        /\ \A v, w \in Workers : Running(v) /\ Running(w) => v = w
        /\ DiskInv
        /\ \A w \in Workers : Running(w) => Placed(w)

IInv == TypeInv /\ ConnInv /\ TokenInv /\ SoloInv
-----------------------------------------------------------------------------
(* What the steps of one worker leave to be shown.                         *)

\* A step of one worker leaves the other ones where they are.
LEMMA StepOfOne ==
    ASSUME IInv, NEW w \in Workers, Running(w), overlap' = overlap,
           \A v \in Workers \ {w} : pc'[v] = pc[v],
           ~overlap => DiskInv' /\ (Running(w)' => Placed(w)')
    PROVE  SoloInv'
<1> SUFFICES ASSUME ~overlap
             PROVE  /\ \A v, u \in Workers : Running(v)' /\ Running(u)' => v = u
                    /\ DiskInv'
                    /\ \A v \in Workers : Running(v)' => Placed(v)'
    BY DEF SoloInv
<1>1. \A v \in Workers \ {w} : ~Running(v)'
    BY DEF IInv, SoloInv, Running
<1> QED BY <1>1

\* The disk stays as it is, but for the sidecars a closing connection removes.
LEMMA DiskStays ==
    ASSUME TypeInv, DiskInv, UNCHANGED <<path, bytes, aside, moved, marker>>,
           \A s \in Sidecars : beside'[s] \in {None, beside[s]}
    PROVE  DiskInv'
    BY DEF DiskInv, Found

\* Disconnect's effect.
LEMMA Disconnected ==
    ASSUME TypeInv, NEW w \in Workers, Disconnect(w)
    PROVE  /\ conn' \in [Workers -> Files \cup {None}]
           /\ \A v \in Workers \ {w} : conn'[v] = conn[v]
           /\ beside' \in [Sidecars -> Files \cup {None}]
           /\ \A s \in Sidecars : beside'[s] \in {None, beside[s]}
    BY DEF Disconnect, TypeInv

LEMMA MovedOn ==
    ASSUME TypeInv, NEW w \in Workers, NEW step \in Steps, Goto(w, step)
    PROVE  /\ pc' \in [Workers -> Steps] /\ pc'[w] = step
           /\ \A v \in Workers \ {w} : pc'[v] = pc[v]
    BY DEF Goto, TypeInv

LEMMA Answered ==
    ASSUME TypeInv, NEW w \in Workers, NEW r \in Codes \cup {"died"},
           Answers(w, r)
    PROVE  /\ pc' \in [Workers -> Steps] /\ pc'[w] = "done"
           /\ \A v \in Workers \ {w} : pc'[v] = pc[v]
           /\ answer' \in [Workers -> Codes \cup {None, "ready", "died"}]
<1>1. r # "ready"
    BY DEF Codes
<1> QED BY <1>1 DEF Answers, Goto, TypeInv, Steps

\* A worker that leaves the disk alone, and has not got anywhere it needs a
\* connection, or a file to move, for.
LEMMA TokenStays ==
    ASSUME IInv, NEW w \in Workers, pc'[w] \notin Moving,
           \A v \in Workers \ {w} : pc'[v] = pc[v],
           UNCHANGED <<marker, aside>>
    PROVE  TokenInv'
    BY DEF IInv, TokenInv, Moving

LEMMA ConnStays ==
    ASSUME IInv, NEW w \in Workers,
           \A v \in Workers \ {w} : pc'[v] = pc[v] /\ conn'[v] = conn[v],
           bytes' = bytes,
           pc'[w] \notin Connected
    PROVE  ConnInv'
    BY DEF IInv, ConnInv, Connected

\* A start that fails, whether or not the database is put aside.
LEMMA FailsKeeps ==
    ASSUME IInv, NEW w \in Workers, Running(w), NEW code \in Codes,
           Disconnect(w),
           IF Quarantines(w, code) THEN Goto(w, "quarantine") /\ UNCHANGED answer
           ELSE Answers(w, code),
           UNCHANGED <<path, bytes, aside, moved, marker, required, existed, overlap>>,
           ~overlap /\ Quarantines(w, code) => ~marker /\ Found \in Corrupted
    PROVE  IInv'
<1>1. /\ pc' \in [Workers -> Steps] /\ pc'[w] \in {"done", "quarantine"}
      /\ \A v \in Workers \ {w} : pc'[v] = pc[v]
      /\ answer' \in [Workers -> Codes \cup {None, "ready", "died"}]
      /\ pc'[w] = "quarantine" => Quarantines(w, code)
  <2>1. CASE Quarantines(w, code)
    <3>1. "quarantine" \in Steps /\ Goto(w, "quarantine") /\ answer' = answer
        BY <2>1 DEF Steps
    <3> QED BY <2>1, <3>1, MovedOn DEF IInv, TypeInv
  <2>2. CASE ~Quarantines(w, code)
    BY <2>2, Answered DEF IInv
  <2> QED BY <2>1, <2>2
<1>2. /\ conn' \in [Workers -> Files \cup {None}]
      /\ \A v \in Workers \ {w} : conn'[v] = conn[v]
      /\ beside' \in [Sidecars -> Files \cup {None}]
      /\ \A s \in Sidecars : beside'[s] \in {None, beside[s]}
    BY Disconnected DEF IInv
<1>3. TypeInv'
    BY <1>1, <1>2 DEF IInv, TypeInv
<1>4. ConnInv' /\ TokenInv'
    BY <1>1, <1>2, ConnStays, TokenStays DEF Connected, Moving
<1>5. SoloInv'
  <2>1. ASSUME ~overlap PROVE DiskInv'
    BY <1>2, <2>1, DiskStays DEF IInv, SoloInv
  <2>2. ASSUME ~overlap PROVE Placed(w)'
    BY <1>1, <2>2 DEF Placed, Connected, Found
  <2> QED BY <1>1, <2>1, <2>2, StepOfOne
<1> QED BY <1>3, <1>4, <1>5 DEF IInv

\* A step that only takes a worker on, the disk and the connections as before.
LEMMA PassesKeeps ==
    ASSUME IInv, NEW w \in Workers, Running(w),
           UNCHANGED <<disk, conn, overlap>>,
           pc' \in [Workers -> Steps], \A v \in Workers \ {w} : pc'[v] = pc[v],
           required' \in [Workers -> BOOLEAN], existed' \in [Workers -> BOOLEAN],
           answer' \in [Workers -> Codes \cup {None, "ready", "died"}],
           pc'[w] \notin Moving,
           pc'[w] \in Connected => pc[w] \in Connected,
           pc'[w] = "serving" => bytes[conn[w]] = "authority",
           ~overlap /\ Running(w)' => Placed(w)'
    PROVE  IInv'
<1>1. TypeInv'
    BY DEF IInv, TypeInv, disk
<1>2. ConnInv'
    BY DEF IInv, ConnInv, disk
<1>3. TokenInv'
    BY TokenStays DEF disk
<1>4. SoloInv'
  <2>1. ASSUME ~overlap PROVE DiskInv'
    BY <2>1, DiskStays DEF disk, IInv, SoloInv
  <2> QED BY <2>1, StepOfOne
<1> QED BY <1>1, <1>2, <1>3, <1>4 DEF IInv

LEMMA CheckMarkerKeeps ==
    ASSUME IInv, NEW w \in Workers, CheckMarker(w) PROVE IInv'
<1>1. /\ pc[w] = "checkMarker" /\ Running(w) /\ Goto(w, "checkDatabase")
      /\ "checkDatabase" \in Steps
      /\ required' = [required EXCEPT ![w] = marker]
      /\ UNCHANGED <<disk, existed, conn, answer, overlap>>
    BY DEF CheckMarker, Running, Steps, bounds
<1>2. /\ pc' \in [Workers -> Steps] /\ pc'[w] = "checkDatabase"
      /\ \A v \in Workers \ {w} : pc'[v] = pc[v]
    BY <1>1, MovedOn DEF IInv
<1>3. required'[w] = marker /\ required' \in [Workers -> BOOLEAN]
    BY <1>1 DEF IInv, TypeInv
<1>4. Placed(w)'
    BY <1>1, <1>2, <1>3 DEF Placed, Connected, disk
<1> QED BY <1>1, <1>2, <1>3, <1>4, PassesKeeps
        DEF Moving, Connected, IInv, TypeInv

LEMMA CheckDatabaseKeeps ==
    ASSUME IInv, NEW w \in Workers, CheckDatabase(w) PROVE IInv'
<1>1. PICK step \in {"refuse", "stat", "loadAssets"} :
         /\ pc[w] = "checkDatabase" /\ Running(w) /\ Goto(w, step) /\ step \in Steps
         /\ step = "refuse" <=> required[w]
         /\ existed' = [existed EXCEPT ![w] = path # None]
         /\ UNCHANGED <<disk, required, conn, answer, overlap>>
    BY DEF CheckDatabase, Running, Steps, bounds
<1>2. /\ pc' \in [Workers -> Steps] /\ pc'[w] = step
      /\ \A v \in Workers \ {w} : pc'[v] = pc[v]
    BY <1>1, MovedOn DEF IInv
<1>3. existed' \in [Workers -> BOOLEAN]
    BY <1>1 DEF IInv, TypeInv
<1>4. ASSUME ~overlap PROVE Placed(w)'
  <2>1. required[w] = marker
    BY <1>1, <1>4 DEF IInv, SoloInv, Placed
  <2> QED BY <1>1, <1>2, <2>1 DEF Placed, Connected, disk
<1>5. pc'[w] \notin Moving \cup Connected
    BY <1>2 DEF Moving, Connected
<1>6. pc'[w] # "serving"
    BY <1>2
<1> QED BY <1>1, <1>2, <1>3, <1>4, <1>5, <1>6, PassesKeeps DEF IInv, TypeInv

\* A step of Fails.
LEMMA FailsStep ==
    ASSUME IInv, NEW w \in Workers, Running(w), NEW code \in Codes,
           Fails(w, code),
           ~overlap /\ Quarantines(w, code) => ~marker /\ Found \in Corrupted
    PROVE  IInv'
    BY FailsKeeps DEF Fails, bounds

LEMMA RefuseKeeps ==
    ASSUME IInv, NEW w \in Workers, Refuse(w) PROVE IInv'
<1>1. /\ pc[w] = "refuse" /\ Running(w) /\ Fails(w, "PERSISTENCE_CORRUPTION")
      /\ "PERSISTENCE_CORRUPTION" \in Codes
    BY DEF Refuse, Running, Codes
<1>2. ~overlap => required[w]
    BY <1>1 DEF IInv, SoloInv, Placed
<1> QED BY <1>1, <1>2, FailsStep DEF Quarantines

LEMMA StatDatabaseKeeps ==
    ASSUME IInv, NEW w \in Workers, StatDatabase(w) PROVE IInv'
<1>1. pc[w] = "stat" /\ Running(w) /\ ~overlap => ~required[w] /\ ~marker
    BY DEF StatDatabase, Running, IInv, SoloInv, Placed
<1>2. pc[w] = "stat" /\ Running(w)
    BY DEF StatDatabase, Running
<1>3. CASE Fails(w, "PERSISTENCE_STORAGE_FAILURE")
  <2>1. ~Quarantines(w, "PERSISTENCE_STORAGE_FAILURE")
    BY DEF Quarantines
  <2> QED BY <1>2, <1>3, <2>1, FailsStep DEF Codes
<1>4. CASE Found = "empty" /\ Fails(w, "PERSISTENCE_CORRUPTION")
    BY <1>1, <1>2, <1>4, FailsStep DEF Codes, Corrupted
<1>5. CASE /\ Goto(w, "loadAssets")
           /\ UNCHANGED <<disk, required, existed, conn, answer, bounds>>
  <2>1. "loadAssets" \in Steps
    BY DEF Steps
  <2>2. /\ pc' \in [Workers -> Steps] /\ pc'[w] = "loadAssets"
        /\ \A v \in Workers \ {w} : pc'[v] = pc[v]
    BY <1>5, <2>1, MovedOn DEF IInv
  <2>3. ASSUME ~overlap PROVE Placed(w)'
    BY <1>1, <1>2, <1>5, <2>2, <2>3 DEF Placed, Connected, disk
  <2> QED BY <1>2, <1>5, <2>2, <2>3, PassesKeeps
        DEF IInv, TypeInv, Moving, Connected, bounds
<1> QED BY <1>3, <1>4, <1>5 DEF StatDatabase

LEMMA LoadAssetsKeeps ==
    ASSUME IInv, NEW w \in Workers, LoadAssets(w) PROVE IInv'
<1>1. /\ pc[w] = "loadAssets" /\ Running(w) /\ Goto(w, "open") /\ "open" \in Steps
      /\ UNCHANGED <<disk, required, existed, conn, answer, overlap>>
    BY DEF LoadAssets, Running, Steps, bounds
<1>2. /\ pc' \in [Workers -> Steps] /\ pc'[w] = "open"
      /\ \A v \in Workers \ {w} : pc'[v] = pc[v]
    BY <1>1, MovedOn DEF IInv
<1>3. ASSUME ~overlap PROVE Placed(w)'
  <2>1. ~required[w] /\ ~marker
    BY <1>1, <1>3 DEF IInv, SoloInv, Placed
  <2> QED BY <1>1, <1>2, <2>1 DEF Placed, Connected, disk
<1> QED BY <1>1, <1>2, <1>3, PassesKeeps DEF IInv, TypeInv, Moving, Connected

LEMMA LoadAssetsFailsKeeps ==
    ASSUME IInv, NEW w \in Workers, LoadAssetsFails(w) PROVE IInv'
<1>1. PICK code \in {"PERSISTENCE_CONTRACT_INVALID", "PERSISTENCE_STORAGE_FAILURE",
                     "PERSISTENCE_MIGRATION_MISMATCH"} : Answers(w, code)
    BY DEF LoadAssetsFails
<1>2. /\ pc' \in [Workers -> Steps] /\ pc'[w] = "done"
      /\ \A v \in Workers \ {w} : pc'[v] = pc[v]
      /\ answer' \in [Workers -> Codes \cup {None, "ready", "died"}]
    BY <1>1, Answered DEF IInv, Codes
<1>3. /\ UNCHANGED <<disk, required, existed, conn, overlap>>
      /\ Running(w) /\ ~Running(w)'
    BY <1>2 DEF LoadAssetsFails, Running
<1> QED BY <1>2, <1>3, PassesKeeps DEF IInv, TypeInv, Moving, Connected
-----------------------------------------------------------------------------
(* The connection.                                                         *)

LEMMA OpenDatabaseKeeps ==
    ASSUME IInv, NEW w \in Workers, OpenDatabase(w) PROVE IInv'
<1>1. pc[w] = "open" /\ Running(w)
    BY DEF OpenDatabase, Running
<1>2. ~overlap => ~required[w] /\ ~marker /\ DiskInv
    BY <1>1 DEF IInv, SoloInv, Placed
<1>3. CASE Fails(w, "PERSISTENCE_STORAGE_FAILURE")
  <2>1. ~Quarantines(w, "PERSISTENCE_STORAGE_FAILURE")
    BY DEF Quarantines
  <2> QED BY <1>1, <1>3, <2>1, FailsStep DEF Codes
<1>4. ASSUME Goto(w, "enableWal"), NEW f \in Files, path' = f,
             conn' = [conn EXCEPT ![w] = f],
             UNCHANGED <<beside, aside, moved, marker, required, existed,
                         answer, overlap>>,
             \/ path = f /\ bytes' = bytes
             \/ /\ path = None /\ bytes[f] = None
                /\ bytes' = [bytes EXCEPT ![f] = "empty"]
      PROVE  IInv'
  <2>1. "enableWal" \in Steps /\ "enableWal" \notin Moving
    BY DEF Steps, Connected, Moving
  <2>2. /\ pc' \in [Workers -> Steps] /\ pc'[w] = "enableWal"
        /\ \A v \in Workers \ {w} : pc'[v] = pc[v]
    BY <1>4, <2>1, MovedOn DEF IInv
  <2>3. /\ conn'[w] = f /\ conn' \in [Workers -> Files \cup {None}]
        /\ \A v \in Workers \ {w} : conn'[v] = conn[v]
    BY <1>4 DEF IInv, TypeInv
  <2>4. /\ bytes' \in [Files -> Kinds \cup {None}] /\ bytes'[f] # None
        /\ \A g \in Files : bytes[g] # None => bytes'[g] = bytes[g]
    BY <1>4, StartupAssumption DEF IInv, TypeInv, Kinds
  <2>5. TypeInv'
    BY <1>4, <2>2, <2>3, <2>4 DEF IInv, TypeInv
  <2>6. ConnInv'
    BY <1>4, <2>2, <2>3, <2>4, StartupAssumption
    DEF IInv, TypeInv, ConnInv, Connected, Kinds
  <2>7. TokenInv'
    BY <1>4, <2>1, <2>2, TokenStays
  <2>8. ASSUME ~overlap PROVE DiskInv'
    <3>1. aside = {} /\ ~marker
        BY <1>2, <2>8 DEF DiskInv
    <3>2. \A s \in Sidecars : beside'[s] \in {None, f}
        BY <1>2, <1>4, <2>8, <3>1 DEF DiskInv
    <3>3. \A s \in Sidecars : moved'[s] \subseteq aside'
        BY <1>2, <1>4, <2>8 DEF DiskInv
    <3> QED BY <1>4, <3>1, <3>2, <3>3 DEF DiskInv
  <2>9. ASSUME ~overlap PROVE Placed(w)'
    BY <1>2, <1>4, <2>2, <2>3, <2>9 DEF Placed, Connected
  <2>10. SoloInv'
    BY <1>1, <1>4, <2>2, <2>8, <2>9, StepOfOne
  <2> QED BY <2>5, <2>6, <2>7, <2>10 DEF IInv
<1>5. CASE /\ Found \notin {None, "directory"}
           /\ conn' = [conn EXCEPT ![w] = path]
           /\ Goto(w, "enableWal")
           /\ UNCHANGED <<disk, required, existed, answer, bounds>>
  <2>1. path \in Files
    BY <1>5 DEF Found, IInv, TypeInv
  <2> QED BY <1>4, <1>5, <2>1 DEF disk, bounds
<1>6. CASE /\ path = None
           /\ \E f \in Files :
                /\ bytes[f] = None /\ path' = f
                /\ bytes' = [bytes EXCEPT ![f] = "empty"]
                /\ conn' = [conn EXCEPT ![w] = f]
           /\ Goto(w, "enableWal")
           /\ UNCHANGED <<beside, aside, moved, marker, required, existed,
                          answer, bounds>>
    BY <1>4, <1>6 DEF bounds
<1> QED BY <1>3, <1>5, <1>6 DEF OpenDatabase

\* A statement that writes to the file of its connection: it makes no file
\* disappear and spoils no authority.
LEMMA WritesKeeps ==
    ASSUME IInv, NEW w \in Workers, pc[w] \in Connected \ {"serving"},
           NEW step \in {"quickCheck", "verify"}, Goto(w, step),
           NEW kind \in Kinds, bytes' = [bytes EXCEPT ![conn[w]] = kind],
           bytes[conn[w]] = "authority" => kind = "authority",
           beside' \in [Sidecars -> Files \cup {None}],
           \A s \in Sidecars : beside'[s] \in {beside[s], conn[w]},
           UNCHANGED <<path, aside, moved, marker, required, existed, conn,
                       answer, overlap>>
    PROVE  IInv'
<1>1. /\ Running(w) /\ step \in Steps \cap Connected /\ step \notin Moving
      /\ step # "serving" /\ pc[w] \in Connected
    BY DEF Running, Connected, Steps, Moving
<1>2. /\ pc' \in [Workers -> Steps] /\ pc'[w] = step
      /\ \A v \in Workers \ {w} : pc'[v] = pc[v]
    BY <1>1, MovedOn DEF IInv
<1>3. conn[w] \in Files /\ bytes[conn[w]] # None
    BY <1>1 DEF IInv, ConnInv
<1>4. /\ bytes' \in [Files -> Kinds \cup {None}] /\ bytes'[conn[w]] = kind
      /\ \A f \in Files : bytes[f] # None => bytes'[f] # None
      /\ \A f \in Files : bytes[f] = "authority" => bytes'[f] = "authority"
    BY <1>3, StartupAssumption DEF IInv, TypeInv
<1>5. TypeInv'
    BY <1>2, <1>4 DEF IInv, TypeInv
<1>6. ConnInv'
  <2>1. SUFFICES ASSUME NEW v \in Workers
                 PROVE  /\ pc'[v] \in Connected =>
                              conn'[v] \in Files /\ bytes'[conn'[v]] # None
                        /\ pc'[v] = "serving" => bytes'[conn'[v]] = "authority"
    BY DEF ConnInv
  <2>2. pc'[v] \in Connected => pc[v] \in Connected
    BY <1>1, <1>2
  <2>3. pc'[v] = "serving" => pc[v] = "serving" /\ pc[v] \in Connected
    BY <1>1, <1>2 DEF Connected
  <2> QED BY <1>4, <2>2, <2>3 DEF IInv, ConnInv
<1>7. TokenInv'
    BY <1>1, <1>2, TokenStays
<1>8. ASSUME ~overlap PROVE DiskInv' /\ Placed(w)'
  <2>1. ~required[w] /\ ~marker /\ conn[w] = path /\ DiskInv
    BY <1>1, <1>8 DEF IInv, SoloInv, Placed
  <2>2. aside = {}
    BY <2>1 DEF DiskInv
  <2>3. \A s \in Sidecars : beside'[s] \in {None, path'} \cup aside'
    BY <2>1 DEF DiskInv
  <2>4. DiskInv'
    BY <2>1, <2>2, <2>3 DEF DiskInv
  <2>5. Placed(w)'
    BY <1>2, <2>1 DEF Placed, Connected
  <2> QED BY <2>4, <2>5
<1>9. SoloInv'
    BY <1>1, <1>2, <1>8, StepOfOne
<1> QED BY <1>5, <1>6, <1>7, <1>9 DEF IInv

\* What a connection finds corrupt is what is at the path.
LEMMA FoundCorrupt ==
    ASSUME IInv, NEW w \in Workers, pc[w] \in Connected,
           bytes[conn[w]] \in Corrupted, ~overlap
    PROVE  ~marker /\ Found \in Corrupted
<1>1. Running(w)
    BY DEF Running, Connected
<1>2. ~marker /\ conn[w] = path /\ conn[w] \in Files
    BY <1>1 DEF IInv, SoloInv, Placed, ConnInv
<1> QED BY <1>2, StartupAssumption DEF Found

LEMMA EnableWalKeeps ==
    ASSUME IInv, NEW w \in Workers, EnableWal(w) PROVE IInv'
<1>1. pc[w] \in Connected \ {"serving"} /\ Running(w)
    BY DEF EnableWal, Connected, Running
<1>2. CASE bytes[conn[w]] = "corrupt" /\ Fails(w, "PERSISTENCE_CORRUPTION")
    BY <1>1, <1>2, FoundCorrupt, FailsStep DEF Corrupted, Codes
<1>3. CASE /\ bytes[conn[w]] # "corrupt"
           /\ bytes' = [bytes EXCEPT ![conn[w]] = IF @ = "empty" THEN "blank" ELSE @]
           /\ beside' = [s \in Sidecars |->
                            IF beside[s] = None THEN conn[w] ELSE beside[s]]
           /\ Goto(w, "quickCheck")
           /\ UNCHANGED <<path, aside, moved, marker, required, existed, conn,
                          answer, bounds>>
  <2>1. conn[w] \in Files /\ bytes[conn[w]] \in Kinds
    BY <1>1 DEF IInv, ConnInv, TypeInv
  <2>2. PICK kind \in Kinds : /\ bytes' = [bytes EXCEPT ![conn[w]] = kind]
                              /\ bytes[conn[w]] = "authority" => kind = "authority"
    BY <1>3, <2>1 DEF Kinds
  <2>3. /\ beside' \in [Sidecars -> Files \cup {None}]
        /\ \A s \in Sidecars : beside'[s] \in {beside[s], conn[w]}
    BY <1>3, <2>1 DEF IInv, TypeInv
  <2>4. "quickCheck" \in {"quickCheck", "verify"}
    OBVIOUS
  <2> QED BY <1>1, <1>3, <2>2, <2>3, <2>4, WritesKeeps DEF bounds
<1> QED BY <1>2, <1>3 DEF EnableWal

LEMMA QuickCheckKeeps ==
    ASSUME IInv, NEW w \in Workers, QuickCheck(w) PROVE IInv'
<1>1. pc[w] \in Connected /\ pc[w] # "serving" /\ Running(w)
    BY DEF QuickCheck, Connected, Running
<1>2. CASE /\ bytes[conn[w]] \in {"damaged", "corrupt"}
           /\ Fails(w, "PERSISTENCE_CORRUPTION")
    BY <1>1, <1>2, FoundCorrupt, FailsStep DEF Corrupted, Codes
<1>3. ASSUME NEW step \in {"verify", "migrate"}, Goto(w, step),
             UNCHANGED <<disk, required, existed, conn, answer, bounds>>
      PROVE  IInv'
  <2>1. step \in Steps /\ step \in Connected /\ step \notin Moving
    BY DEF Steps, Connected, Moving
  <2>2. /\ pc' \in [Workers -> Steps] /\ pc'[w] = step
        /\ \A v \in Workers \ {w} : pc'[v] = pc[v]
    BY <1>3, <2>1, MovedOn DEF IInv
  <2>3. ASSUME ~overlap PROVE Placed(w)'
    <3>1. ~required[w] /\ ~marker /\ conn[w] = path
        BY <1>1, <2>3 DEF IInv, SoloInv, Placed
    <3> QED BY <1>3, <2>1, <2>2, <3>1 DEF Placed, disk, Connected
  <2>4. step # "serving"
    OBVIOUS
  <2> QED BY <1>1, <1>3, <2>1, <2>2, <2>3, <2>4, PassesKeeps
        DEF IInv, TypeInv, bounds
<1> QED BY <1>2, <1>3 DEF QuickCheck

LEMMA applyMigrationKeeps ==
    ASSUME IInv, NEW w \in Workers, applyMigration(w) PROVE IInv'
<1>1. pc[w] \in Connected \ {"serving"} /\ Running(w)
    BY DEF applyMigration, Connected, Running
<1>2. CASE Fails(w, "PERSISTENCE_MIGRATION_MISMATCH")
  <2>1. ~Quarantines(w, "PERSISTENCE_MIGRATION_MISMATCH")
    BY DEF Quarantines
  <2> QED BY <1>1, <1>2, <2>1, FailsStep DEF Codes
<1>3. CASE /\ bytes' = [bytes EXCEPT ![conn[w]] = "authority"]
           /\ Goto(w, "verify")
           /\ UNCHANGED <<path, beside, aside, moved, marker, required, existed,
                          conn, answer, bounds>>
  <2>1. "authority" \in Kinds /\ "verify" \in {"quickCheck", "verify"}
    BY DEF Kinds
  <2>2. /\ beside' \in [Sidecars -> Files \cup {None}]
        /\ \A s \in Sidecars : beside'[s] \in {beside[s], conn[w]}
    BY <1>3 DEF IInv, TypeInv
  <2> QED BY <1>1, <1>3, <2>1, <2>2, WritesKeeps DEF bounds
<1> QED BY <1>2, <1>3 DEF applyMigration

LEMMA VerifyKeeps ==
    ASSUME IInv, NEW w \in Workers, Verify(w) PROVE IInv'
<1>1. pc[w] \in Connected /\ Running(w)
    BY DEF Verify, Connected, Running
<1>2. CASE Fails(w, "PERSISTENCE_MIGRATION_MISMATCH")
  <2>1. ~Quarantines(w, "PERSISTENCE_MIGRATION_MISMATCH")
    BY DEF Quarantines
  <2> QED BY <1>1, <1>2, <2>1, FailsStep DEF Codes
<1>3. CASE /\ Verified(bytes[conn[w]]) /\ Answers(w, "ready")
           /\ UNCHANGED <<disk, required, existed, conn, bounds>>
  <2>1. bytes[conn[w]] = "authority"
    BY <1>3 DEF Verified
  <2>2. "serving" \in Steps /\ "serving" \in Connected /\ "serving" \notin Moving
    BY DEF Steps, Connected, Moving
  <2>3. /\ pc' \in [Workers -> Steps] /\ pc'[w] = "serving"
        /\ \A v \in Workers \ {w} : pc'[v] = pc[v]
        /\ answer' \in [Workers -> Codes \cup {None, "ready", "died"}]
    BY <1>3, <2>2 DEF IInv, TypeInv, Answers, Goto
  <2>4. ASSUME ~overlap PROVE Placed(w)'
    <3>1. ~required[w] /\ ~marker /\ conn[w] = path
        BY <1>1, <2>4 DEF IInv, SoloInv, Placed
    <3> QED BY <1>3, <2>3, <3>1 DEF Placed, disk
  <2> QED BY <1>1, <1>3, <2>1, <2>2, <2>3, <2>4, PassesKeeps
        DEF IInv, TypeInv, bounds
<1> QED BY <1>2, <1>3 DEF Verify

LEMMA OperationFailsKeeps ==
    ASSUME IInv, NEW w \in Workers, OperationFails(w) PROVE IInv'
<1>1. PICK code \in {"PERSISTENCE_BUSY", "PERSISTENCE_STORAGE_FAILURE"} :
         IF Quarantines(w, code) THEN Goto(w, "quarantine") /\ UNCHANGED answer
         ELSE Answers(w, code)
    BY DEF OperationFails
<1>2. code \in Codes /\ ~Quarantines(w, code)
    BY DEF Codes, Quarantines
<1>3. /\ Running(w) /\ Disconnect(w)
      /\ UNCHANGED <<path, bytes, aside, moved, marker, required, existed, overlap>>
    BY DEF OperationFails, Running
<1> QED BY <1>1, <1>2, <1>3, FailsKeeps
-----------------------------------------------------------------------------
(* The quarantine.                                                         *)

LEMMA QuarantineKeeps ==
    ASSUME IInv, NEW w \in Workers, Quarantine(w) PROVE IInv'
<1>1. /\ pc[w] = "quarantine" /\ Running(w)
      /\ UNCHANGED <<disk, required, existed, conn, overlap>>
    BY DEF Quarantine, Running, bounds
<1>2. /\ pc' \in [Workers -> Steps] /\ pc'[w] \in {"done", "mark"}
      /\ \A v \in Workers \ {w} : pc'[v] = pc[v]
      /\ answer' \in [Workers -> Codes \cup {None, "ready", "died"}]
  <2>1. CASE Answers(w, "PERSISTENCE_CORRUPTION")
    BY <2>1, Answered DEF IInv, Codes
  <2>2. CASE Goto(w, "mark") /\ UNCHANGED answer
    <3>1. "mark" \in Steps
        BY DEF Steps
    <3> QED BY <2>2, <3>1, MovedOn DEF IInv, TypeInv
  <2> QED BY <2>1, <2>2 DEF Quarantine
<1>3. ASSUME ~overlap PROVE Placed(w)'
  <2>1. ~marker /\ Found \in Corrupted
    BY <1>1, <1>3 DEF IInv, SoloInv, Placed
  <2> QED BY <1>1, <1>2, <2>1 DEF Placed, Connected, disk, Found
<1> QED BY <1>1, <1>2, <1>3, PassesKeeps DEF IInv, TypeInv, Moving, Connected

LEMMA MarkKeeps ==
    ASSUME IInv, NEW w \in Workers, Mark(w) PROVE IInv'
<1>1. /\ pc[w] = "mark" /\ Running(w) /\ marker'
      /\ UNCHANGED <<path, bytes, beside, aside, moved, required, existed, conn,
                     overlap>>
    BY DEF Mark, Running, bounds
<1>2. CASE marker
  <2>1. Answers(w, "died")
    BY <1>2 DEF Mark
  <2>2. /\ pc' \in [Workers -> Steps] /\ pc'[w] = "done"
        /\ \A v \in Workers \ {w} : pc'[v] = pc[v]
        /\ answer' \in [Workers -> Codes \cup {None, "ready", "died"}]
    BY <2>1, Answered DEF IInv
  <2>3. marker' = marker
    BY <1>1, <1>2 DEF Mark
  <2>4. ~Running(w)'
    BY <2>2 DEF Running
  <2> QED BY <1>1, <2>2, <2>3, <2>4, PassesKeeps
        DEF IInv, TypeInv, Moving, Connected, disk
<1>3. CASE ~marker
  <2>1. Goto(w, "rename") /\ answer' = answer /\ "rename" \in Steps
    BY <1>3 DEF Mark, Steps, Moving
  <2>2. /\ pc' \in [Workers -> Steps] /\ pc'[w] = "rename"
        /\ \A v \in Workers \ {w} : pc'[v] = pc[v]
    BY <2>1, MovedOn DEF IInv
  <2>3. marker' = TRUE
    BY DEF Mark
  <2>4. TypeInv'
    BY <1>1, <2>1, <2>2, <2>3 DEF IInv, TypeInv
  <2>5. ConnInv'
    BY <1>1, <2>2, ConnStays DEF Connected
  <2>6. TokenInv'
    <3>1. aside' = {} /\ \A v \in Workers \ {w} : pc'[v] # "rename"
        BY <1>1, <1>3, <2>2 DEF IInv, TokenInv, Moving
    <3> QED BY <2>2, <2>3, <3>1 DEF TokenInv
  <2>7. ASSUME ~overlap PROVE DiskInv' /\ Placed(w)'
    <3>1. Found \in Corrupted /\ DiskInv /\ Found' = Found
        BY <1>1, <2>7 DEF IInv, SoloInv, Placed, Found
    <3>2. aside = {}
        BY <1>3, <3>1 DEF DiskInv
    <3>3. DiskInv'
        BY <1>1, <3>1, <3>2 DEF DiskInv
    <3>4. Placed(w)'
        BY <2>2, <3>1 DEF Placed, Connected
    <3> QED BY <3>3, <3>4
  <2>8. SoloInv'
    BY <1>1, <2>2, <2>7, StepOfOne
  <2> QED BY <2>4, <2>5, <2>6, <2>8 DEF IInv
<1> QED BY <1>2, <1>3

LEMMA RenameKeeps ==
    ASSUME IInv, NEW w \in Workers, Rename(w) PROVE IInv'
<1>1. /\ pc[w] = "rename" /\ Running(w)
      /\ UNCHANGED <<bytes, beside, moved, marker, required, existed, conn, overlap>>
    BY DEF Rename, Running, bounds
<1>2. CASE Answers(w, "died") /\ UNCHANGED <<path, aside>>
  <2>1. /\ pc' \in [Workers -> Steps] /\ pc'[w] = "done"
        /\ \A v \in Workers \ {w} : pc'[v] = pc[v]
        /\ answer' \in [Workers -> Codes \cup {None, "ready", "died"}]
    BY <1>2, Answered DEF IInv
  <2>2. ~Running(w)'
    BY <2>1 DEF Running
  <2> QED BY <1>1, <1>2, <2>1, <2>2, PassesKeeps
        DEF IInv, TypeInv, Moving, Connected, disk
<1>3. CASE /\ path # None
           /\ aside' = aside \cup {path} /\ path' = None
           /\ Goto(w, "-wal") /\ UNCHANGED answer
  <2>1. "-wal" \in Steps
    BY DEF Steps, Moving
  <2>2. /\ pc' \in [Workers -> Steps] /\ pc'[w] = "-wal"
        /\ \A v \in Workers \ {w} : pc'[v] = pc[v]
    BY <1>3, <2>1, MovedOn DEF IInv
  <2>3. /\ aside = {} /\ marker /\ aside' = {path} /\ path \in Files
        /\ \A v \in Workers \ {w} : pc[v] # "rename"
    BY <1>1, <1>3 DEF IInv, TypeInv, TokenInv, Moving
  <2>4. TypeInv'
    BY <1>1, <1>3, <2>2, <2>3 DEF IInv, TypeInv
  <2>5. ConnInv'
    BY <1>1, <2>2, ConnStays DEF Connected
  <2>6. TokenInv'
    BY <1>1, <2>2, <2>3 DEF TokenInv
  <2>7. ASSUME ~overlap PROVE DiskInv' /\ Placed(w)'
    <3>1. Found \in Corrupted /\ DiskInv
        BY <1>1, <2>7 DEF IInv, SoloInv, Placed
    <3>2. \A f \in aside' : bytes'[f] \in Corrupted
        BY <1>1, <1>3, <2>3, <3>1 DEF Found
    <3>3. \A s \in Sidecars : beside'[s] \in {None, path'} \cup aside'
        BY <1>1, <2>3, <3>1 DEF DiskInv
    <3>4. \A s \in Sidecars : moved'[s] \subseteq aside'
        BY <1>1, <2>3, <3>1 DEF DiskInv
    <3>5. DiskInv'
        BY <1>1, <1>3, <2>3, <3>2, <3>3, <3>4 DEF DiskInv
    <3>6. Placed(w)'
        BY <2>2, <2>3 DEF Placed, Connected
    <3> QED BY <3>5, <3>6
  <2>8. SoloInv'
    BY <1>1, <2>2, <2>7, StepOfOne
  <2> QED BY <2>4, <2>5, <2>6, <2>8 DEF IInv
<1> QED BY <1>2, <1>3 DEF Rename

LEMMA MoveSidecarKeeps ==
    ASSUME IInv, NEW w \in Workers, NEW s \in Sidecars, MoveSidecar(w, s)
    PROVE  IInv'
<1>1. /\ pc[w] = s /\ pc[w] \in {"-wal", "-shm"} /\ Running(w)
      /\ moved' = [moved EXCEPT ![s] = @ \cup ({beside[s]} \ {None})]
      /\ beside' = [beside EXCEPT ![s] = None]
      /\ UNCHANGED <<path, bytes, aside, marker, required, existed, conn, overlap>>
    BY DEF MoveSidecar, Running, Sidecars, bounds
<1>2. /\ pc' \in [Workers -> Steps] /\ pc'[w] \in {"-shm", "done"}
      /\ \A v \in Workers \ {w} : pc'[v] = pc[v]
      /\ answer' \in [Workers -> Codes \cup {None, "ready", "died"}]
  <2>1. CASE Goto(w, "-shm") /\ UNCHANGED answer
    <3>1. "-shm" \in Steps
        BY DEF Steps, Moving
    <3> QED BY <2>1, <3>1, MovedOn DEF IInv, TypeInv
  <2>2. CASE Answers(w, "PERSISTENCE_CORRUPTION")
    BY <2>2, Answered DEF IInv, Codes
  <2> QED BY <2>1, <2>2 DEF MoveSidecar
<1>3. /\ moved' \in [Sidecars -> SUBSET Files]
      /\ beside' \in [Sidecars -> Files \cup {None}]
      /\ \A t \in Sidecars : beside'[t] \in {None, beside[t]}
      /\ \A t \in Sidecars : moved'[t] \subseteq moved[t] \cup ({beside[t]} \ {None})
    BY <1>1 DEF IInv, TypeInv
<1>4. TypeInv'
    BY <1>1, <1>2, <1>3 DEF IInv, TypeInv
<1>5. ConnInv'
    BY <1>1, <1>2, ConnStays DEF Connected
<1>6. TokenInv'
  <2>1. marker /\ marker'
    BY <1>1 DEF IInv, TokenInv, Moving
  <2> QED BY <1>1, <1>2, <2>1 DEF IInv, TokenInv
<1>7. ASSUME ~overlap PROVE DiskInv' /\ Placed(w)'
  <2>1. aside # {} /\ DiskInv
    BY <1>1, <1>7 DEF IInv, SoloInv, Placed
  <2>2. path = None
    BY <2>1 DEF DiskInv
  <2>3. \A t \in Sidecars : moved'[t] \subseteq aside'
    BY <1>1, <1>3, <2>1, <2>2 DEF DiskInv
  <2>4. \A t \in Sidecars : beside'[t] \in {None, path'} \cup aside'
    BY <1>1, <1>3, <2>1 DEF DiskInv
  <2>5. DiskInv'
    BY <1>1, <2>1, <2>3, <2>4 DEF DiskInv, Found
  <2>6. Placed(w)'
    BY <1>1, <1>2, <2>1 DEF Placed, Connected
  <2> QED BY <2>5, <2>6
<1>8. SoloInv'
    BY <1>1, <1>2, <1>7, StepOfOne
<1> QED BY <1>4, <1>5, <1>6, <1>8 DEF IInv
-----------------------------------------------------------------------------
(* The ends, and the storage.                                              *)

LEMMA EndKeeps ==
    ASSUME IInv, NEW w \in Workers, Close(w) \/ Crash(w) PROVE IInv'
<1>1. /\ Running(w) /\ Goto(w, "off") /\ "off" \in Steps
      /\ UNCHANGED <<path, bytes, aside, moved, marker, required, existed, answer,
                     overlap>>
    BY DEF Close, Crash, Running, Steps, disk, bounds
<1>2. /\ pc' \in [Workers -> Steps] /\ pc'[w] = "off"
      /\ \A v \in Workers \ {w} : pc'[v] = pc[v]
    BY <1>1, MovedOn DEF IInv
<1>3. /\ conn' \in [Workers -> Files \cup {None}]
      /\ \A v \in Workers \ {w} : conn'[v] = conn[v]
      /\ beside' \in [Sidecars -> Files \cup {None}]
      /\ \A s \in Sidecars : beside'[s] \in {None, beside[s]}
    BY Disconnected DEF Close, Crash, disk, IInv, TypeInv
<1>4. TypeInv'
    BY <1>1, <1>2, <1>3 DEF IInv, TypeInv
<1>5. ConnInv' /\ TokenInv'
    BY <1>1, <1>2, <1>3, ConnStays, TokenStays DEF Connected, Moving
<1>6. ASSUME ~overlap PROVE DiskInv'
    BY <1>1, <1>3, <1>6, DiskStays DEF IInv, SoloInv
<1>7. ~Running(w)'
    BY <1>2 DEF Running
<1>8. SoloInv'
    BY <1>1, <1>2, <1>6, <1>7, StepOfOne
<1> QED BY <1>4, <1>5, <1>8 DEF IInv

LEMMA StartKeeps ==
    ASSUME IInv, NEW w \in Workers, Start(w) PROVE IInv'
<1>1. /\ ~Running(w) /\ Goto(w, "checkMarker") /\ "checkMarker" \in Steps
      /\ answer' = [answer EXCEPT ![w] = None]
      /\ overlap' = (overlap \/ \E v \in Workers \ {w} : Running(v))
      /\ UNCHANGED <<disk, required, existed, conn>>
    BY DEF Start, Steps
<1>2. /\ pc' \in [Workers -> Steps] /\ pc'[w] = "checkMarker"
      /\ \A v \in Workers \ {w} : pc'[v] = pc[v]
    BY <1>1, MovedOn DEF IInv
<1>3. TypeInv'
    BY <1>1, <1>2 DEF IInv, TypeInv, disk
<1>4. ConnInv' /\ TokenInv'
    BY <1>1, <1>2, ConnStays, TokenStays DEF Connected, Moving, disk
<1>5. SoloInv'
  <2>1. SUFFICES ASSUME ~overlap'
                 PROVE  /\ \A v, u \in Workers :
                              Running(v)' /\ Running(u)' => v = u
                        /\ DiskInv'
                        /\ \A v \in Workers : Running(v)' => Placed(v)'
    BY DEF SoloInv
  <2>2. ~overlap /\ \A v \in Workers \ {w} : ~Running(v)'
    BY <1>1, <1>2, <2>1 DEF Running
  <2>3. DiskInv'
    BY <1>1, <2>2, DiskStays DEF disk, IInv, SoloInv
  <2>4. Placed(w)'
    BY <1>2 DEF Placed, Connected
  <2> QED BY <2>2, <2>3, <2>4
<1> QED BY <1>3, <1>4, <1>5 DEF IInv

LEMMA DamageKeeps ==
    ASSUME IInv, Damage PROVE IInv'
<1>1. PICK kind \in Corrupted : bytes' = [bytes EXCEPT ![path] = kind]
    BY DEF Damage, Corrupted
<1>2. /\ \A v \in Workers : ~Running(v)
      /\ Found \in {"authority", "foreign"}
      /\ UNCHANGED <<path, beside, aside, moved, marker, pc, required, existed,
                     conn, answer, overlap>>
    BY DEF Damage
<1>3. path \in Files /\ kind \in Kinds /\ bytes'[path] = kind
  <2>1. path # None
    BY <1>2, StartupAssumption DEF Found, Kinds
  <2>2. path \in Files /\ kind \in Kinds
    BY <2>1 DEF IInv, TypeInv, Kinds, Corrupted
  <2> QED BY <1>1, <2>2 DEF IInv, TypeInv
<1>4. TypeInv'
    BY <1>1, <1>2, <1>3, StartupAssumption DEF IInv, TypeInv
<1>5. ConnInv'
    BY <1>2 DEF Running, ConnInv, Connected
<1>6. TokenInv'
    BY <1>2 DEF IInv, TokenInv
<1>7. SoloInv'
  <2>1. SUFFICES ASSUME ~overlap PROVE DiskInv' /\ \A v \in Workers : ~Running(v)'
    BY <1>2 DEF SoloInv
  <2>2. DiskInv /\ path # None
    BY <1>3, <2>1, StartupAssumption DEF IInv, SoloInv
  <2>3. aside = {} /\ Found' \in Corrupted
    BY <1>1, <1>2, <1>3, <2>2 DEF DiskInv, Found
  <2>4. DiskInv'
    BY <1>2, <2>2, <2>3 DEF DiskInv
  <2> QED BY <1>2, <2>4 DEF Running
<1> QED BY <1>4, <1>5, <1>6, <1>7 DEF IInv
-----------------------------------------------------------------------------
(* The theorems.                                                           *)

LEMMA InitInv == Init => IInv
<1> SUFFICES ASSUME Init PROVE IInv
    OBVIOUS
<1>1. /\ \A w \in Workers : pc[w] = "off"
      /\ aside = {} /\ ~marker
      /\ beside = [s \in Sidecars |-> None] /\ moved = [s \in Sidecars |-> {}]
    BY DEF Init
<1>2. TypeInv
  <2>1. /\ path \in Files \cup {None} /\ bytes \in [Files -> Kinds \cup {None}]
        /\ path # None => bytes[path] # None
    BY StartupAssumption DEF Init, Kinds
  <2>2. "off" \in Steps
    BY DEF Steps
  <2> QED BY <2>1, <2>2 DEF Init, TypeInv
<1>3. ConnInv /\ TokenInv
    BY <1>1 DEF ConnInv, TokenInv, Connected, Moving
<1>4. SoloInv
    BY <1>1 DEF SoloInv, DiskInv, Running
<1> QED BY <1>2, <1>3, <1>4 DEF IInv

LEMMA NextInv == IInv /\ [Next]_vars => IInv'
<1> SUFFICES ASSUME IInv, [Next]_vars PROVE IInv'
    OBVIOUS
<1>1. ASSUME NEW w \in Workers, Step(w) PROVE IInv'
    BY <1>1, CheckMarkerKeeps, CheckDatabaseKeeps, RefuseKeeps, StatDatabaseKeeps,
       LoadAssetsKeeps, LoadAssetsFailsKeeps, OpenDatabaseKeeps, EnableWalKeeps,
       QuickCheckKeeps, applyMigrationKeeps, VerifyKeeps, OperationFailsKeeps,
       QuarantineKeeps, MarkKeeps, RenameKeeps, MoveSidecarKeeps, Zenon DEF Step
<1>2. ASSUME NEW w \in Workers, Start(w) \/ Close(w) \/ Crash(w) PROVE IInv'
    BY <1>2, StartKeeps, EndKeeps
<1>3. CASE UNCHANGED vars
    BY <1>3 DEF vars, disk, bounds, IInv, TypeInv, ConnInv, TokenInv, SoloInv,
       DiskInv, Placed, Running, Found
<1> QED BY <1>1, <1>2, <1>3, DamageKeeps DEF Next

LEMMA InvHolds == Spec => []IInv
    BY InitInv, NextInv, PTL DEF Spec

\* What quarantineDatabase has put aside is never replaced by the empty
\* database that open() creates where there is none: the marker written before
\* the rename stands in its way, whatever crash came between.
THEOREM NothingReplaced == Spec => []NeverReplaced
<1>1. IInv => NeverReplaced
    BY DEF IInv, SoloInv, DiskInv, NeverReplaced
<1> QED BY <1>1, InvHolds, PTL

\* A worker that answers "ready" has the manifest's schema and history in the
\* file it opened, even when starts overlap; and when they do not, that file is
\* the one at the path and no quarantine is waiting for recovery.
THEOREM AuthorityServed == Spec => []ServesAuthority
<1>1. IInv => ServesAuthority
    BY DEF IInv, ConnInv, SoloInv, Running, Placed, Connected, ServesAuthority
<1> QED BY <1>1, InvHolds, PTL

\* quarantineDatabase moves what was corrupt and nothing else, moves it once
\* however many workers find it, and moves its own sidecars with it.
THEOREM QuarantineIsSound == Spec => []QuarantineSound
<1>1. ASSUME IInv PROVE QuarantineSound
  <2>1. OnlyCorruptionQuarantined
    BY <1>1 DEF IInv, SoloInv, DiskInv, Corrupted, OnlyCorruptionQuarantined
  <2>2. Cardinality(aside) <= 1
    <3>1. aside = {} \/ \E f : aside = {f}
        BY <1>1 DEF IInv, TokenInv
    <3>2. CASE aside = {}
        BY <3>2, FS_EmptySet
    <3>3. CASE \E f : aside = {f}
      <4>1. PICK f : aside = {f}
        BY <3>3
      <4>2. Cardinality({f}) = 1
        BY FS_Singleton
      <4> QED BY <4>1, <4>2
    <3> QED BY <3>1, <3>2, <3>3
  <2> QED BY <1>1, <2>1, <2>2
        DEF IInv, SoloInv, DiskInv, QuarantineSound, QuarantinedOnce
<1> QED BY <1>1, InvHolds, PTL

-----------------------------------------------------------------------------
(* The facade.  Requests are numbered as they are posted, handled in that  *)
(* order and answered in that order.                                       *)

\* A request is numbered when it is posted, and by no number given before.
NumberInv ==
    /\ \A r \in Requests : id[r] < nextId
    /\ \A r \in Requests :
          state[r] \in {"new", "PERSISTENCE_CLOSED", "PERSISTENCE_QUEUE_FULL"}
              => id[r] = 0
    /\ \A q, r \in Requests : id[q] > 0 /\ id[q] = id[r] => q = r

\* Both queues are in the order of the numbers; what the worker has handled
\* comes before what it has not.
QueueInv ==
    /\ \A i, j \in DOMAIN toWorker : i < j => id[toWorker[i]] < id[toWorker[j]]
    /\ \A i, j \in DOMAIN toMain :
          i < j => id[toMain[i].request] < id[toMain[j].request]
    /\ \A i \in DOMAIN toWorker : id[toWorker[i]] > 0
    /\ \A i \in DOMAIN toMain : toMain[i].request \in handled
    /\ \A q \in handled : id[q] > 0
    /\ \A q \in handled, i \in DOMAIN toWorker : id[q] < id[toWorker[i]]

\* The worker skips nothing, and answers whatever it handles.
HandledInv ==
    /\ worker = "running" =>
          \A r \in Requests : id[r] > 0 => r \in handled \cup ToSet(toWorker)
    /\ \A q \in handled, r \in Requests :
          id[r] > 0 /\ id[r] < id[q] => r \in handled
    /\ \A r \in handled : state[r] = "pending" =>
          \E i \in DOMAIN toMain : toMain[i].request = r

\* An error or an exit comes of a thread that is gone; one that is not, and
\* has not been told to go, holds nothing but what the facade waits for.
ThreadInv ==
    /\ failed \/ exit # -1 => worker = "exited"
    /\ worker = "exited" => toWorker = <<>>
    /\ worker # "exited" /\ ~closed => ToSet(toWorker) \subseteq pending
    /\ IsFiniteSet(pending) /\ Cardinality(pending) <= MaxQueueDepth

ClientInv ==
    /\ TypeOK /\ NumberInv /\ QueueInv /\ HandledInv /\ ThreadInv
    /\ CloseDrains /\ RefusalsDefinite

LEMMA QueueLimits ==
    MaxQueueDepth \in Nat \ {0} /\ Closers \subseteq Requests
    BY ClientAssumption

\* What the worker takes is the head of its queue.
LEMMA Taken ==
    ASSUME NEW S, NEW s \in Seq(S), s # <<>>
    PROVE  /\ RemoveAt(s, NextRequest) \in Seq(S)
           /\ Len(s) \in Nat \ {0} /\ DOMAIN s = 1 .. Len(s)
           /\ DOMAIN RemoveAt(s, NextRequest) = 1 .. Len(s) - 1
           /\ \A i \in 1 .. Len(s) - 1 : RemoveAt(s, NextRequest)[i] = s[i + 1]
<1>1. /\ Len(s) \in Nat \ {0} /\ DOMAIN s = 1 .. Len(s)
      /\ \A i \in 1 .. Len(s) : s[i] \in S
    BY LenProperties, EmptySeq, ElementOfSeq
<1> DEFINE rest == SubSeq(s, 2, Len(s))
<1>2. /\ rest \in Seq(S) /\ Len(rest) = Len(s) - 1
      /\ \A i \in 1 .. Len(s) - 1 : rest[i] = s[i + 1]
  <2>1. \A i \in 2 .. Len(s) : s[i] \in S
    BY <1>1
  <2>2. /\ rest \in Seq(S)
        /\ Len(rest) = IF 2 <= Len(s) THEN Len(s) - 2 + 1 ELSE 0
        /\ \A i \in 1 .. Len(s) - 2 + 1 : rest[i] = s[2 + i - 1]
    BY <1>1, <2>1, SubSeqProperties
  <2> HIDE DEF rest
  <2>3. Len(rest) = Len(s) - 1
    <3>1. CASE 2 <= Len(s)
        BY <1>1, <2>2, <3>1
    <3>2. CASE ~(2 <= Len(s))
      <4>1. Len(s) = 1
        BY <1>1, <3>2
      <4>2. Len(rest) = 0
        BY <2>2, <3>2
      <4> QED BY <4>1, <4>2
    <3> QED BY <3>1, <3>2
  <2>4. ASSUME NEW i \in 1 .. Len(s) - 1 PROVE rest[i] = s[i + 1]
    <3>1. i \in 1 .. Len(s) - 2 + 1 /\ 2 + i - 1 = i + 1
        BY <1>1
    <3>2. rest[i] = s[2 + i - 1]
        BY <2>2, <3>1
    <3> QED BY <3>1, <3>2
  <2> QED BY <2>2, <2>3, <2>4
<1>3. SubSeq(s, 1, 0) = <<>>
    BY SubSeqEmpty
<1>4. RemoveAt(s, NextRequest) = rest
  <2>1. RemoveAt(s, NextRequest) = SubSeq(s, 1, 0) \o rest
    BY DEF RemoveAt, NextRequest
  <2> HIDE DEF rest
  <2> QED BY <1>2, <1>3, <2>1, ConcatEmptySeq
<1> HIDE DEF rest
<1>5. DOMAIN rest = 1 .. Len(s) - 1
    BY <1>2, LenProperties
<1> QED BY <1>1, <1>2, <1>4, <1>5

\* What may be waited for is bounded when what the worker holds is waited for.
LEMMA Bounded ==
    ASSUME ThreadInv
    PROVE  QueueBounded
<1>1. CASE closed \/ worker = "exited"
    BY <1>1 DEF QueueBounded
<1>2. CASE ~closed /\ worker # "exited"
  <2>1. pending \cup ToSet(toWorker) = pending
    BY <1>2 DEF ThreadInv
  <2> QED BY <2>1 DEF ThreadInv, QueueBounded
<1> QED BY <1>1, <1>2

LEMMA ClientInitInv == ClientInit => ClientInv
<1> SUFFICES ASSUME ClientInit PROVE ClientInv
    OBVIOUS
<1> USE DEF ClientInit
<1>1. /\ toWorker = <<>> /\ toMain = <<>> /\ handled = {} /\ pending = {}
      /\ DOMAIN <<>> = {} /\ ToSet(<<>>) = {}
    BY DEF ToSet
<1>2. ThreadInv
    BY <1>1, QueueLimits, FS_EmptySet DEF ThreadInv
<1>3. TypeOK
  <2>1. toWorker \in Seq(Requests) /\ toMain \in Seq(Message)
    BY EmptySeq
  <2>2. /\ state \in [Requests -> {"new", "pending", "resolved"} \cup CallErrors]
        /\ id \in [Requests -> Nat] /\ nextId \in Nat \ {0}
    OBVIOUS
  <2>3. pending = {r \in Requests : state[r] = "pending"}
    OBVIOUS
  <2>4. {closed, closing, killed, failed} \subseteq BOOLEAN
    OBVIOUS
  <2>5. exit \in -1..1
    OBVIOUS
  <2> QED BY <1>1, <1>2, <2>1, <2>2, <2>3, <2>4, <2>5, Bounded DEF TypeOK
<1>4. NumberInv /\ QueueInv
    BY <1>1 DEF NumberInv, QueueInv
<1>5. HandledInv
    BY <1>1 DEF HandledInv
<1>6. CloseDrains /\ RefusalsDefinite
    BY <1>1 DEF CloseDrains, RefusalsDefinite
<1> QED BY <1>2, <1>3, <1>4, <1>5, <1>6 DEF ClientInv

\* A call that is refused changes nothing but its own answer.
LEMMA RefusedKeeps ==
    ASSUME ClientInv, NEW r \in Requests, state[r] = "new",
           NEW code \in {"resolved", "PERSISTENCE_CLOSED", "PERSISTENCE_QUEUE_FULL"},
           state' = [state EXCEPT ![r] = code],
           UNCHANGED <<id, nextId, pending, toWorker, closed, closing, toMain, thread>>
    PROVE  ClientInv'
<1> USE DEF thread
<1>1. id[r] = 0
    BY DEF ClientInv, NumberInv
<1>2. r \notin handled \cup ToSet(toWorker)
    BY <1>1 DEF ClientInv, QueueInv, ToSet
<1>3. ThreadInv'
    BY DEF ClientInv, ThreadInv
<1>4. TypeOK'
  <2>1. state' \in [Requests -> {"new", "pending", "resolved"} \cup CallErrors]
    BY DEF ClientInv, TypeOK, CallErrors
  <2>2. pending' = {x \in Requests : state'[x] = "pending"}
    BY DEF ClientInv, TypeOK
  <2> QED BY <1>3, <2>1, <2>2, Bounded DEF ClientInv, TypeOK, QueueBounded
<1>5. \A x \in Requests : x # r => state'[x] = state[x]
    BY DEF ClientInv, TypeOK
<1>6. NumberInv'
    BY <1>1, <1>5 DEF ClientInv, NumberInv
<1>7. QueueInv'
    BY DEF ClientInv, QueueInv
<1>8. HandledInv'
    BY <1>1, <1>2, <1>5 DEF ClientInv, HandledInv
<1>9. CloseDrains'
    BY <1>1, <1>5, QueueLimits DEF ClientInv, CloseDrains
<1>10. RefusalsDefinite'
    BY <1>2, <1>5 DEF ClientInv, TypeOK, RefusalsDefinite
<1> QED BY <1>3, <1>4, <1>6, <1>7, <1>8, <1>9, <1>10 DEF ClientInv

\* A call that is posted takes the next number and the end of the queue.
LEMMA PostedKeeps ==
    ASSUME ClientInv, NEW r \in Requests, Request(r), state'[r] = "pending"
    PROVE  ClientInv'
<1>1. /\ state[r] = "new" /\ ~closed /\ ~QueueFull
      /\ state' = [state EXCEPT ![r] = "pending"]
      /\ id' = [id EXCEPT ![r] = nextId] /\ nextId' = nextId + 1
      /\ pending' = pending \cup {r}
      /\ toWorker' = IF worker = "exited" THEN toWorker ELSE Append(toWorker, r)
      /\ UNCHANGED <<closed, closing, toMain, worker, killed, failed, exit, handled>>
    BY DEF Request, Reject, thread, ClientInv, TypeOK
<1>2. /\ id \in [Requests -> Nat] /\ nextId \in Nat \ {0} /\ id[r] = 0
      /\ \A x \in Requests : id[x] < nextId
      /\ toWorker \in Seq(Requests) /\ handled \subseteq Requests
    BY <1>1 DEF ClientInv, TypeOK, NumberInv
<1>3. /\ id' \in [Requests -> Nat] /\ nextId' \in Nat \ {0} /\ id'[r] = nextId
      /\ \A x \in Requests : x # r => id'[x] = id[x] /\ state'[x] = state[x]
      /\ state'[r] = "pending"
    BY <1>1, <1>2 DEF ClientInv, TypeOK
<1>4. /\ toWorker' \in Seq(Requests) /\ Len(toWorker) \in Nat
      /\ DOMAIN toWorker = 1 .. Len(toWorker)
      /\ \A i \in DOMAIN toWorker : toWorker[i] \in Requests
    BY <1>1, <1>2, AppendProperties, LenProperties, ElementOfSeq
<1>5. /\ DOMAIN toWorker \subseteq DOMAIN toWorker'
      /\ \A i \in DOMAIN toWorker : toWorker'[i] = toWorker[i]
      /\ worker # "exited" => /\ DOMAIN toWorker' = 1 .. Len(toWorker) + 1
                              /\ toWorker'[Len(toWorker) + 1] = r
      /\ worker = "exited" => toWorker' = toWorker
  <2>1. CASE worker = "exited"
    <3>1. toWorker' = toWorker
        BY <1>1, <2>1
    <3> QED BY <2>1, <3>1
  <2>2. CASE worker # "exited"
    <3>1. toWorker' = Append(toWorker, r)
        BY <1>1, <2>2
    <3>2. DOMAIN toWorker' = 1 .. Len(toWorker) + 1
        BY <1>2, <1>4, <3>1, AppendProperties, LenProperties
    <3>3. /\ \A i \in 1 .. Len(toWorker) : toWorker'[i] = toWorker[i]
          /\ toWorker'[Len(toWorker) + 1] = r
        BY <1>2, <3>1, AppendProperties
    <3>4. DOMAIN toWorker \subseteq DOMAIN toWorker'
        BY <1>4, <3>2
    <3> QED BY <1>4, <2>2, <3>2, <3>3, <3>4
  <2> QED BY <2>1, <2>2
<1>6. r \notin handled /\ \A i \in DOMAIN toWorker : toWorker[i] # r
    BY <1>2 DEF ClientInv, QueueInv
<1>7. \A i \in DOMAIN toMain : toMain[i].request \in handled \ {r}
    BY <1>6 DEF ClientInv, QueueInv
<1>8. NumberInv'
  <2>1. \A x \in Requests : id'[x] < nextId'
    BY <1>1, <1>2, <1>3
  <2>2. \A x \in Requests :
           state'[x] \in {"new", "PERSISTENCE_CLOSED", "PERSISTENCE_QUEUE_FULL"}
              => id'[x] = 0
    BY <1>3 DEF ClientInv, NumberInv
  <2>3. ASSUME NEW p \in Requests, NEW x \in Requests, id'[p] > 0, id'[p] = id'[x]
        PROVE  p = x
    <3>1. CASE p # r /\ x # r
        BY <1>3, <2>3, <3>1 DEF ClientInv, NumberInv
    <3>2. CASE p = r /\ x # r
      <4>1. id[x] = nextId /\ id[x] < nextId /\ id[x] \in Nat
        BY <1>2, <1>3, <2>3, <3>2
      <4> QED BY <1>2, <4>1
    <3>3. CASE p # r /\ x = r
      <4>1. id[p] = nextId /\ id[p] < nextId /\ id[p] \in Nat
        BY <1>2, <1>3, <2>3, <3>3
      <4> QED BY <1>2, <4>1
    <3> QED BY <3>1, <3>2, <3>3
  <2> QED BY <2>1, <2>2, <2>3 DEF NumberInv
<1>9. QueueInv'
  <2>1. ASSUME NEW i \in DOMAIN toWorker', i \notin DOMAIN toWorker
        PROVE  worker # "exited" /\ i = Len(toWorker) + 1 /\ toWorker'[i] = r
    BY <1>4, <1>5, <2>1
  <2>2. ASSUME NEW i \in DOMAIN toWorker', NEW j \in DOMAIN toWorker', i < j
        PROVE  id'[toWorker'[i]] < id'[toWorker'[j]]
    <3>1. i \in DOMAIN toWorker
        BY <1>4, <1>5, <2>1, <2>2
    <3>2. id'[toWorker'[i]] = id[toWorker[i]] /\ toWorker[i] \in Requests
        BY <1>3, <1>4, <1>5, <1>6, <3>1
    <3>3. CASE j \in DOMAIN toWorker
      <4>1. id'[toWorker'[j]] = id[toWorker[j]]
        BY <1>3, <1>4, <1>5, <1>6, <3>3
      <4> QED BY <2>2, <3>1, <3>2, <3>3, <4>1 DEF ClientInv, QueueInv
    <3>4. CASE j \notin DOMAIN toWorker
        BY <1>2, <1>3, <2>1, <3>2, <3>4
    <3> QED BY <3>3, <3>4
  <2>3. \A i \in DOMAIN toWorker' : id'[toWorker'[i]] > 0
    <3> TAKE i \in DOMAIN toWorker'
    <3>1. CASE i \in DOMAIN toWorker
      <4>1. id'[toWorker'[i]] = id[toWorker[i]]
        BY <1>3, <1>4, <1>5, <1>6, <3>1
      <4> QED BY <3>1, <4>1 DEF ClientInv, QueueInv
    <3>2. CASE i \notin DOMAIN toWorker
        BY <1>2, <1>3, <2>1, <3>2
    <3> QED BY <3>1, <3>2
  <2>4. \A x \in handled : x \in Requests /\ id'[x] = id[x]
    BY <1>2, <1>3, <1>6
  <2>5. \A i, j \in DOMAIN toMain' :
           i < j => id'[toMain'[i].request] < id'[toMain'[j].request]
    BY <1>1, <1>7, <2>4 DEF ClientInv, QueueInv
  <2>6. \A i \in DOMAIN toMain' : toMain'[i].request \in handled'
    BY <1>1, <1>7
  <2>7. \A x \in handled' : id'[x] > 0
    BY <1>1, <2>4 DEF ClientInv, QueueInv
  <2>8. ASSUME NEW x \in handled, NEW i \in DOMAIN toWorker'
        PROVE  id'[x] < id'[toWorker'[i]]
    <3>1. CASE i \in DOMAIN toWorker
      <4>1. id'[toWorker'[i]] = id[toWorker[i]]
        BY <1>3, <1>4, <1>5, <1>6, <3>1
      <4> QED BY <2>4, <3>1, <4>1 DEF ClientInv, QueueInv
    <3>2. CASE i \notin DOMAIN toWorker
        BY <1>2, <1>3, <2>1, <2>4, <3>2
    <3> QED BY <3>1, <3>2
  <2> QED BY <1>1, <2>2, <2>3, <2>5, <2>6, <2>7, <2>8 DEF QueueInv
<1>10. /\ ToSet(toWorker) \subseteq ToSet(toWorker')
       /\ worker # "exited" => ToSet(toWorker') = ToSet(toWorker) \cup {r}
  <2>1. \A x \in ToSet(toWorker) : x \in ToSet(toWorker')
    BY <1>5 DEF ToSet
  <2>2. ASSUME worker # "exited"
        PROVE  /\ r \in ToSet(toWorker')
               /\ \A x \in ToSet(toWorker') : x \in ToSet(toWorker) \cup {r}
    <3>1. /\ DOMAIN toWorker' = 1 .. Len(toWorker) + 1
          /\ toWorker'[Len(toWorker) + 1] = r
        BY <1>5, <2>2
    <3>2. Len(toWorker) + 1 \in DOMAIN toWorker'
        BY <1>4, <3>1
    <3>3. \A i \in DOMAIN toWorker' : i \in DOMAIN toWorker \/ i = Len(toWorker) + 1
        BY <1>4, <3>1
    <3> QED BY <1>5, <3>1, <3>2, <3>3 DEF ToSet
  <2> QED BY <2>1, <2>2
<1>11. HandledInv'
  <2>1. worker' = "running" =>
           \A x \in Requests : id'[x] > 0 => x \in handled' \cup ToSet(toWorker')
    BY <1>1, <1>3, <1>10 DEF ClientInv, HandledInv
  <2>2. ASSUME NEW p \in handled, NEW x \in Requests, id'[x] > 0, id'[x] < id'[p]
        PROVE  x \in handled
    BY <1>2, <1>3, <1>6, <2>2 DEF ClientInv, HandledInv
  <2>3. \A x \in handled' : state'[x] = "pending" =>
           \E i \in DOMAIN toMain' : toMain'[i].request = x
    BY <1>1, <1>2, <1>3, <1>6 DEF ClientInv, HandledInv
  <2> QED BY <1>1, <2>1, <2>2, <2>3 DEF HandledInv
<1>12. ThreadInv'
  <2>1. IsFiniteSet(pending') /\ Cardinality(pending') <= MaxQueueDepth
    <3>1. r \notin pending
        BY <1>1 DEF ClientInv, TypeOK
    <3>2. Cardinality(pending) \in Nat /\ Cardinality(pending') = Cardinality(pending) + 1
          /\ IsFiniteSet(pending')
        BY <1>1, <3>1, FS_AddElement, FS_CardinalityType DEF ClientInv, ThreadInv
    <3>3. Cardinality(pending) < MaxQueueDepth
        BY <1>1, <3>2, QueueLimits DEF QueueFull
    <3> QED BY <3>2, <3>3, QueueLimits
  <2>2. worker # "exited" => ToSet(toWorker') \subseteq pending'
    BY <1>1, <1>10 DEF ClientInv, ThreadInv
  <2> QED BY <1>1, <1>5, <2>1, <2>2 DEF ClientInv, ThreadInv
<1>13. TypeOK'
  <2>1. state' \in [Requests -> {"new", "pending", "resolved"} \cup CallErrors]
    BY <1>1 DEF ClientInv, TypeOK
  <2>2. pending' = {x \in Requests : state'[x] = "pending"}
    BY <1>1, <1>3 DEF ClientInv, TypeOK
  <2>3. QueueBounded'
    BY <1>12, Bounded DEF ThreadInv, QueueBounded
  <2> QED BY <1>1, <1>3, <1>4, <2>1, <2>2, <2>3 DEF ClientInv, TypeOK
<1>14. CloseDrains'
  <2> SUFFICES ASSUME NEW c \in Closers, NEW x \in Requests,
                      state'[c] = "resolved", id'[c] > 0, id'[x] > 0, id'[x] < id'[c]
               PROVE  x \in handled /\ state'[x] # "pending"
    BY <1>1 DEF CloseDrains
  <2>1. c \in Requests /\ c # r
    BY <1>3, QueueLimits
  <2>2. x # r
    BY <1>2, <1>3, <2>1
  <2> QED BY <1>3, <2>1, <2>2 DEF ClientInv, CloseDrains
<1>15. RefusalsDefinite'
  <2>1. ASSUME NEW x \in Requests,
               state'[x] \in {"PERSISTENCE_CLOSED", "PERSISTENCE_QUEUE_FULL"}
        PROVE  x \notin handled \cup ToSet(toWorker')
    <3>1. x # r /\ x \notin handled \cup ToSet(toWorker)
        BY <1>3, <2>1 DEF ClientInv, RefusalsDefinite
    <3>2. ToSet(toWorker') \subseteq ToSet(toWorker) \cup {r}
        BY <1>5, <1>10
    <3> QED BY <3>1, <3>2
  <2>2. ASSUME NEW x \in Requests, state'[x] = "PERSISTENCE_STORAGE_FAILURE"
        PROVE  x \in handled
    BY <1>3, <2>2 DEF ClientInv, RefusalsDefinite
  <2> QED BY <1>1, <2>1, <2>2 DEF RefusalsDefinite
<1> QED BY <1>8, <1>9, <1>11, <1>12, <1>13, <1>14, <1>15 DEF ClientInv

\* What an action that posts nothing, moves no message and runs no request
\* leaves as it was.
Queues == <<id, nextId, toMain, handled>>

\* #failPending: nothing waits any more, and no call is given another answer.
LEMMA FailedKeeps ==
    ASSUME ClientInv, FailPending, UNCHANGED <<Queues, toWorker, worker>>,
           closed' \in BOOLEAN, killed' \in BOOLEAN,
           failed' \in BOOLEAN, failed' => failed, exit' \in {exit, -1},
           worker = "exited" \/ closed'
    PROVE  ClientInv'
<1> USE DEF Queues
<1>1. /\ pending' = {} /\ closing' = closing
      /\ \A x \in Requests : \/ state'[x] = state[x] /\ state[x] # "pending"
                             \/ state'[x] = "PERSISTENCE_WORKER_EXITED"
    BY DEF FailPending, ClientInv, TypeOK
<1>2. ThreadInv'
  <2>1. IsFiniteSet(pending') /\ Cardinality(pending') <= MaxQueueDepth
    BY <1>1, FS_EmptySet, QueueLimits
  <2>2. worker # "exited" => closed'
    OBVIOUS
  <2> QED BY <2>1, <2>2 DEF ClientInv, ThreadInv
<1>3. TypeOK'
  <2>1. state' \in [Requests -> {"new", "pending", "resolved"} \cup CallErrors]
    BY DEF FailPending, ClientInv, TypeOK, CallErrors
  <2>2. pending' = {x \in Requests : state'[x] = "pending"}
    BY <1>1
  <2>3. QueueBounded'
    BY <1>2, Bounded DEF ThreadInv, QueueBounded
  <2>4. exit' \in -1..1
    BY DEF ClientInv, TypeOK
  <2>5. {closed', closing', killed', failed'} \subseteq BOOLEAN
    BY <1>1 DEF ClientInv, TypeOK
  <2> QED BY <2>1, <2>2, <2>3, <2>4, <2>5 DEF ClientInv, TypeOK
<1>4. NumberInv'
    BY <1>1 DEF ClientInv, NumberInv
<1>5. QueueInv'
    BY DEF ClientInv, QueueInv
<1>6. HandledInv'
    BY <1>1 DEF ClientInv, HandledInv, TypeOK
<1>7. CloseDrains'
    BY <1>1, QueueLimits DEF ClientInv, CloseDrains
<1>8. RefusalsDefinite'
    BY <1>1 DEF ClientInv, RefusalsDefinite
<1> QED BY <1>2, <1>3, <1>4, <1>5, <1>6, <1>7, <1>8 DEF ClientInv

\* The thread ends, or its end is noticed, or close() goes on.
LEMMA EndedKeeps ==
    ASSUME ClientInv, UNCHANGED <<Queues, state, pending>>,
           \/ toWorker' = toWorker /\ worker' = worker
           \/ toWorker' = <<>> /\ worker' = "exited",
           closed' \in BOOLEAN, closed => closed', closing' \in BOOLEAN,
           killed' \in BOOLEAN, failed' \in BOOLEAN, exit' \in -1..1,
           failed' \/ exit' # -1 => worker' = "exited"
    PROVE  ClientInv'
<1> USE DEF Queues
<1>1. /\ worker' # "exited" => worker' = worker /\ toWorker' = toWorker
      /\ toWorker' \in {toWorker, <<>>} /\ ToSet(toWorker') \subseteq ToSet(toWorker)
      /\ worker' = "exited" => toWorker' = <<>>
  <2>1. DOMAIN <<>> = {} /\ ToSet(<<>>) = {}
    BY DEF ToSet
  <2> QED BY <2>1 DEF ClientInv, ThreadInv
<1>2. ThreadInv'
    BY <1>1 DEF ClientInv, ThreadInv
<1>3. TypeOK'
  <2>1. QueueBounded'
    BY <1>2, Bounded DEF ThreadInv, QueueBounded
  <2>2. toWorker' \in Seq(Requests)
    BY <1>1, EmptySeq DEF ClientInv, TypeOK
  <2>3. {closed', closing', killed', failed'} \subseteq BOOLEAN
    OBVIOUS
  <2>4. worker' \in {"running", "portClosed", "exited"}
    BY <1>1 DEF ClientInv, TypeOK
  <2> QED BY <2>1, <2>2, <2>3, <2>4 DEF ClientInv, TypeOK
<1>4. NumberInv'
    BY DEF ClientInv, NumberInv
<1>5. QueueInv'
  <2>1. DOMAIN <<>> = {}
    OBVIOUS
  <2>2. CASE toWorker' = toWorker
    BY <2>2 DEF ClientInv, QueueInv
  <2>3. CASE toWorker' = <<>>
    BY <2>1, <2>3 DEF ClientInv, QueueInv
  <2> QED BY <1>1, <2>2, <2>3
<1>6. HandledInv'
    BY <1>1 DEF ClientInv, HandledInv
<1>7. CloseDrains'
    BY DEF ClientInv, CloseDrains
<1>8. RefusalsDefinite'
    BY <1>1 DEF ClientInv, RefusalsDefinite
<1> QED BY <1>2, <1>3, <1>4, <1>5, <1>6, <1>7, <1>8 DEF ClientInv

\* The replies come in the order of the requests, so that the reply of a
\* close() finds no earlier one waiting.
LEMMA MessageKeeps ==
    ASSUME ClientInv, OnMessage
    PROVE  ClientInv'
<1> DEFINE r == Head(toMain).request
           reply == Head(toMain).answer
<1>1. /\ toMain \in Seq(Message) /\ toMain # <<>> /\ toMain' = Tail(toMain)
      /\ pending' = pending \ {r}
      /\ state' = IF r \in pending THEN [state EXCEPT ![r] = reply] ELSE state
      /\ closing' \in BOOLEAN
      /\ UNCHANGED <<id, nextId, closed, toWorker, worker, killed, failed, exit, handled>>
    BY DEF OnMessage, thread, ClientInv, TypeOK
<1>2. /\ Len(toMain) \in Nat \ {0} /\ DOMAIN toMain = 1 .. Len(toMain)
      /\ Head(toMain) = toMain[1] /\ Head(toMain) \in Message
      /\ toMain' \in Seq(Message) /\ DOMAIN toMain' = 1 .. Len(toMain) - 1
      /\ \A i \in 1 .. Len(toMain) - 1 : toMain'[i] = toMain[i + 1]
  <2>1. /\ toMain' \in Seq(Message) /\ Len(toMain') = Len(toMain) - 1
        /\ \A i \in 1 .. Len(toMain') : toMain'[i] = toMain[i + 1]
    BY <1>1, HeadTailProperties
  <2>2. Len(toMain) \in Nat \ {0} /\ DOMAIN toMain = 1 .. Len(toMain)
    BY <1>1, LenProperties, EmptySeq
  <2>3. DOMAIN toMain' = 1 .. Len(toMain')
    BY <2>1, LenProperties
  <2> QED BY <1>1, <2>1, <2>2, <2>3, HeadTailProperties
<1>3. /\ r \in Requests /\ reply \in {"resolved", "PERSISTENCE_STORAGE_FAILURE"}
      /\ r = toMain[1].request
    BY <1>2 DEF Message
<1> HIDE DEF r, reply
<1>4. /\ r \in handled /\ id[r] > 0
      /\ \A i \in 2 .. Len(toMain) : id[r] < id[toMain[i].request]
    BY SMTT(60), <1>2, <1>3 DEF ClientInv, QueueInv
<1>5. /\ id \in [Requests -> Nat] /\ handled \subseteq Requests
      /\ state \in [Requests -> {"new", "pending", "resolved"} \cup CallErrors]
      /\ pending = {x \in Requests : state[x] = "pending"}
    BY DEF ClientInv, TypeOK
<1>6. /\ \A x \in Requests : x # r => state'[x] = state[x]
      /\ state'[r] = IF state[r] = "pending" THEN reply ELSE state[r]
      /\ state'[r] # "pending"
    BY <1>1, <1>3, <1>5
<1>7. ThreadInv'
  <2>1. IsFiniteSet(pending') /\ Cardinality(pending') <= MaxQueueDepth
    <3>1. /\ IsFiniteSet(pending') /\ Cardinality(pending') <= Cardinality(pending)
          /\ Cardinality(pending') \in Nat /\ Cardinality(pending) \in Nat
        BY <1>1, FS_Subset, FS_CardinalityType DEF ClientInv, ThreadInv
    <3> QED BY <3>1, QueueLimits DEF ClientInv, ThreadInv
  <2>2. r \notin ToSet(toWorker)
    BY <1>4, <1>5 DEF ClientInv, QueueInv, ToSet
  <2> QED BY <1>1, <2>1, <2>2 DEF ClientInv, ThreadInv
<1>8. TypeOK'
  <2>1. state' \in [Requests -> {"new", "pending", "resolved"} \cup CallErrors]
    BY <1>1, <1>3, <1>5 DEF CallErrors
  <2>2. pending' = {x \in Requests : state'[x] = "pending"}
    BY <1>1, <1>5, <1>6
  <2>3. QueueBounded'
    BY <1>7, Bounded DEF ThreadInv, QueueBounded
  <2> QED BY <1>1, <1>2, <2>1, <2>2, <2>3 DEF ClientInv, TypeOK
<1>9. NumberInv'
    BY <1>1, <1>3, <1>4, <1>6 DEF ClientInv, NumberInv
<1>10. QueueInv'
  <2>1. ASSUME NEW i \in DOMAIN toMain'
        PROVE  i \in 1 .. Len(toMain) - 1 /\ i + 1 \in DOMAIN toMain
               /\ toMain'[i] = toMain[i + 1]
    BY <1>2, <2>1
  <2>2. ASSUME NEW i \in DOMAIN toMain', NEW j \in DOMAIN toMain', i < j
        PROVE  id'[toMain'[i].request] < id'[toMain'[j].request]
    <3>1. i + 1 < j + 1 /\ i + 1 \in DOMAIN toMain /\ j + 1 \in DOMAIN toMain
        BY <2>1, <2>2
    <3> QED BY <1>1, <2>1, <2>2, <3>1 DEF ClientInv, QueueInv
  <2>3. \A i \in DOMAIN toMain' : toMain'[i].request \in handled
    BY <2>1 DEF ClientInv, QueueInv
  <2> QED BY <1>1, <2>2, <2>3 DEF ClientInv, QueueInv
<1>11. HandledInv'
  <2>1. ASSUME NEW x \in handled, state'[x] = "pending"
        PROVE  \E i \in DOMAIN toMain' : toMain'[i].request = x
    <3>1. x # r /\ state[x] = "pending"
        BY <1>5, <1>6, <2>1
    <3>2. PICK i \in DOMAIN toMain : toMain[i].request = x
        BY <3>1 DEF ClientInv, HandledInv
    <3>3. i # 1
        BY <1>3, <3>1, <3>2
    <3>4. /\ i - 1 \in 1 .. Len(toMain) - 1 /\ (i - 1) + 1 = i
        BY <1>2, <3>2, <3>3
    <3>5. toMain'[i - 1].request = x
        BY <1>2, <3>2, <3>4
    <3> QED BY <1>2, <3>4, <3>5
  <2> QED BY <1>1, <2>1 DEF ClientInv, HandledInv
<1>12. CloseDrains'
  <2> SUFFICES ASSUME NEW c \in Closers, NEW x \in Requests,
                      state'[c] = "resolved", id[c] > 0, id[x] > 0, id[x] < id[c]
               PROVE  x \in handled /\ state'[x] # "pending"
    BY <1>1 DEF CloseDrains
  <2>1. CASE state[c] = "resolved"
    BY <1>6, <2>1 DEF ClientInv, CloseDrains
  <2>2. CASE state[c] # "resolved"
    <3>1. c = r
        BY <1>6, <2>2, QueueLimits
    <3>2. x \in handled
        BY <1>4, <3>1 DEF ClientInv, HandledInv
    <3>3. ASSUME state'[x] = "pending" PROVE FALSE
      <4>1. x # r /\ state[x] = "pending"
        BY <1>6, <3>3
      <4>2. PICK i \in DOMAIN toMain : toMain[i].request = x
        BY <3>2, <4>1 DEF ClientInv, HandledInv
      <4>3. i \in 2 .. Len(toMain)
        BY <1>2, <1>3, <4>1, <4>2
      <4>4. id[r] < id[x]
        BY <1>4, <4>2, <4>3
      <4> QED BY <1>3, <1>5, <3>1, <4>4
    <3> QED BY <3>2, <3>3
  <2> QED BY <2>1, <2>2
<1>13. RefusalsDefinite'
  <2>1. ASSUME NEW x \in Requests,
               state'[x] \in {"PERSISTENCE_CLOSED", "PERSISTENCE_QUEUE_FULL"}
        PROVE  state[x] = state'[x]
    BY <1>3, <1>6, <2>1
  <2>2. ASSUME NEW x \in Requests, state'[x] = "PERSISTENCE_STORAGE_FAILURE"
        PROVE  x \in handled
    BY <1>4, <1>6, <2>2 DEF ClientInv, RefusalsDefinite
  <2> QED BY <1>1, <2>1, <2>2 DEF ClientInv, RefusalsDefinite
<1> QED BY <1>7, <1>8, <1>9, <1>10, <1>11, <1>12, <1>13 DEF ClientInv

\* The worker takes the oldest request; it handles and answers it unless its
\* port is closed.
LEMMA HandleKeeps ==
    ASSUME ClientInv, Handle
    PROVE  ClientInv'
<1> DEFINE r == toWorker[NextRequest]
<1>1. /\ worker # "exited" /\ toWorker # <<>>
      /\ toWorker' = RemoveAt(toWorker, NextRequest)
      /\ handled' = IF worker = "running" THEN handled \cup {r} ELSE handled
      /\ UNCHANGED <<state, id, nextId, pending, closed, closing, killed, failed, exit>>
    BY DEF Handle, main
<1>2. PICK reply \in {"resolved", "PERSISTENCE_STORAGE_FAILURE"} :
        /\ toMain' = IF worker = "portClosed" THEN toMain
                     ELSE Append(toMain, [request |-> r, answer |-> reply])
        /\ worker' = IF r \in Closers /\ reply = "resolved" THEN "portClosed"
                     ELSE worker
    BY DEF Handle
<1>3. /\ toWorker \in Seq(Requests) /\ toMain \in Seq(Message)
      /\ worker \in {"running", "portClosed"}
      /\ id \in [Requests -> Nat] /\ handled \subseteq Requests
    BY <1>1 DEF ClientInv, TypeOK
<1>4. /\ Len(toWorker) \in Nat \ {0} /\ DOMAIN toWorker = 1 .. Len(toWorker)
      /\ toWorker' \in Seq(Requests) /\ DOMAIN toWorker' = 1 .. Len(toWorker) - 1
      /\ \A i \in 1 .. Len(toWorker) - 1 : toWorker'[i] = toWorker[i + 1]
    BY <1>1, <1>3, Taken
<1>5. r = toWorker[1] /\ 1 \in DOMAIN toWorker /\ r \in Requests
    BY <1>3, <1>4, ElementOfSeq DEF NextRequest
<1> HIDE DEF r
<1>6. \A i \in DOMAIN toWorker' : /\ i \in DOMAIN toWorker /\ i + 1 \in DOMAIN toWorker
                                  /\ i + 1 > 1 /\ toWorker'[i] = toWorker[i + 1]
    BY <1>4
<1>7. /\ id[r] > 0 /\ r \notin handled
      /\ \A i \in DOMAIN toWorker' : id[r] < id[toWorker'[i]]
      /\ \A q \in handled : id[q] < id[r]
  <2>1. id[r] > 0 /\ \A q \in handled : id[q] < id[r]
    BY <1>5 DEF ClientInv, QueueInv
  <2>2. \A i \in DOMAIN toWorker' : id[r] < id[toWorker'[i]]
    BY <1>5, <1>6 DEF ClientInv, QueueInv
  <2>3. r \notin handled
    BY <1>3, <1>5, <2>1
  <2> QED BY <2>1, <2>2, <2>3
<1>8. ToSet(toWorker') \subseteq ToSet(toWorker)
      /\ ToSet(toWorker) \subseteq ToSet(toWorker') \cup {r}
  <2>1. \A x \in ToSet(toWorker') : x \in ToSet(toWorker)
    BY <1>6 DEF ToSet
  <2>2. ASSUME NEW x \in ToSet(toWorker), x # r PROVE x \in ToSet(toWorker')
    <3>1. PICK i \in DOMAIN toWorker : toWorker[i] = x
        BY <2>2 DEF ToSet
    <3>2. i # 1
        BY <1>5, <2>2, <3>1
    <3>3. i - 1 \in DOMAIN toWorker' /\ (i - 1) + 1 = i
        BY <1>4, <3>1, <3>2
    <3> QED BY <1>6, <3>1, <3>3 DEF ToSet
  <2> QED BY <2>1, <2>2
<1>9. ASSUME worker = "running"
     PROVE  /\ QueueInv' /\ HandledInv'
            /\ handled \subseteq handled' /\ handled' \subseteq Requests
            /\ toMain' \in Seq(Message)
  <2> DEFINE m == [request |-> r, answer |-> reply]
  <2>1. /\ handled' = handled \cup {r} /\ toMain' = Append(toMain, m)
        /\ m \in Message /\ m.request = r
    BY <1>1, <1>2, <1>5, <1>9 DEF Message
  <2> HIDE DEF m
  <2>2. /\ Len(toMain) \in Nat /\ DOMAIN toMain = 1 .. Len(toMain)
        /\ toMain' \in Seq(Message) /\ DOMAIN toMain' = 1 .. Len(toMain) + 1
        /\ \A i \in 1 .. Len(toMain) : toMain'[i] = toMain[i]
        /\ toMain'[Len(toMain) + 1] = m
    <3>1. Len(toMain) \in Nat /\ DOMAIN toMain = 1 .. Len(toMain)
        BY <1>3, LenProperties
    <3>2. DOMAIN toMain' = 1 .. Len(toMain')
        BY <1>3, <2>1, AppendProperties, LenProperties
    <3> QED BY <1>3, <2>1, <3>1, <3>2, AppendProperties
  <2>3. QueueInv'
    <3>1. ASSUME NEW i \in DOMAIN toWorker', NEW j \in DOMAIN toWorker', i < j
          PROVE  id'[toWorker'[i]] < id'[toWorker'[j]]
      <4>1. i + 1 < j + 1 /\ i + 1 \in DOMAIN toWorker /\ j + 1 \in DOMAIN toWorker
        BY <1>4, <1>6, <3>1
      <4> QED BY <1>1, <1>6, <4>1 DEF ClientInv, QueueInv
    <3>2. ASSUME NEW i \in DOMAIN toMain', NEW j \in DOMAIN toMain', i < j
          PROVE  id'[toMain'[i].request] < id'[toMain'[j].request]
      <4>1. i \in DOMAIN toMain /\ toMain'[i] = toMain[i]
        BY <2>2, <3>2
      <4>2. CASE j \in DOMAIN toMain
        BY <1>1, <2>2, <3>2, <4>1, <4>2 DEF ClientInv, QueueInv
      <4>3. CASE j = Len(toMain) + 1
        <5>1. toMain[i].request \in handled
            BY <4>1 DEF ClientInv, QueueInv
        <5> QED BY <1>1, <1>7, <2>1, <2>2, <4>1, <4>3, <5>1
      <4> QED BY <2>2, <4>2, <4>3
    <3>3. \A i \in DOMAIN toWorker' : id'[toWorker'[i]] > 0
        BY <1>1, <1>6 DEF ClientInv, QueueInv
    <3>4. ASSUME NEW i \in DOMAIN toMain' PROVE toMain'[i].request \in handled'
      <4>1. CASE i \in DOMAIN toMain
        BY <2>1, <2>2, <4>1 DEF ClientInv, QueueInv
      <4>2. CASE i = Len(toMain) + 1
        BY <2>1, <2>2, <4>2
      <4> QED BY <2>2, <4>1, <4>2
    <3>5. \A q \in handled' : id'[q] > 0
        BY <1>1, <1>7, <2>1 DEF ClientInv, QueueInv
    <3>6. \A q \in handled', i \in DOMAIN toWorker' : id'[q] < id'[toWorker'[i]]
        BY <1>1, <1>6, <1>7, <2>1 DEF ClientInv, QueueInv
    <3> QED BY <3>1, <3>2, <3>3, <3>4, <3>5, <3>6 DEF QueueInv
  <2>4. HandledInv'
    <3>1. \A x \in Requests : id'[x] > 0 => x \in handled' \cup ToSet(toWorker')
        BY <1>1, <1>8, <1>9, <2>1 DEF ClientInv, HandledInv
    <3>2. ASSUME NEW q \in handled', NEW x \in Requests, id'[x] > 0, id'[x] < id'[q]
          PROVE  x \in handled'
      <4>1. CASE q \in handled
        BY <1>1, <2>1, <3>2, <4>1 DEF ClientInv, HandledInv
      <4>2. CASE q = r
        <5>1. x \in handled \cup ToSet(toWorker)
            BY <1>1, <1>9, <3>2 DEF ClientInv, HandledInv
        <5>2. x \in handled \cup {r} \cup ToSet(toWorker')
            BY <1>8, <5>1
        <5>3. x \notin ToSet(toWorker')
          <6>1. ASSUME NEW i \in DOMAIN toWorker', toWorker'[i] = x PROVE FALSE
            <7>1. id[r] < id[x] /\ id[x] < id[r]
                BY <1>1, <1>7, <3>2, <4>2, <6>1
            <7> QED BY <1>3, <1>5, <7>1
          <6> QED BY <6>1 DEF ToSet
        <5> QED BY <2>1, <5>2, <5>3
      <4> QED BY <2>1, <4>1, <4>2
    <3>3. ASSUME NEW x \in handled', state'[x] = "pending"
          PROVE  \E i \in DOMAIN toMain' : toMain'[i].request = x
      <4>1. CASE x = r
        BY <2>1, <2>2, <4>1
      <4>2. CASE x \in handled
        <5>1. PICK i \in DOMAIN toMain : toMain[i].request = x
            BY <1>1, <3>3, <4>2 DEF ClientInv, HandledInv
        <5> QED BY <2>2, <5>1
      <4> QED BY <2>1, <4>1, <4>2
    <3> QED BY <3>1, <3>2, <3>3 DEF HandledInv
  <2>5. handled \subseteq handled' /\ handled' \subseteq Requests
        /\ toMain' \in Seq(Message)
    BY <1>3, <1>5, <2>1, <2>2
  <2> QED BY <2>3, <2>4, <2>5
<1>10. ASSUME worker = "portClosed"
     PROVE  /\ QueueInv' /\ HandledInv'
            /\ handled \subseteq handled' /\ handled' \subseteq Requests
            /\ toMain' \in Seq(Message)
  <2>1. handled' = handled /\ toMain' = toMain /\ worker' = "portClosed"
    BY <1>1, <1>2, <1>10
  <2>2. QueueInv'
    <3>1. ASSUME NEW i \in DOMAIN toWorker', NEW j \in DOMAIN toWorker', i < j
          PROVE  id'[toWorker'[i]] < id'[toWorker'[j]]
      <4>1. i + 1 < j + 1 /\ i + 1 \in DOMAIN toWorker /\ j + 1 \in DOMAIN toWorker
        BY <1>4, <1>6, <3>1
      <4> QED BY <1>1, <1>6, <4>1 DEF ClientInv, QueueInv
    <3> QED BY <1>1, <1>6, <2>1, <3>1 DEF ClientInv, QueueInv
  <2>3. HandledInv'
    BY <1>1, <2>1 DEF ClientInv, HandledInv
  <2> QED BY <1>3, <2>1, <2>2, <2>3
<1>11. /\ QueueInv' /\ HandledInv'
       /\ handled \subseteq handled' /\ handled' \subseteq Requests
       /\ toMain' \in Seq(Message) /\ worker' \in {"running", "portClosed"}
  <2>1. worker' \in {"running", "portClosed"}
    BY <1>2, <1>3
  <2>2. CASE worker = "running"
    BY <1>9, <2>1, <2>2
  <2>3. CASE worker = "portClosed"
    BY <1>10, <2>1, <2>3
  <2> QED BY <1>3, <2>2, <2>3
<1>12. ThreadInv'
    BY <1>1, <1>8, <1>11 DEF ClientInv, ThreadInv
<1>13. TypeOK'
  <2>1. QueueBounded'
    BY <1>12, Bounded DEF ThreadInv, QueueBounded
  <2> QED BY <1>1, <1>4, <1>11, <2>1 DEF ClientInv, TypeOK
<1>14. NumberInv'
    BY <1>1 DEF ClientInv, NumberInv
<1>15. CloseDrains'
    BY <1>1, <1>11 DEF ClientInv, CloseDrains
<1>16. RefusalsDefinite'
  <2>1. ASSUME NEW x \in Requests,
               state[x] \in {"PERSISTENCE_CLOSED", "PERSISTENCE_QUEUE_FULL"}
        PROVE  x \notin handled' \cup ToSet(toWorker')
    <3>1. x \notin handled \cup ToSet(toWorker)
        BY <2>1 DEF ClientInv, RefusalsDefinite
    <3>2. r \in ToSet(toWorker)
        BY <1>5 DEF ToSet
    <3> QED BY <1>1, <1>8, <3>1, <3>2
  <2> QED BY <1>1, <1>11, <2>1 DEF ClientInv, RefusalsDefinite
<1> QED BY <1>11, <1>12, <1>13, <1>14, <1>15, <1>16 DEF ClientInv

LEMMA ClientNextInv == ClientInv /\ [ClientNext]_clientVars => ClientInv'
<1> SUFFICES ASSUME ClientInv, [ClientNext]_clientVars PROVE ClientInv'
    OBVIOUS
<1>t. /\ {closed, closing, killed, failed} \subseteq BOOLEAN /\ exit \in -1..1
      /\ failed \/ exit # -1 => worker = "exited"
    BY DEF ClientInv, TypeOK, ThreadInv
<1>1. ASSUME NEW r \in Requests, Request(r) PROVE ClientInv'
  <2>1. CASE state'[r] = "pending"
    BY <1>1, <2>1, PostedKeeps
  <2>2. CASE state'[r] # "pending"
    <3>1. PICK code \in {"resolved", "PERSISTENCE_CLOSED", "PERSISTENCE_QUEUE_FULL"} :
            Reject(r, code)
        BY <1>1, <2>2 DEF Request, ClientInv, TypeOK
    <3>2. state[r] = "new" /\ UNCHANGED <<closed, closing, toMain, thread>>
        BY <1>1 DEF Request
    <3> QED BY <3>1, <3>2, RefusedKeeps DEF Reject
  <2> QED BY <2>1, <2>2
<1>2. ASSUME CloseGoesOn PROVE ClientInv'
    BY <1>t, <1>2, EndedKeeps DEF CloseGoesOn, Queues
<1>3. ASSUME Terminate PROVE ClientInv'
    BY <1>t, <1>3, FailedKeeps DEF Terminate, FailPending, Queues
<1>4. ASSUME OnError PROVE ClientInv'
    BY <1>t, <1>4, FailedKeeps DEF OnError, FailPending, Queues
<1>5. ASSUME OnExit PROVE ClientInv'
  <2>1. CASE closed /\ exit = 0
    BY <1>t, <1>5, <2>1, EndedKeeps DEF OnExit, Queues, main
  <2>2. CASE ~(closed /\ exit = 0)
    BY <1>t, <1>5, <2>2, FailedKeeps DEF OnExit, FailPending, Queues
  <2> QED BY <2>1, <2>2
<1>6. ASSUME ExitByItself \/ Terminated \/ ThreadDies PROVE ClientInv'
  <2>1. /\ worker' = "exited" /\ toWorker' = <<>> /\ exit' \in {0, 1}
        /\ failed' \in {failed, TRUE}
        /\ UNCHANGED <<main, toMain, killed, handled>>
    <3>1. CASE ExitByItself
      BY <3>1 DEF ExitByItself, End
    <3>2. CASE Terminated
      BY <3>2 DEF Terminated, End
    <3>3. CASE ThreadDies
      BY <3>3 DEF ThreadDies, End
    <3> QED BY <1>6, <3>1, <3>2, <3>3
  <2>2. UNCHANGED <<Queues, state, pending, closed, closing, killed>>
    BY <2>1 DEF Queues, main
  <2>3. /\ closed' \in BOOLEAN /\ closing' \in BOOLEAN /\ killed' \in BOOLEAN
        /\ failed' \in BOOLEAN /\ exit' \in -1..1
        /\ closed => closed'
    <3>1. exit' \in -1..1
      BY <2>1
    <3>2. closed' = closed /\ closing' = closing /\ killed' = killed
      BY <2>2
    <3>3. /\ closed \in BOOLEAN /\ closing \in BOOLEAN /\ killed \in BOOLEAN
          /\ failed \in BOOLEAN
      BY <1>t
    <3>4. failed' = failed \/ failed' = TRUE
      BY <2>1
    <3> QED BY <3>1, <3>2, <3>3, <3>4
  <2>4. /\ UNCHANGED <<Queues, state, pending>>
        /\ \/ toWorker' = toWorker /\ worker' = worker
           \/ toWorker' = <<>> /\ worker' = "exited"
        /\ failed' \/ exit' # -1 => worker' = "exited"
    BY <2>1, <2>2
  <2> QED BY <2>3, <2>4, EndedKeeps DEF Queues
<1>7. CASE UNCHANGED clientVars
    BY <1>t, <1>7, EndedKeeps DEF clientVars, main, thread, Queues
<1> QED BY <1>1, <1>2, <1>3, <1>4, <1>5, <1>6, <1>7, MessageKeeps, HandleKeeps
        DEF ClientNext, Progress

\* What a settled call tells its caller is so, for any number of calls, close()
\* calls and any queue depth: close() has drained what was posted before it, a
\* refused request is never executed, an answered one was, and the queue keeps
\* its bound.
THEOREM CallsAreDefinite == ClientSpec => [](TypeOK /\ CallsDefinite)
<1>1. ClientInv => TypeOK /\ CallsDefinite
    BY DEF ClientInv, TypeOK, CallsDefinite
<1> QED BY <1>1, ClientInitInv, ClientNextInv, PTL DEF ClientSpec
=============================================================================
