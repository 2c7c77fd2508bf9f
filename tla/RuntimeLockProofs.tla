------------------------- MODULE RuntimeLockProofs -------------------------
(***************************************************************************)
(* Mutual exclusion of the runtime lock, for any number of attempts and    *)
(* processes.  BakeryInv is the heart of the invariant: once an attempt    *)
(* has passed another, the other can only draw a later ticket.             *)
(***************************************************************************)
EXTENDS RuntimeLock, TLAPS

\* Two attempts that have each passed the other would each go first.
LEMMA ElectedUnique ==
    ASSUME TypeOK, BakeryInv PROVE MutualExclusion
<1> SUFFICES ASSUME NEW a \in Attempts, NEW b \in Attempts, a # b,
                    pc[a] \in Elected, pc[b] \in Elected
             PROVE FALSE
    BY DEF MutualExclusion
<1>1. Passed(a, b) /\ Passed(b, a)
    BY DEF Passed
<1>2. Before(a, b) /\ Before(b, a)
    BY <1>1 DEF BakeryInv, Behind, Published
<1>3. ticket[a] \in Nat /\ ticket[b] \in Nat /\ a \in Nat /\ b \in Nat
    BY AttemptsAssumption DEF TypeOK
<1> QED BY <1>2, <1>3 DEF Before

\* The tickets collected by a scan are numbers, and so is their maximum.
LEMMA ClaimTickets ==
    ASSUME TypeOK, NEW a \in Attempts,
           NEW m \in {0} \cup {c[2] : c \in claims[a]}
    PROVE  m \in Nat /\ \A c \in claims[a] : c[2] \in Nat
<1>1. \A c \in claims[a] : c \in Attempts \X Nat
    BY DEF TypeOK
<1>2. \A c \in claims[a] : c[2] \in Nat
    BY <1>1
<1>3. CASE m = 0
    BY <1>2, <1>3
<1>4. CASE m \in {c[2] : c \in claims[a]}
    BY <1>2, <1>4
<1> QED BY <1>3, <1>4

\* The scans, the election, the lock file and the failures keep every type.
LEMMA TypeStep ==
    ASSUME TypeOK, [Next]_vars PROVE TypeOK'
<1> USE AttemptsAssumption
<1> USE DEF Active, Published, Elected
<1>1. ASSUME NEW a \in Attempts, Claim(a) PROVE TypeOK'
    BY <1>1 DEF Claim, TypeOK, local
<1>2. ASSUME NEW a \in Attempts, List(a) PROVE TypeOK'
    BY <1>2 DEF List, Forget, TypeOK, disk
<1>3. ASSUME NEW a \in Attempts, NEW n \in Attempts, Probe(a, n) PROVE TypeOK'
  <2>1. CASE Pid[n] \in alive
    <3>1. /\ at' = [at EXCEPT ![a] = n] /\ todo' = [todo EXCEPT ![a] = @ \ {n}]
          /\ UNCHANGED <<alive, dir, tickets, lock, pc, ticket, claims,
                         outcome, crashed>>
        BY <1>3, <2>1 DEF Probe, Leftover
    <3>2. /\ at' \in [Attempts -> Attempts \cup {None}]
          /\ todo' \in [Attempts -> SUBSET Attempts]
        BY <3>1 DEF TypeOK
    <3> QED BY <3>1, <3>2 DEF TypeOK
  <2>2. CASE Pid[n] \notin alive
    <3>1. tickets' = [tickets EXCEPT ![n] = 0] /\ dir' = dir \ {n}
        BY <1>3, <2>2 DEF Probe, Leftover
    <3>2. tickets' \in [Attempts -> Nat] /\ dir' \subseteq Attempts
        BY <3>1 DEF TypeOK
    <3> QED BY <1>3, <2>2, <3>2 DEF Probe, Leftover, TypeOK
  <2> QED BY <2>1, <2>2
<1>4. ASSUME NEW a \in Attempts, Read(a) PROVE TypeOK'
  <2>0. at[a] \in Attempts /\ tickets[at[a]] \in Nat
      BY <1>4 DEF Read, TypeOK
  <2>1. claims' \in [Attempts -> SUBSET (Attempts \X Nat)]
    <3> DEFINE grown == claims[a] \cup {<<at[a], tickets[at[a]]>>}
    <3>1. <<at[a], tickets[at[a]]>> \in Attempts \X Nat
        BY <2>0
    <3>2. grown \in SUBSET (Attempts \X Nat)
        BY <3>1 DEF TypeOK
    <3>3. claims' = [claims EXCEPT ![a] = grown] \/ claims' = claims
        BY <1>4 DEF Read, TypeOK
    <3> HIDE DEF grown
    <3> QED BY ZenonT(60), <3>2, <3>3 DEF TypeOK
  <2> QED BY <1>4, <2>1 DEF Read, TypeOK, disk
<1>5. ASSUME NEW a \in Attempts, DeletePending(a) PROVE TypeOK'
  <2>1. pc' \in [Attempts -> Active \cup {"idle", "done", "dead"}]
      BY <1>5 DEF DeletePending, TypeOK
  <2>2. outcome' \in [Attempts -> {"", "ACQUIRED", "CONTROL_RUNTIME_ALREADY_ACTIVE",
                                   "CONTROL_RUNTIME_LOCK_FAILED"}]
      BY <1>5 DEF DeletePending, TypeOK
  <2>3. claims' = [claims EXCEPT ![a] = {}] /\ todo' = [todo EXCEPT ![a] = {}]
        /\ at' = [at EXCEPT ![a] = None]
      BY <1>5 DEF DeletePending, Forget
  <2>4. claims' \in [Attempts -> SUBSET (Attempts \X Nat)]
        /\ todo' \in [Attempts -> SUBSET Attempts]
        /\ at' \in [Attempts -> Attempts \cup {None}]
      BY <2>3 DEF TypeOK
  <2> QED BY <1>5, <2>1, <2>2, <2>4 DEF DeletePending, TypeOK, disk
<1>6. ASSUME NEW a \in Attempts, Publish(a) PROVE TypeOK'
  <2>1. PICK m \in {0} \cup {c[2] : c \in claims[a]} :
            /\ ticket' = [ticket EXCEPT ![a] = m + 1]
            /\ tickets' = [tickets EXCEPT ![a] = m + 1]
      BY <1>6 DEF Publish
  <2>2. m \in Nat
      BY <2>1, ClaimTickets
  <2>3. ticket' \in [Attempts -> Nat] /\ tickets' \in [Attempts -> Nat]
    <3>1. m + 1 \in Nat
        BY <2>2
    <3>2. /\ ticket' = [ticket EXCEPT ![a] = m + 1]
          /\ tickets' = [tickets EXCEPT ![a] = m + 1]
        BY <2>1
    <3>3. ticket \in [Attempts -> Nat] /\ tickets \in [Attempts -> Nat]
        BY DEF TypeOK
    <3> QED BY <3>1, <3>2, <3>3
  <2>4. claims' \in [Attempts -> SUBSET (Attempts \X Nat)]
      BY <1>6 DEF Publish, Forget, TypeOK
  <2>5. /\ pc' = [pc EXCEPT ![a] = "list2"]
        /\ UNCHANGED <<alive, dir, lock, todo, at, outcome, crashed>>
      BY <1>6 DEF Publish
  <2> QED BY <2>3, <2>4, <2>5 DEF TypeOK
<1>7. ASSUME NEW a \in Attempts, Lose(a) \/ Wait(a) \/ GiveUp(a) \/ Win(a)
      PROVE TypeOK'
    BY <1>7 DEF Lose, Wait, GiveUp, Win, Abort, Forget, TypeOK, disk
<1>8. ASSUME NEW a \in Attempts, CheckLock(a) PROVE TypeOK'
  <2>1. pc' \in [Attempts -> Active \cup {"idle", "done", "dead"}]
    <3>1. pc' = [pc EXCEPT ![a] = "remove"] \/ pc' = [pc EXCEPT ![a] = "write"]
        BY <1>8 DEF CheckLock, Abort
    <3> QED BY <3>1 DEF TypeOK
  <2>2. outcome' \in [Attempts -> {"", "ACQUIRED", "CONTROL_RUNTIME_ALREADY_ACTIVE",
                                   "CONTROL_RUNTIME_LOCK_FAILED"}]
      BY <1>8 DEF CheckLock, Abort, TypeOK
  <2>3. UNCHANGED <<alive, disk, local, crashed>>
      BY <1>8 DEF CheckLock
  <2> QED BY <2>1, <2>2, <2>3 DEF TypeOK, disk, local
<1>81. ASSUME NEW a \in Attempts, WriteLock(a) PROVE TypeOK'
    BY <1>81 DEF WriteLock, TypeOK, local
<1>9. ASSUME NEW a \in Attempts,
             Release(a) \/ Unlink(a) \/ Remove(a) \/ RemoveDir(a)
      PROVE TypeOK'
  <2>1. pc' \in [Attempts -> Active \cup {"idle", "done", "dead"}]
      BY <1>9 DEF Release, Unlink, Remove, RemoveDir, TypeOK
  <2>2. dir' \subseteq Attempts /\ lock' \in Attempts \cup {None}
      BY <1>9 DEF Release, Unlink, Remove, RemoveDir, TypeOK, disk
  <2>4. tickets' \in [Attempts -> Nat]
    <3>1. tickets' = tickets \/ tickets' = [tickets EXCEPT ![a] = 0]
        BY <1>9 DEF Release, Unlink, Remove, RemoveDir, disk
    <3>2. tickets \in [Attempts -> Nat]
        BY DEF TypeOK
    <3> QED BY <3>1, <3>2
  <2>3. UNCHANGED <<alive, local, outcome, crashed>>
      BY <1>9 DEF Release, Unlink, Remove, RemoveDir
  <2> QED BY <2>1, <2>2, <2>3, <2>4 DEF TypeOK, local
<1>10. ASSUME NEW p \in Pids, Crash(p) PROVE TypeOK'
    BY <1>10 DEF Crash, TypeOK, disk
<1>11. ASSUME NEW p \in Pids, Respawn(p) PROVE TypeOK'
    BY <1>11 DEF Respawn, TypeOK, disk, local
<1>12. CASE UNCHANGED vars
    BY <1>12 DEF vars, disk, local, TypeOK
<1> QED
    BY <1>1, <1>2, <1>3, <1>4, <1>5, <1>6, <1>7, <1>8, <1>81, <1>9, <1>10, <1>11, <1>12
       DEF Next, Step

\* A live process keeps its claim and its ticket: only a dead PID's claim is
\* reclaimed.
LEMMA ClaimsStep ==
    ASSUME TypeOK, AliveInv, ClaimsSafe, ChooserInv, [Next]_vars
    PROVE  AliveInv' /\ ClaimsSafe' /\ ChooserInv'
<1> USE DEF Active, Published, Elected
<1> DEFINE Ok(a) ==
        /\ pc[a] \in Active => Pid[a] \in alive /\ a \in dir
        /\ pc[a] \in Published => ticket[a] > 0 /\ tickets[a] = ticket[a]
        /\ pc[a] \in {"idle", "list1", "scan1"} => tickets[a] = 0
<1>0. \A a \in Attempts : Ok(a)
    BY DEF AliveInv, ClaimsSafe, ChooserInv
<1> SUFFICES ASSUME NEW b \in Attempts PROVE Ok(b)'
    BY DEF AliveInv, ClaimsSafe, ChooserInv
<1>t. /\ pc \in [Attempts -> Active \cup {"idle", "done", "dead"}]
      /\ tickets \in [Attempts -> Nat] /\ ticket \in [Attempts -> Nat]
    BY DEF TypeOK
<1>1. ASSUME NEW a \in Attempts, Claim(a) PROVE Ok(b)'
    BY <1>0, <1>1, <1>t DEF Claim, local
<1>2. ASSUME NEW a \in Attempts, List(a) PROVE Ok(b)'
    BY <1>0, <1>2, <1>t DEF List, disk
<1>3. ASSUME NEW a \in Attempts, NEW n \in Attempts, Probe(a, n) PROVE Ok(b)'
    BY <1>0, <1>3, <1>t DEF Probe, Leftover
<1>4. ASSUME NEW a \in Attempts, Read(a) PROVE Ok(b)'
    BY <1>0, <1>4, <1>t DEF Read, disk
<1>5. ASSUME NEW a \in Attempts, DeletePending(a) PROVE Ok(b)'
  <2>1. /\ pc[a] \in Scanning /\ UNCHANGED <<alive, dir, tickets, ticket>>
        /\ pc' = [pc EXCEPT ![a] = IF pc[a] = "scan1" THEN "list1" ELSE "list2"]
           \/ pc' = [pc EXCEPT ![a] = "remove"]
      BY <1>5 DEF DeletePending, disk
  <2> QED BY <1>0, <1>t, <2>1 DEF Scanning
<1>6. ASSUME NEW a \in Attempts, Publish(a) PROVE Ok(b)'
  <2>1. PICK m \in {0} \cup {c[2] : c \in claims[a]} :
            /\ ticket' = [ticket EXCEPT ![a] = m + 1]
            /\ tickets' = [tickets EXCEPT ![a] = m + 1]
      BY <1>6 DEF Publish
  <2>2. m \in Nat
      BY ClaimTickets
  <2>3. /\ pc[a] = "scan1" /\ pc' = [pc EXCEPT ![a] = "list2"]
        /\ UNCHANGED <<alive, dir>>
      BY <1>6 DEF Publish
  <2> QED BY <1>0, <1>t, <2>1, <2>2, <2>3
<1>7. ASSUME NEW a \in Attempts, Lose(a) \/ Wait(a) \/ GiveUp(a) \/ Win(a)
      PROVE Ok(b)'
    BY <1>0, <1>7, <1>t DEF Lose, Wait, GiveUp, Win, Abort, disk
<1>8. ASSUME NEW a \in Attempts, CheckLock(a) \/ WriteLock(a) PROVE Ok(b)'
    BY <1>0, <1>8, <1>t DEF CheckLock, WriteLock, Abort, disk, local
<1>9. ASSUME NEW a \in Attempts, Release(a) \/ Unlink(a) PROVE Ok(b)'
    BY <1>0, <1>9, <1>t DEF Release, Unlink, disk, local
<1>10. ASSUME NEW a \in Attempts, Remove(a) \/ RemoveDir(a) PROVE Ok(b)'
    BY <1>0, <1>10, <1>t DEF Remove, RemoveDir, local
<1>11. ASSUME NEW p \in Pids, Crash(p) PROVE Ok(b)'
    BY <1>0, <1>11, <1>t DEF Crash, disk
<1>12. ASSUME NEW p \in Pids, Respawn(p) PROVE Ok(b)'
    BY <1>0, <1>12, <1>t DEF Respawn, disk, local
<1>13. CASE UNCHANGED vars
    BY <1>0, <1>13 DEF vars, disk, local
<1> QED
    BY <1>1, <1>2, <1>3, <1>4, <1>5, <1>6, <1>7, <1>8, <1>9, <1>10, <1>11,
       <1>12, <1>13 DEF Next, Step

\* Nobody gets behind an attempt that has passed it and then before it again.
LEMMA BakeryStep ==
    ASSUME TypeOK, AliveInv, ClaimsSafe, ChooserInv, BakeryInv, [Next]_vars
    PROVE  BakeryInv'
<1> USE AttemptsAssumption
<1> USE DEF Published, Elected
<1> SUFFICES ASSUME NEW a \in Attempts, NEW b \in Attempts, a # b, Passed(a, b)'
             PROVE  Behind(b, a)'
    BY DEF BakeryInv
<1> DEFINE Same(c) == /\ pc'[c] = pc[c] /\ ticket'[c] = ticket[c]
                      /\ todo'[c] = todo[c] /\ at'[c] = at[c]
                      /\ claims'[c] = claims[c]
<1>t. /\ pc \in [Attempts -> Active \cup {"idle", "done", "dead"}]
      /\ ticket \in [Attempts -> Nat] /\ tickets \in [Attempts -> Nat]
      /\ todo \in [Attempts -> SUBSET Attempts]
      /\ at \in [Attempts -> Attempts \cup {None}]
      /\ claims \in [Attempts -> SUBSET (Attempts \X Nat)]
      /\ a \in Nat /\ b \in Nat
    BY DEF TypeOK
<1>p. pc'[a] \in Elected \cup {"scan2"}
    BY DEF Passed
<1>i. Passed(a, b) => Behind(b, a)
    BY DEF BakeryInv
<1>l. ASSUME NEW c \in Attempts, pc[c] \in Published
      PROVE  /\ Pid[c] \in alive /\ c \in dir
             /\ ticket[c] > 0 /\ tickets[c] = ticket[c]
    BY <1>l DEF AliveInv, ClaimsSafe, Active
<1>d. ASSUME b \notin dir \/ Pid[b] \notin alive, pc'[b] = pc[b]
      PROVE  Behind(b, a)'
  <2>1. pc[b] \notin Active
      BY <1>d DEF AliveInv, ClaimsSafe
  <2> QED BY <1>d, <2>1 DEF Behind, Active
<1>a. ASSUME Same(a) PROVE Passed(a, b)
    BY <1>a DEF Passed, Earlier
<1>f. ASSUME Same(a), Same(b) PROVE Behind(b, a)'
    BY <1>f, <1>a, <1>i DEF Behind, Before
<1>1. ASSUME NEW x \in Attempts, Claim(x) PROVE Behind(b, a)'
  <2>1. x # a
      BY <1>1, <1>p, <1>t DEF Claim
  <2>2. CASE x = b
      BY <1>1, <2>2, <1>t DEF Claim, Behind
  <2>3. CASE x # b
      BY <1>1, <2>1, <2>3, <1>f, <1>t DEF Claim, local
  <2> QED BY <2>2, <2>3
<1>2. ASSUME NEW x \in Attempts, List(x) PROVE Behind(b, a)'
  <2>1. CASE x = a
    <3>1. b \notin todo'[a]
        BY <1>2, <2>1, <1>p, <1>t DEF Passed, List
    <3>2. b \notin dir
        BY <1>2, <2>1, <3>1, <1>t DEF List
    <3> QED BY <1>2, <2>1, <3>2, <1>d, <1>t DEF List
  <2>2. CASE x = b
    <3>1. Same(a)
        BY <1>2, <2>2, <1>t DEF List, Forget
    <3>2. Behind(b, a) /\ pc[a] \in Published
        BY <1>a, <1>i, <1>p, <3>1
    <3>3. a \in todo'[b]
        BY <1>2, <2>2, <1>l, <3>2, <1>t DEF List
    <3> QED BY <1>2, <2>2, <3>1, <3>2, <3>3, <1>t DEF List, Behind, Before
  <2>3. CASE x # a /\ x # b
      BY <1>2, <2>3, <1>f, <1>t DEF List, Forget
  <2> QED BY <2>1, <2>2, <2>3
<1>3. ASSUME NEW x \in Attempts, NEW n \in Attempts, Probe(x, n)
      PROVE Behind(b, a)'
  <2>0. /\ pc' = pc /\ ticket' = ticket /\ claims' = claims
        /\ todo' = [todo EXCEPT ![x] = @ \ {n}]
        /\ pc[x] \in Scanning /\ at[x] = None /\ n \in todo[x]
        /\ IF Pid[n] \in alive THEN at' = [at EXCEPT ![x] = n] ELSE at' = at
      BY <1>3 DEF Probe, Leftover
  <2>1. CASE x = a
    <3>1. CASE n = b
        BY <2>0, <2>1, <3>1, <1>d, <1>t DEF Passed, Scanning
    <3>2. CASE n # b
      <4>1. Passed(a, b)
          BY <2>0, <2>1, <3>2, <1>t DEF Passed, Earlier
      <4> QED BY <2>0, <2>1, <4>1, <1>i, <1>t DEF Behind, Before
    <3> QED BY <3>1, <3>2
  <2>2. CASE x = b
    <3>1. Same(a)
        BY <2>0, <2>2, <1>t
    <3>2. Behind(b, a) /\ pc[a] \in Published
        BY <1>a, <1>i, <1>p, <3>1
    <3>3. n = a => at'[b] = a
        BY <2>0, <2>2, <3>2, <1>l, <1>t
    <3> QED BY <2>0, <2>2, <3>2, <3>3, <1>t DEF Behind, Before
  <2>3. CASE x # a /\ x # b
      BY <2>0, <2>3, <1>f, <1>t
  <2> QED BY <2>1, <2>2, <2>3
<1>4. ASSUME NEW x \in Attempts, Read(x) PROVE Behind(b, a)'
  <2>0. /\ pc' = pc /\ ticket' = ticket /\ todo' = todo
        /\ at' = [at EXCEPT ![x] = None] /\ pc[x] \in Scanning
        /\ at[x] # None /\ at[x] \in Attempts
        /\ IF at[x] \in dir
           THEN claims' = [claims EXCEPT ![x] = @ \cup {<<at[x], tickets[at[x]]>>}]
           ELSE claims' = claims
      BY <1>4, <1>t DEF Read
  <2>1. CASE x = a
    <3>1. CASE at[a] = b /\ b \in dir
      <4>1. <<b, tickets[b]>> \in claims'[a]
          BY <2>0, <2>1, <3>1, <1>t
      <4>2. pc[a] = "scan2"
          BY <2>0, <2>1, <1>p DEF Scanning
      <4>a. \A c \in claims'[a] : c[1] = b =>
                /\ c[2] # 0
                /\ ~(c[2] < ticket[a] \/ (c[2] = ticket[a] /\ c[1] < a))
          BY <2>0, <4>2 DEF Passed, Earlier
      <4>3. tickets[b] # 0
          BY <4>a, <4>1
      <4>4. ~(tickets[b] < ticket[a] \/ (tickets[b] = ticket[a] /\ b < a))
          BY <4>a, <4>1
      <4>5. pc[b] \in Published => Before(a, b)
          BY <4>4, <1>l, <1>t DEF Before
      <4>6. pc[b] # "scan1"
          BY <4>3 DEF ChooserInv
      <4> QED BY <2>0, <4>5, <4>6 DEF Behind, Before
    <3>2. CASE at[a] = b /\ b \notin dir
        BY <2>0, <3>2, <1>d
    <3>3. CASE at[a] # b
      <4>1. claims[a] \subseteq claims'[a]
          BY <2>0, <2>1, <1>t
      <4>2. Passed(a, b)
          BY <2>0, <3>3, <4>1 DEF Passed, Earlier
      <4>3. at'[b] = at[b] /\ claims'[b] = claims[b]
          BY <2>0, <2>1, <1>t
      <4> QED BY <2>0, <4>2, <4>3, <1>i DEF Behind, Before
    <3> QED BY <3>1, <3>2, <3>3
  <2>2. CASE x = b
    <3>1. Same(a)
        BY <2>0, <2>2, <1>t
    <3>2. Behind(b, a) /\ pc[a] \in Published
        BY <1>a, <1>i, <1>p, <3>1
    <3>3. claims[b] \subseteq claims'[b]
        BY <2>0, <2>2, <1>t
    <3>4. at[b] = a => <<a, ticket[a]>> \in claims'[b]
        BY <2>0, <2>2, <3>2, <1>l, <1>t
    <3> QED BY <2>0, <2>2, <3>2, <3>3, <3>4 DEF Behind, Before
  <2>3. CASE x # a /\ x # b
      BY <2>0, <2>3, <1>f, <1>t
  <2> QED BY <2>1, <2>2, <2>3
<1>5. ASSUME NEW x \in Attempts, DeletePending(x) PROVE Behind(b, a)'
  <2>0. /\ ticket' = ticket /\ pc[x] \in Scanning
        /\ at' = [at EXCEPT ![x] = None] /\ todo' = [todo EXCEPT ![x] = {}]
        /\ claims' = [claims EXCEPT ![x] = {}]
        /\ \/ pc' = [pc EXCEPT ![x] = IF pc[x] = "scan1" THEN "list1" ELSE "list2"]
           \/ pc' = [pc EXCEPT ![x] = "remove"]
      BY <1>5 DEF DeletePending, Forget
  <2>1. x # a
      BY <2>0, <1>p, <1>t
  <2>2. CASE x = b
    <3>1. Same(a)
        BY <2>0, <2>2, <1>t
    <3>2. Behind(b, a)
        BY <1>a, <1>i, <3>1
    <3> QED BY <2>0, <2>2, <3>2, <1>t DEF Behind, Before, Scanning
  <2>3. CASE x # b
      BY <2>0, <2>1, <2>3, <1>f, <1>t
  <2> QED BY <2>2, <2>3
<1>6. ASSUME NEW x \in Attempts, Publish(x) PROVE Behind(b, a)'
  <2>0. /\ pc[x] = "scan1" /\ todo[x] = {} /\ at[x] = None
        /\ pc' = [pc EXCEPT ![x] = "list2"]
        /\ claims' = [claims EXCEPT ![x] = {}] /\ UNCHANGED <<todo, at>>
      BY <1>6 DEF Publish, Scanned, Forget
  <2>1. PICK m \in {0} \cup {c[2] : c \in claims[x]} :
            /\ \A c \in claims[x] : c[2] <= m
            /\ ticket' = [ticket EXCEPT ![x] = m + 1]
      BY <1>6 DEF Publish
  <2>2. m \in Nat
      BY ClaimTickets
  <2>3. x # a
      BY <2>0, <1>p, <1>t
  <2>4. Same(a)
      BY <2>0, <2>1, <2>3, <1>t
  <2>5. Behind(b, a)
      BY <2>4, <1>a, <1>i
  <2>6. CASE x = b
    <3>1. <<a, ticket[a]>> \in claims[b]
        BY <2>0, <2>5, <2>6 DEF Behind
    <3>2. ticket[a] <= m
        BY <2>1, <2>6, <3>1
    <3>3. ticket'[b] = m + 1 /\ ticket'[a] = ticket[a]
        BY <2>1, <2>3, <2>6, <1>t
    <3>4. ticket'[a] < ticket'[b]
        BY <3>2, <3>3, <2>2, <1>t
    <3> QED BY <2>0, <2>6, <3>4, <1>t DEF Behind, Before
  <2>7. CASE x # b
    <3>1. Same(b)
        BY <2>0, <2>1, <2>7, <1>t
    <3> QED BY <2>4, <3>1, <1>f
  <2> QED BY <2>6, <2>7
<1>7. ASSUME NEW x \in Attempts, Lose(x) \/ Wait(x) \/ GiveUp(x) \/ Win(x)
      PROVE Behind(b, a)'
  <2>0. /\ UNCHANGED <<ticket, todo, at>> /\ claims' = [claims EXCEPT ![x] = {}]
        /\ pc[x] = "scan2" /\ Scanned(x)
        /\ \/ pc' = [pc EXCEPT ![x] = "remove"]
           \/ pc' = [pc EXCEPT ![x] = "list2"]
           \/ pc' = [pc EXCEPT ![x] = "check"] /\ ~Beaten(x) /\ ~MustWait(x)
      BY <1>7 DEF Lose, Wait, GiveUp, Win, Abort, Forget
  <2>1. Passed(a, b)
    <3>1. CASE x = a
      <4>1. ~Beaten(a) /\ ~MustWait(a)
          BY <2>0, <3>1, <1>p, <1>t
      <4> QED BY <2>0, <3>1, <4>1 DEF Passed, Beaten, MustWait, Scanned
    <3>2. CASE x # a
        BY <2>0, <3>2, <1>a, <1>t
    <3> QED BY <3>1, <3>2
  <2>2. Behind(b, a)
      BY <2>1, <1>i
  <2>3. CASE x = b
      BY <2>0, <2>2, <2>3, <1>t DEF Behind, Before
  <2>4. CASE x # b
      BY <2>0, <2>2, <2>4, <1>t DEF Behind, Before
  <2> QED BY <2>3, <2>4
<1>8. ASSUME NEW x \in Attempts,
             \/ CheckLock(x) \/ WriteLock(x) \/ Release(x) \/ Unlink(x)
             \/ Remove(x) \/ RemoveDir(x)
      PROVE Behind(b, a)'
  <2>0. /\ UNCHANGED local
        /\ \/ /\ pc[x] \in Elected
              /\ \E s \in Elected \cup {"remove"} : pc' = [pc EXCEPT ![x] = s]
           \/ \E s \in {"rmdir", "done"} : pc' = [pc EXCEPT ![x] = s]
      BY <1>8 DEF CheckLock, WriteLock, Release, Unlink, Remove, RemoveDir, Abort
  <2>1. Passed(a, b)
      BY <2>0, <1>p, <1>t DEF Passed, Earlier, local
  <2> QED BY <2>0, <2>1, <1>i, <1>t DEF Behind, Before, local
<1>9. ASSUME NEW p \in Pids, Crash(p) PROVE Behind(b, a)'
  <2>1. pc'[a] # "dead" => Same(a)
      BY <1>9, <1>t DEF Crash
  <2>2. pc'[b] # "dead" => Same(b)
      BY <1>9, <1>t DEF Crash
  <2>3. CASE pc'[b] = "dead"
      BY <2>3 DEF Behind
  <2> QED BY <2>1, <2>2, <2>3, <1>p, <1>f
<1>10. ASSUME NEW p \in Pids, Respawn(p) PROVE Behind(b, a)'
    BY <1>10, <1>f DEF Respawn, local
<1>11. CASE UNCHANGED vars
    BY <1>11, <1>f DEF vars, local
<1> QED
    BY <1>1, <1>2, <1>3, <1>4, <1>5, <1>6, <1>7, <1>8, <1>9, <1>10, <1>11
       DEF Next, Step

\* The lock file changes hands only while it is nobody's or its owner's.
LEMMA LockFileStep ==
    ASSUME TypeOK, BakeryInv, LockFileHeld, [Next]_vars
    PROVE  LockFileHeld'
<1> USE DEF Elected
<1>1. MutualExclusion
    BY ElectedUnique
<1>t. pc \in [Attempts -> Active \cup {"idle", "done", "dead"}]
    BY DEF TypeOK
<1>2. ASSUME NEW x \in Attempts, WriteLock(x) \/ Unlink(x) PROVE LockFileHeld'
    BY <1>1, <1>2, <1>t DEF WriteLock, Unlink, MutualExclusion, LockFileHeld
<1>3. ASSUME NEW x \in Attempts, Release(x) PROVE LockFileHeld'
    BY <1>3, <1>t DEF Release, LockFileHeld, disk
<1>4. ASSUME lock' = lock,
             \A b \in Attempts : pc'[b] \in {"held", "unlink"} => pc'[b] = pc[b]
      PROVE LockFileHeld'
    BY <1>4 DEF LockFileHeld
<1>5. ASSUME NEW x \in Attempts, Claim(x) \/ List(x) \/ Read(x) \/ DeletePending(x)
                 \/ \E n \in Attempts : Probe(x, n)
      PROVE LockFileHeld'
    BY <1>4, <1>5, <1>t DEF Claim, List, Probe, Read, DeletePending, disk
<1>6. ASSUME NEW x \in Attempts, Publish(x) \/ Lose(x) \/ Wait(x) \/ GiveUp(x)
                 \/ Win(x) \/ CheckLock(x)
      PROVE LockFileHeld'
    BY <1>4, <1>6, <1>t DEF Publish, Lose, Wait, GiveUp, Win, CheckLock, Abort, disk
<1>7. ASSUME NEW x \in Attempts, Remove(x) \/ RemoveDir(x) PROVE LockFileHeld'
    BY <1>4, <1>7, <1>t DEF Remove, RemoveDir
<1>8. ASSUME NEW p \in Pids, Crash(p) \/ Respawn(p) PROVE LockFileHeld'
    BY ZenonT(60), <1>4, <1>8, <1>t DEF Crash, Respawn, disk
<1>9. CASE UNCHANGED vars
    BY <1>4, <1>9 DEF vars, disk
<1> QED
    BY <1>2, <1>3, <1>5, <1>6, <1>7, <1>8, <1>9 DEF Next, Step

\* The invariant holds of a data root nobody has claimed.
LEMMA InductiveInit == Init => InductiveInv
<1> SUFFICES ASSUME Init PROVE InductiveInv
    OBVIOUS
<1> USE AttemptsAssumption DEF Init, Active, Published, Elected
<1>1. TypeOK
    BY DEF TypeOK
<1>2. AliveInv /\ ClaimsSafe /\ ChooserInv /\ LockFileHeld
    BY DEF AliveInv, ClaimsSafe, ChooserInv, LockFileHeld
<1>3. BakeryInv
    BY DEF BakeryInv, Passed
<1> QED BY <1>1, <1>2, <1>3 DEF InductiveInv

\* The inductive invariant of the bakery over claim directories, in every
\* reachable state.
LEMMA InductiveAlways == Spec => []InductiveInv
<1>1. InductiveInv /\ [Next]_vars => InductiveInv'
    BY TypeStep, ClaimsStep, BakeryStep, LockFileStep DEF InductiveInv
<1> QED BY InductiveInit, <1>1, PTL DEF Spec

-----------------------------------------------------------------------------
(* Somebody wins: until the lock is given, a process dies or a scan fails, *)
(* an attempt in progress is in front of all that have drawn a ticket.     *)

\* An attempt that nobody can beat, before and after it has its ticket.
Front(a) ==
    \/ pc[a] \in {"list1", "scan1"} /\ \A b \in Attempts : ticket[b] = 0
    \/ /\ pc[a] \in {"list2", "scan2", "check", "write"}
       /\ \A b \in Attempts : ticket[b] > 0 => ~Before(b, a)

Failed == \E a \in Attempts : outcome[a] = "CONTROL_RUNTIME_LOCK_FAILED"
Acquired == \E a \in Attempts : outcome[a] = "ACQUIRED"

\* A ticket is drawn once, and what the disk says of it is so.
TicketInv ==
    \A a \in Attempts : /\ tickets[a] \in {0, ticket[a]}
                        /\ pc[a] \in {"idle", "list1", "scan1"} => ticket[a] = 0

\* A collected claim has the ticket of its attempt, or none.
CollectedInv ==
    \A a \in Attempts : \A c \in claims[a] : c[2] # 0 => c[2] = ticket[c[1]]

\* The lock file is written by an attempt that is answered with the lock.
AnsweredInv ==
    /\ lock # None => outcome[lock] = "ACQUIRED"
    /\ \A a \in Attempts :
          outcome[a] # "" => pc[a] \in {"held", "unlink", "remove", "rmdir", "done"}

FrontInv ==
    \/ Failed \/ Acquired
    \/ \A a \in Attempts : pc[a] = "idle"
    \/ \E a \in Attempts : Front(a)

ElectionInv == crashed \/ (TicketInv /\ CollectedInv /\ AnsweredInv /\ FrontInv)

\* Only Publish draws a ticket, and only an attempt that has none.
LEMMA TicketStep ==
    ASSUME TypeOK, TicketInv, CollectedInv, [Next]_vars, ~crashed'
    PROVE  TicketInv' /\ CollectedInv'
<1>t. /\ pc \in [Attempts -> Active \cup {"idle", "done", "dead"}]
      /\ ticket \in [Attempts -> Nat] /\ tickets \in [Attempts -> Nat]
      /\ claims \in [Attempts -> SUBSET (Attempts \X Nat)]
    BY DEF TypeOK
<1>1. ASSUME ticket' = ticket,
             \A a \in Attempts : tickets'[a] \in {0, tickets[a]},
             \A a \in Attempts : pc'[a] \in {"idle", "list1", "scan1"} =>
                pc[a] \in {"idle", "list1", "scan1"}
      PROVE  TicketInv'
    BY <1>1 DEF TicketInv
<1>2. ASSUME ticket' = ticket,
             \A a \in Attempts : claims'[a] \subseteq claims[a]
      PROVE  CollectedInv'
    BY <1>2 DEF CollectedInv
<1>3. ASSUME NEW x \in Attempts, Publish(x) PROVE TicketInv' /\ CollectedInv'
  <2>1. PICK m \in {0} \cup {c[2] : c \in claims[x]} :
            /\ ticket' = [ticket EXCEPT ![x] = m + 1]
            /\ tickets' = [tickets EXCEPT ![x] = m + 1]
      BY <1>3 DEF Publish
  <2>2. /\ pc[x] = "scan1" /\ pc' = [pc EXCEPT ![x] = "list2"]
        /\ claims' = [claims EXCEPT ![x] = {}]
      BY <1>3 DEF Publish, Forget
  <2>3. ticket[x] = 0
      BY <2>2 DEF TicketInv
  <2>4. TicketInv'
      BY <1>t, <2>1, <2>2 DEF TicketInv
  <2>5. ASSUME NEW a \in Attempts, NEW c \in claims'[a], c[2] # 0
        PROVE  c[2] = ticket'[c[1]]
    <3>1. c \in claims[a] /\ c \in Attempts \X Nat
        BY <1>t, <2>2, <2>5
    <3>2. c[2] = ticket[c[1]] /\ c[1] \in Attempts
        BY <2>5, <3>1 DEF CollectedInv
    <3>3. c[1] # x
        BY <2>3, <2>5, <3>2
    <3> QED BY <1>t, <2>1, <3>2, <3>3
  <2> QED BY <2>4, <2>5 DEF CollectedInv
<1>4. ASSUME NEW x \in Attempts, Read(x) PROVE TicketInv' /\ CollectedInv'
  <2>1. /\ UNCHANGED <<pc, ticket, tickets>> /\ at[x] \in Attempts
        /\ \/ claims' = [claims EXCEPT ![x] = @ \cup {<<at[x], tickets[at[x]]>>}]
           \/ claims' = claims
      BY <1>4 DEF Read, TypeOK, disk
  <2>2. TicketInv'
      BY <2>1 DEF TicketInv
  <2>3. ASSUME NEW a \in Attempts, NEW c \in claims'[a], c[2] # 0
        PROVE  c[2] = ticket[c[1]]
    <3>1. CASE c \in claims[a]
        BY <2>3, <3>1 DEF CollectedInv
    <3>2. CASE c = <<at[x], tickets[at[x]]>>
        BY <2>1, <2>3, <3>2 DEF TicketInv
    <3> QED BY <1>t, <2>1, <2>3, <3>1, <3>2
  <2> QED BY <2>1, <2>2, <2>3 DEF CollectedInv
<1>5. ASSUME NEW x \in Attempts, NEW n \in Attempts, Probe(x, n)
      PROVE  TicketInv' /\ CollectedInv'
  <2>1. /\ UNCHANGED <<pc, ticket, claims>>
        /\ tickets' = tickets \/ tickets' = [tickets EXCEPT ![n] = 0]
      BY <1>5 DEF Probe
  <2> QED BY <1>1, <1>2, <1>t, <2>1
<1>6. ASSUME NEW x \in Attempts,
             \/ Claim(x) \/ List(x) \/ DeletePending(x) \/ Lose(x) \/ Wait(x)
             \/ GiveUp(x) \/ Win(x) \/ CheckLock(x) \/ WriteLock(x) \/ Release(x)
             \/ Unlink(x) \/ Remove(x) \/ RemoveDir(x)
      PROVE  TicketInv' /\ CollectedInv'
  <2>1. /\ ticket' = ticket
        /\ tickets' = tickets \/ tickets' = [tickets EXCEPT ![x] = 0]
        /\ claims' = claims \/ claims' = [claims EXCEPT ![x] = {}]
      BY <1>6 DEF Claim, List, DeletePending, Lose, Wait, GiveUp, Win, CheckLock,
         WriteLock, Release, Unlink, Remove, RemoveDir, Forget, disk, local
  <2>2. \/ /\ pc[x] \in {"idle", "list1", "scan1"}
           /\ \E s \in {"list1", "scan1", "remove"} : pc' = [pc EXCEPT ![x] = s]
        \/ \E s \in {"list2", "scan2", "check", "write", "held", "unlink",
                     "remove", "rmdir", "done"} : pc' = [pc EXCEPT ![x] = s]
      BY <1>6 DEF Claim, List, DeletePending, Lose, Wait, GiveUp, Win, CheckLock,
         WriteLock, Release, Unlink, Remove, RemoveDir, Abort, Scanning
  <2>3. \A a \in Attempts : pc'[a] \in {"idle", "list1", "scan1"} =>
            pc[a] \in {"idle", "list1", "scan1"}
      BY <1>t, <2>2
  <2> QED BY <1>1, <1>2, <1>t, <2>1, <2>3
<1>7. ASSUME NEW p \in Pids, Crash(p) \/ Respawn(p)
      PROVE  TicketInv' /\ CollectedInv'
    BY <1>7, <1>1, <1>2 DEF Crash, Respawn, disk, local
<1>8. CASE UNCHANGED vars
    BY <1>8, <1>1, <1>2 DEF vars, disk, local
<1> QED
    BY <1>3, <1>4, <1>5, <1>6, <1>7, <1>8 DEF Next, Step

LEMMA AnsweredStep ==
    ASSUME TypeOK, AnsweredInv, [Next]_vars, ~crashed'
    PROVE  AnsweredInv' /\ (Failed => Failed') /\ (Acquired => Acquired')
<1> USE AttemptsAssumption
<1> DEFINE Over == {"held", "unlink", "remove", "rmdir", "done"}
<1>t. /\ pc \in [Attempts -> Active \cup {"idle", "done", "dead"}]
      /\ outcome \in [Attempts -> {"", "ACQUIRED", "CONTROL_RUNTIME_ALREADY_ACTIVE",
                                   "CONTROL_RUNTIME_LOCK_FAILED"}]
      /\ lock \in Attempts \cup {None}
    BY DEF TypeOK
\* A step of one attempt that answers it, if it does, when it was not yet.
<1>1. ASSUME NEW x \in Attempts, NEW s, pc' = [pc EXCEPT ![x] = s],
             \/ /\ outcome' = outcome
                /\ pc[x] \in Over => s \in Over
             \/ /\ pc[x] \notin Over /\ s \in Over
                /\ \E code : outcome' = [outcome EXCEPT ![x] = code],
             lock' \in {lock, None} \/ (lock' = x /\ outcome'[x] = "ACQUIRED")
      PROVE  AnsweredInv' /\ (Failed => Failed') /\ (Acquired => Acquired')
  <2>1. pc[x] \notin Over => outcome[x] = ""
      BY DEF AnsweredInv
  <2>2. \A a \in Attempts : outcome[a] # "" => outcome'[a] = outcome[a]
      BY <1>1, <1>t, <2>1
  <2>3. \A a \in Attempts : outcome'[a] # "" => pc'[a] \in Over
      BY <1>1, <1>t DEF AnsweredInv
  <2>4. lock' # None => outcome'[lock'] = "ACQUIRED"
      BY <1>1, <1>t, <2>2 DEF AnsweredInv
  <2>5. (Failed => Failed') /\ (Acquired => Acquired')
      BY <2>2 DEF Failed, Acquired
  <2> QED BY <2>3, <2>4, <2>5 DEF AnsweredInv
<1>2. ASSUME UNCHANGED <<pc, outcome, lock>>
      PROVE  AnsweredInv' /\ (Failed => Failed') /\ (Acquired => Acquired')
    BY <1>2 DEF AnsweredInv, Failed, Acquired
<1>3. ASSUME NEW x \in Attempts, Claim(x) \/ List(x) \/ Publish(x) \/ Wait(x) \/ Win(x)
      PROVE  AnsweredInv' /\ (Failed => Failed') /\ (Acquired => Acquired')
  <2>1. pc[x] \notin Over /\ UNCHANGED <<outcome, lock>>
      BY <1>3 DEF Claim, List, Publish, Wait, Win, disk
  <2>2. \E s : pc' = [pc EXCEPT ![x] = s]
      BY <1>3 DEF Claim, List, Publish, Wait, Win
  <2> QED BY <1>1, <2>1, <2>2
<1>4. ASSUME NEW x \in Attempts, Lose(x) \/ GiveUp(x) \/ WriteLock(x)
      PROVE  AnsweredInv' /\ (Failed => Failed') /\ (Acquired => Acquired')
  <2>1. /\ pc[x] \notin Over
        /\ \E s \in Over : pc' = [pc EXCEPT ![x] = s]
        /\ \E code : outcome' = [outcome EXCEPT ![x] = code]
      BY <1>4 DEF Lose, GiveUp, WriteLock, Abort
  <2>2. lock' = lock \/ (lock' = x /\ outcome'[x] = "ACQUIRED")
      BY <1>4, <1>t DEF Lose, GiveUp, WriteLock, disk
  <2> QED BY <1>1, <2>1, <2>2
<1>5. ASSUME NEW x \in Attempts, DeletePending(x) \/ CheckLock(x)
      PROVE  AnsweredInv' /\ (Failed => Failed') /\ (Acquired => Acquired')
  <2>1. pc[x] \notin Over /\ lock' = lock
      BY <1>5 DEF DeletePending, CheckLock, Scanning, disk
  <2>2. \/ (\E s : pc' = [pc EXCEPT ![x] = s]) /\ outcome' = outcome
        \/ /\ \E s \in Over : pc' = [pc EXCEPT ![x] = s]
           /\ \E code : outcome' = [outcome EXCEPT ![x] = code]
      BY <1>5 DEF DeletePending, CheckLock, Abort
  <2> QED BY <1>1, <2>1, <2>2
<1>6. ASSUME NEW x \in Attempts,
             Release(x) \/ Unlink(x) \/ Remove(x) \/ RemoveDir(x)
      PROVE  AnsweredInv' /\ (Failed => Failed') /\ (Acquired => Acquired')
  <2>1. /\ outcome' = outcome /\ lock' \in {lock, None}
        /\ \E s \in Over : pc' = [pc EXCEPT ![x] = s]
      BY <1>6 DEF Release, Unlink, Remove, RemoveDir, disk
  <2> QED BY <1>1, <2>1
<1>7. ASSUME NEW x \in Attempts, Read(x) \/ \E n \in Attempts : Probe(x, n)
      PROVE  AnsweredInv' /\ (Failed => Failed') /\ (Acquired => Acquired')
    BY <1>2, <1>7 DEF Read, Probe, disk
<1>8. ASSUME NEW p \in Pids, Crash(p) \/ Respawn(p)
      PROVE  AnsweredInv' /\ (Failed => Failed') /\ (Acquired => Acquired')
    BY <1>2, <1>8 DEF Crash, Respawn, disk
<1>9. CASE UNCHANGED vars
    BY <1>2, <1>9 DEF vars, disk
<1> QED
    BY <1>3, <1>4, <1>5, <1>6, <1>7, <1>8, <1>9 DEF Next, Step

\* A front that goes on stays in front, one that is passed by a new ticket is
\* succeeded by it, and the front is never answered that somebody else won.
LEMMA FrontStep ==
    ASSUME TypeOK, TicketInv, CollectedInv, AnsweredInv, FrontInv,
           [Next]_vars, ~crashed', ~Failed', ~Acquired'
    PROVE  FrontInv'
<1> USE AttemptsAssumption
<1>t. /\ pc \in [Attempts -> Active \cup {"idle", "done", "dead"}]
      /\ ticket \in [Attempts -> Nat] /\ Attempts \subseteq Nat
      /\ claims \in [Attempts -> SUBSET (Attempts \X Nat)]
      /\ outcome \in [Attempts -> {"", "ACQUIRED", "CONTROL_RUNTIME_ALREADY_ACTIVE",
                                   "CONTROL_RUNTIME_LOCK_FAILED"}]
      /\ lock \in Attempts \cup {None}
    BY DEF TypeOK
<1>0. ~Failed /\ ~Acquired
    BY AnsweredStep
\* A step that draws no ticket.
<1>1. ASSUME NEW a \in Attempts, Front(a), ticket' = ticket,
             pc[a] \in {"list1", "scan1"} => pc'[a] \in {"list1", "scan1"},
             pc[a] \in {"list2", "scan2", "check", "write"} =>
                pc'[a] \in {"list2", "scan2", "check", "write"}
      PROVE  FrontInv'
  <2>1. Front(a)'
      BY <1>1 DEF Front, Before
  <2> QED BY <2>1 DEF FrontInv
\* The ticket that x draws puts it in front of the front, or behind it.
<1>2. ASSUME NEW a \in Attempts, Front(a), NEW x \in Attempts, Publish(x)
      PROVE  FrontInv'
  <2>1. PICK m \in {0} \cup {c[2] : c \in claims[x]} :
            ticket' = [ticket EXCEPT ![x] = m + 1]
      BY <1>2 DEF Publish
  <2>2. m \in Nat
      BY ClaimTickets
  <2>3. pc[x] = "scan1" /\ pc' = [pc EXCEPT ![x] = "list2"]
      BY <1>2 DEF Publish
  <2>t. ticket' \in [Attempts -> Nat]
    <3>1. m + 1 \in Nat
        BY <2>2
    <3> QED BY <1>t, <2>1, <3>1
  <2>s. \A b \in Attempts \ {x} : ticket'[b] = ticket[b]
      BY <1>t, <2>1
  <2>4. ASSUME \A b \in Attempts \ {x} : ticket'[b] > 0 => ~Before(b, x)'
        PROVE  FrontInv'
    <3>1. ~Before(x, x)'
      <4>1. ticket'[x] \in Nat /\ x \in Nat
          BY <1>t, <2>t
      <4> QED BY <4>1 DEF Before
    <3>2. Front(x)'
        BY <1>t, <2>3, <2>4, <3>1 DEF Front
    <3> QED BY <3>2 DEF FrontInv
  <2>5. CASE \A b \in Attempts : ticket[b] = 0
    <3>1. \A b \in Attempts \ {x} : ~(ticket'[b] > 0)
        BY <2>5, <2>s
    <3> QED BY <2>4, <3>1
  <2>6. CASE /\ pc[a] \in {"list2", "scan2", "check", "write"}
             /\ \A b \in Attempts : ticket[b] > 0 => ~Before(b, a)
    <3>0. a # x /\ pc'[a] = pc[a] /\ ticket'[a] = ticket[a]
        BY <1>t, <2>1, <2>3, <2>6
    <3>1. \A b \in Attempts \ {x} : ticket'[b] > 0 => ~Before(b, a)'
        BY <1>t, <2>1, <2>6, <3>0 DEF Before
    <3>2. CASE Before(x, a)'
      <4>1. ASSUME NEW b \in Attempts \ {x}, ticket'[b] > 0, Before(b, x)'
            PROVE  FALSE
        <5>1. ticket'[a] \in Nat /\ ticket'[b] \in Nat /\ ticket'[x] \in Nat
            BY <2>t
        <5>2. a \in Nat /\ b \in Nat /\ x \in Nat
            BY <1>t
        <5>3. Before(b, a)'
            BY <3>2, <4>1, <5>1, <5>2 DEF Before
        <5> QED BY <3>1, <4>1, <5>3
      <4> QED BY <2>4, <4>1
    <3>3. CASE ~Before(x, a)'
      <4>1. Front(a)'
          BY <2>6, <3>0, <3>1, <3>3 DEF Front
      <4> QED BY <4>1 DEF FrontInv
    <3> QED BY <3>2, <3>3
  <2> QED BY <1>2, <2>5, <2>6 DEF Front
\* Nothing that the front has collected goes before it.
<1>3. ASSUME NEW a \in Attempts, Front(a), pc[a] = "scan2" PROVE ~Beaten(a)
  <2>1. ASSUME NEW c \in claims[a], Earlier(c, a) PROVE FALSE
    <3>0. c \in Attempts \X Nat
        BY <1>t
    <3>1. c[1] \in Attempts /\ c[2] \in Nat
        BY <3>0
    <3>2. ticket[c[1]] = c[2] /\ c[2] # 0
        BY <2>1 DEF CollectedInv, Earlier
    <3>3. Before(c[1], a)
        BY <2>1, <3>2 DEF Earlier, Before
    <3>4. ticket[c[1]] > 0
        BY <3>1, <3>2
    <3> QED BY <1>3, <3>1, <3>3, <3>4 DEF Front
  <2> QED BY <2>1 DEF Beaten
\* Its own steps go on.
<1>4. ASSUME NEW a \in Attempts, Front(a), ~Publish(a),
             Claim(a) \/ Step(a) \/ Release(a)
      PROVE  FrontInv'
  <2>0. pc[a] \in {"list1", "scan1", "list2", "scan2", "check", "write"}
      BY <1>4 DEF Front
  <2>1. CASE List(a) \/ Wait(a) \/ Win(a)
    <3>1. /\ ticket' = ticket
          /\ pc[a] \in {"list1", "scan1"} => pc'[a] \in {"list1", "scan1"}
          /\ pc[a] \in {"list2", "scan2", "check", "write"} =>
                pc'[a] \in {"list2", "scan2", "check", "write"}
        BY <1>t, <2>1 DEF List, Wait, Win
    <3> QED BY <1>1, <1>4, <3>1
  <2>2. CASE Read(a) \/ \E n \in Attempts : Probe(a, n)
      BY <1>1, <1>4, <2>2 DEF Read, Probe
  <2>3. CASE DeletePending(a)
    <3>1. outcome' # [outcome EXCEPT ![a] = "CONTROL_RUNTIME_LOCK_FAILED"]
        BY <1>t DEF Failed
    <3>2. /\ pc' = [pc EXCEPT ![a] = IF pc[a] = "scan1" THEN "list1" ELSE "list2"]
          /\ pc[a] \in {"scan1", "scan2"} /\ ticket' = ticket
        BY <2>3, <3>1 DEF DeletePending, Scanning
    <3>3. /\ pc[a] \in {"list1", "scan1"} => pc'[a] \in {"list1", "scan1"}
          /\ pc[a] \in {"list2", "scan2", "check", "write"} =>
                pc'[a] \in {"list2", "scan2", "check", "write"}
        BY <1>t, <3>2
    <3> QED BY <1>1, <1>4, <3>2, <3>3
  <2>4. CASE Lose(a)
      BY <1>3, <1>4, <2>4 DEF Lose
  <2>5. CASE GiveUp(a)
      BY <1>t, <2>5 DEF GiveUp, Abort, Failed
  <2>6. CASE CheckLock(a)
    <3>1. lock = None
        BY <1>0, <1>t DEF AnsweredInv, Acquired
    <3>2. pc[a] = "check" /\ pc' = [pc EXCEPT ![a] = "write"] /\ ticket' = ticket
        BY <2>6, <3>1 DEF CheckLock, local
    <3> QED BY <1>1, <1>4, <1>t, <3>2
  <2>7. CASE WriteLock(a)
      BY <1>t, <2>7 DEF WriteLock, Acquired
  <2> QED
      BY <1>4, <2>0, <2>1, <2>2, <2>3, <2>4, <2>5, <2>6, <2>7
         DEF Step, Claim, Release, Unlink, Remove, RemoveDir
\* Every other step leaves it where it is.
<1>5. ASSUME NEW a \in Attempts, Front(a), NEW x \in Attempts, x # a, ~Publish(x),
             Claim(x) \/ Step(x) \/ Release(x)
      PROVE  FrontInv'
  <2>1. ticket' = ticket
      BY <1>5 DEF Step, Claim, List, Probe, Read, DeletePending, Lose, Wait, GiveUp,
         Win, CheckLock, WriteLock, Release, Unlink, Remove, RemoveDir, local
  <2>2. pc' = pc \/ \E s : pc' = [pc EXCEPT ![x] = s]
    <3>1. CASE Claim(x) \/ List(x) \/ Release(x) \/ DeletePending(x)
        BY <3>1 DEF Claim, List, Release, DeletePending
    <3>2. CASE Read(x) \/ \E n \in Attempts : Probe(x, n)
        BY <3>2 DEF Read, Probe
    <3>3. CASE Lose(x) \/ Wait(x) \/ GiveUp(x) \/ Win(x) \/ CheckLock(x)
        BY <3>3 DEF Lose, Wait, GiveUp, Win, CheckLock, Abort
    <3>4. CASE WriteLock(x) \/ Unlink(x) \/ Remove(x) \/ RemoveDir(x)
        BY <3>4 DEF WriteLock, Unlink, Remove, RemoveDir
    <3> QED BY <1>5, <3>1, <3>2, <3>3, <3>4 DEF Step
  <2>3. pc'[a] = pc[a]
      BY <1>5, <1>t, <2>2
  <2> QED BY <1>1, <1>5, <2>1, <2>3
<1>6. CASE UNCHANGED <<pc, ticket>>
  <2>1. CASE \A a \in Attempts : pc[a] = "idle"
      BY <1>6, <2>1 DEF FrontInv
  <2> QED BY <1>0, <1>1, <1>6, <2>1 DEF FrontInv
<1>7. ASSUME NEW x \in Attempts, Claim(x) \/ Step(x) \/ Release(x) PROVE FrontInv'
  <2>1. CASE \A a \in Attempts : pc[a] = "idle"
    <3>1. Claim(x)
        BY <1>7, <2>1 DEF Step, List, Probe, Read, DeletePending, Publish, Lose, Wait,
           GiveUp, Win, CheckLock, WriteLock, Release, Unlink, Remove, RemoveDir,
           Scanning
    <3>2. pc'[x] = "list1" /\ ticket' = ticket
        BY <1>t, <3>1 DEF Claim, local
    <3>3. \A b \in Attempts : ticket[b] = 0
        BY <2>1 DEF TicketInv
    <3>4. Front(x)'
        BY <3>2, <3>3 DEF Front
    <3> QED BY <3>4 DEF FrontInv
  <2>2. CASE \E a \in Attempts : Front(a)
      BY <1>2, <1>4, <1>5, <1>7, <2>2
  <2> QED BY <1>0, <2>1, <2>2 DEF FrontInv
<1>8. ASSUME NEW p \in Pids, Crash(p) \/ Respawn(p) PROVE FrontInv'
    BY <1>6, <1>8 DEF Crash, Respawn, local
<1>9. CASE UNCHANGED vars
    BY <1>6, <1>9 DEF vars, local
<1> QED BY <1>7, <1>8, <1>9 DEF Next

LEMMA ElectionStep ==
    ASSUME TypeOK, ElectionInv, [Next]_vars PROVE ElectionInv'
<1> SUFFICES ASSUME ~crashed' PROVE ElectionInv'
    BY DEF ElectionInv
<1>1. ~crashed
  <2>1. ASSUME crashed, NEW p \in Pids, Crash(p) \/ Respawn(p) PROVE FALSE
      BY <2>1 DEF Crash, Respawn
  <2>2. ASSUME crashed, NEW a \in Attempts, Claim(a) \/ Step(a) \/ Release(a)
        PROVE  FALSE
      BY <2>2 DEF Claim, Step, List, Probe, Read, DeletePending, Publish, Lose, Wait,
         GiveUp, Win, CheckLock, WriteLock, Release, Unlink, Remove, RemoveDir
  <2> QED BY <2>1, <2>2 DEF Next, vars
<1>2. TicketInv /\ CollectedInv /\ AnsweredInv /\ FrontInv
    BY <1>1 DEF ElectionInv
<1>3. TicketInv' /\ CollectedInv' /\ AnsweredInv'
    BY <1>2, TicketStep, AnsweredStep
<1>4. FrontInv'
    BY <1>2, FrontStep DEF FrontInv
<1> QED BY <1>3, <1>4 DEF ElectionInv

LEMMA ElectionInit == Init => ElectionInv
<1> SUFFICES ASSUME Init PROVE ElectionInv
    OBVIOUS
<1>1. TicketInv /\ CollectedInv /\ AnsweredInv /\ FrontInv
    BY DEF Init, TicketInv, CollectedInv, AnsweredInv, FrontInv
<1> QED BY <1>1 DEF ElectionInv

LEMMA ElectionAlways == Spec => []ElectionInv
<1>1. ElectionInv /\ TypeOK /\ [Next]_vars => ElectionInv'
    BY ElectionStep
<1>2. InductiveInv => TypeOK
    BY DEF InductiveInv
<1> QED BY ElectionInit, InductiveAlways, <1>1, <1>2, PTL DEF Spec
-----------------------------------------------------------------------------
(* The lock that the bakery implements (module DataRootLock).              *)

\* A lock file is its holder's, or that of an attempt whose process died.
FileInv == lock # None => pc[lock] \in {"held", "unlink", "dead"}

\* Steps that leave the lock file and where everyone stands as they are.
Idles(a) ==
    \/ Claim(a) \/ List(a) \/ (\E n \in Attempts : Probe(a, n)) \/ Read(a)
    \/ Publish(a) \/ Wait(a) \/ Win(a) \/ Remove(a) \/ RemoveDir(a)

Quits(a) == DeletePending(a) \/ Lose(a) \/ GiveUp(a) \/ CheckLock(a)

LEMMA IdlesKeepStage ==
    ASSUME TypeOK, NEW a \in Attempts, Idles(a)
    PROVE  /\ lock' = lock /\ Stage' = Stage
           /\ \A b \in Attempts : pc[b] \in {"held", "unlink", "dead"} => pc'[b] = pc[b]
<1> DEFINE Waiting == {"idle", "list1", "scan1", "list2", "scan2", "check"}
           Gone == {"remove", "rmdir", "done"}
<1>1. /\ lock' = lock
      /\ \/ pc' = pc
         \/ pc[a] \in Waiting /\ \E s \in Waiting : pc' = [pc EXCEPT ![a] = s]
         \/ pc[a] \in Gone /\ \E s \in Gone : pc' = [pc EXCEPT ![a] = s]
  <2>1. CASE Claim(a) \/ List(a) \/ Publish(a) \/ Wait(a) \/ Win(a)
      BY <2>1 DEF Claim, List, Publish, Wait, Win, disk
  <2>2. CASE Read(a) \/ \E n \in Attempts : Probe(a, n)
      BY <2>2 DEF Read, Probe, disk
  <2>3. CASE Remove(a) \/ RemoveDir(a)
      BY <2>3 DEF Remove, RemoveDir
  <2> QED BY <2>1, <2>2, <2>3 DEF Idles
<1>2. pc \in [Attempts -> Active \cup {"idle", "done", "dead"}]
    BY DEF TypeOK
<1> QED BY <1>1, <1>2 DEF Stage

\* An attempt that is not given the lock stays out of it.
LEMMA QuitsRefuse ==
    ASSUME TypeOK, NEW a \in Attempts, Quits(a)
    PROVE  /\ lock' = lock /\ (Stage' = Stage \/ DataRoot!Refuse(a))
           /\ \A b \in Attempts : pc[b] \in {"held", "unlink", "dead"} => pc'[b] = pc[b]
<1> DEFINE Waiting == {"list1", "scan1", "list2", "scan2", "check", "write"}
<1>1. /\ lock' = lock /\ pc[a] \in Waiting
      /\ \E s \in Waiting \cup {"remove"} : pc' = [pc EXCEPT ![a] = s]
  <2>1. CASE DeletePending(a)
      BY <2>1 DEF DeletePending, Scanning, disk
  <2>2. CASE Lose(a) \/ GiveUp(a) \/ CheckLock(a)
      BY <2>2 DEF Lose, GiveUp, CheckLock, Abort, disk
  <2> QED BY <2>1, <2>2 DEF Quits
<1>2. pc \in [Attempts -> Active \cup {"idle", "done", "dead"}]
    BY DEF TypeOK
<1>3. PICK s \in Waiting \cup {"remove"} : pc' = [pc EXCEPT ![a] = s]
    BY <1>1
<1>4. CASE s \in Waiting
  <2>1. Stage' = Stage
      BY <1>1, <1>2, <1>3, <1>4 DEF Stage
  <2> QED BY <1>1, <1>2, <1>3, <2>1
<1>5. CASE s = "remove"
  <2>1. Stage[a] = "out" /\ Stage' = [Stage EXCEPT ![a] = "over"]
      BY <1>1, <1>2, <1>3, <1>5 DEF Stage
  <2> QED BY <1>1, <1>2, <1>3, <2>1 DEF DataRoot!Refuse, DataRoot!Moves
<1> QED BY <1>3, <1>4, <1>5

\* The lock file is written where there is none or a dead one, by the only
\* attempt that is elected, and unlinked by its holder.
LEMMA HoldersMap ==
    ASSUME TypeOK, LockFileHeld, FileInv, MutualExclusion, NEW a \in Attempts,
           WriteLock(a) \/ Release(a) \/ Unlink(a)
    PROVE  /\ FileInv'
           /\ \/ lock' = lock /\ Stage' = Stage
              \/ DataRoot!Acquire(a) \/ DataRoot!Release(a)
<1>t. /\ pc \in [Attempts -> Active \cup {"idle", "done", "dead"}]
      /\ lock \in Attempts \cup {None}
    BY DEF TypeOK
<1>1. CASE WriteLock(a)
  <2>1. lock = None \/ pc[lock] = "dead"
      BY <1>1, <1>t DEF WriteLock, FileInv, MutualExclusion, Elected
  <2>2. Stage[a] = "out" /\ (lock = None \/ Stage[lock] = "crashed")
      BY <1>1, <1>t, <2>1 DEF WriteLock, Stage
  <2>3. lock' = a /\ Stage' = [Stage EXCEPT ![a] = "in"]
      BY <1>1, <1>t DEF WriteLock, Stage
  <2>4. FileInv'
      BY <1>1, <1>t DEF WriteLock, FileInv
  <2> QED BY <2>2, <2>3, <2>4 DEF DataRoot!Acquire, DataRoot!Moves
<1>2. CASE Release(a)
  <2>1. lock = a /\ lock' = lock /\ pc' = [pc EXCEPT ![a] = "unlink"]
      BY <1>2 DEF Release, LockFileHeld, disk
  <2>2. Stage' = Stage
      BY <1>2, <1>t, <2>1 DEF Release, Stage
  <2> QED BY <1>t, <2>1, <2>2 DEF FileInv
<1>3. CASE Unlink(a)
  <2>1. Stage[a] = "in" /\ lock' = None /\ Stage' = [Stage EXCEPT ![a] = "over"]
      BY <1>3, <1>t DEF Unlink, Stage
  <2> QED BY <2>1 DEF FileInv, DataRoot!Release, DataRoot!Moves
<1> QED BY <1>1, <1>2, <1>3

\* A crash ends every attempt of the process and leaves the lock file.
LEMMA CrashMaps ==
    ASSUME TypeOK, FileInv, NEW p \in Pids, Crash(p)
    PROVE  FileInv' /\ \E dying \in SUBSET Attempts : DataRoot!Crash(dying)
<1> DEFINE dying == {a \in Attempts : Pid[a] = p /\ pc[a] \notin {"idle", "done"}}
<1>1. /\ pc' = [a \in Attempts |-> IF a \in dying THEN "dead" ELSE pc[a]]
      /\ lock' = lock
    BY DEF Crash, disk
<1>2. Stage' = [a \in Attempts |-> IF a \in dying THEN "crashed" ELSE Stage[a]]
    BY <1>1 DEF Stage
<1>3. FileInv'
    BY <1>1 DEF FileInv, TypeOK
<1>4. dying \in SUBSET Attempts
    OBVIOUS
<1> HIDE DEF dying
<1> QED BY <1>1, <1>2, <1>3, <1>4 DEF DataRoot!Crash

LEMMA LockStep ==
    ASSUME InductiveInv, FileInv, [Next]_vars
    PROVE  FileInv' /\ [DataRoot!Next]_<<lock, Stage>>
<1>0. TypeOK /\ LockFileHeld /\ MutualExclusion
    BY ElectedUnique DEF InductiveInv
<1>t. lock \in Attempts \cup {None}
    BY <1>0 DEF TypeOK
<1>1. ASSUME NEW a \in Attempts, Idles(a)
      PROVE  FileInv' /\ [DataRoot!Next]_<<lock, Stage>>
    BY <1>0, <1>1, <1>t, IdlesKeepStage DEF FileInv
<1>2. ASSUME NEW a \in Attempts, Quits(a)
      PROVE  FileInv' /\ [DataRoot!Next]_<<lock, Stage>>
    BY <1>0, <1>2, <1>t, QuitsRefuse DEF FileInv, DataRoot!Next
<1>3. ASSUME NEW a \in Attempts, WriteLock(a) \/ Release(a) \/ Unlink(a)
      PROVE  FileInv' /\ [DataRoot!Next]_<<lock, Stage>>
    BY <1>0, <1>3, HoldersMap DEF DataRoot!Next
<1>4. ASSUME NEW p \in Pids, Crash(p)
      PROVE  FileInv' /\ [DataRoot!Next]_<<lock, Stage>>
    BY <1>0, <1>4, CrashMaps DEF DataRoot!Next
<1>5. ASSUME UNCHANGED <<pc, lock>>
      PROVE  FileInv' /\ [DataRoot!Next]_<<lock, Stage>>
    BY <1>5 DEF FileInv, Stage
<1>6. ASSUME NEW p \in Pids, Respawn(p)
      PROVE  FileInv' /\ [DataRoot!Next]_<<lock, Stage>>
    BY <1>5, <1>6 DEF Respawn, disk
<1>7. CASE UNCHANGED vars
    BY <1>5, <1>7 DEF vars, disk
<1> QED BY <1>1, <1>2, <1>3, <1>4, <1>6, <1>7 DEF Next, Step, Idles, Quits
-----------------------------------------------------------------------------
(* The theorems.                                                           *)

\* Every variable of acquireRuntimeLock's protocol keeps its type.
THEOREM LockTypeCorrect == Spec => []TypeOK
<1>1. InductiveInv => TypeOK
    BY DEF InductiveInv
<1> QED BY InductiveAlways, <1>1, PTL

\* At most one control runtime is elected on a data root, for any number of
\* attempts, processes, crashes and reused PIDs.
THEOREM LockMutualExclusion == Spec => []MutualExclusion
<1>1. InductiveInv => MutualExclusion
    BY ElectedUnique DEF InductiveInv
<1> QED BY InductiveAlways, <1>1, PTL

\* The lock file is the holder's as long as it holds the lock: neither a rival
\* nor a late release replaces or removes it.
THEOREM LockFileBelongsToHolder == Spec => []LockFileHeld
<1>1. InductiveInv => LockFileHeld
    BY DEF InductiveInv
<1> QED BY InductiveAlways, <1>1, PTL

\* The reclamation of dead claims never takes the claim of a live attempt.
THEOREM LockClaimsSafe == Spec => []ClaimsSafe
<1>1. InductiveInv => ClaimsSafe
    BY DEF InductiveInv
<1> QED BY InductiveAlways, <1>1, PTL

\* A contended start never ends with nobody: while no process crashes and no
\* scan fails, the attempt in front of the bakery of acquireRuntimeLock is
\* neither beaten by a collected claim nor refused for a lock file.
THEOREM SomeAttemptWins == Spec => []SomeoneWins
<1>1. ElectionInv => SomeoneWins
  <2>1. ASSUME NEW a \in Attempts, Front(a) PROVE pc[a] \notin {"done", "idle"}
      BY <2>1 DEF Front
  <2> QED BY <2>1 DEF ElectionInv, FrontInv, Failed, Acquired, SomeoneWins
<1> QED BY ElectionAlways, <1>1, PTL

\* The bakery of acquireRuntimeLock implements the one-step lock of module
\* DataRootLock: every step takes the lock from nobody or from a crashed
\* attempt, refuses it, gives it back, is a crash, or changes nothing there.
THEOREM BakeryImplementsLock == Spec => ImplementsLock
<1>1. Init => DataRoot!Init /\ FileInv
  <2> SUFFICES ASSUME Init PROVE DataRoot!Init /\ FileInv
      OBVIOUS
  <2>1. lock = None /\ Stage = [a \in Attempts |-> "out"]
      BY DEF Init, Stage
  <2>2. Stage = [a \in Attempts |-> IF a \in {} THEN "crashed" ELSE "out"]
      BY <2>1
  <2>3. \E left \in SUBSET Attempts :
            /\ lock \in left \cup {None}
            /\ Stage = [a \in Attempts |-> IF a \in left THEN "crashed" ELSE "out"]
    <3> WITNESS {} \in SUBSET Attempts
    <3> QED BY <2>1, <2>2
  <2> QED BY <2>1, <2>3 DEF DataRoot!Init, FileInv
<1>2. InductiveInv /\ FileInv /\ [Next]_vars =>
          FileInv' /\ [DataRoot!Next]_<<lock, Stage>>
    BY LockStep
<1> QED BY InductiveAlways, <1>1, <1>2, PTL DEF Spec, ImplementsLock, DataRoot!Spec
=============================================================================
