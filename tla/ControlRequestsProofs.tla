------------------------ MODULE ControlRequestsProofs -----------------------
(***************************************************************************)
(* Slots, answers and replays of the Control API server, for any number of *)
(* requests and any limits.  Two invariants carry the proofs: a request    *)
(* that may still be answered has not been (RequestInv), and the operation *)
(* a key was given stays in the registry until its time is up or enough    *)
(* younger operations have come (RegistryInv).                             *)
(***************************************************************************)
EXTENDS ControlRequests, FiniteSetTheorems, SequenceTheorems,
        WellFoundedInduction, TLAPS

AnyKey == Keys \cup {"none"}
Entry == [key : AnyKey, operation : Nat, expiresAt : Nat]
Acceptance == [request : Requests, key : AnyKey, operation : Nat, at : Nat]
Failure == [remote : Remotes, count : Nat, resetAt : Nat]

\* What a request may have asked whose body is read.
Readable == {q \in Queries : q.flaw = "none" \/ q.flaw \in DOMAIN BodyStatus}

TypeInv ==
    /\ ask \in [Requests -> SUBSET Readable]
    /\ run \in [Requests -> {"idle", "reading", "over"}]
    /\ sent \in [Requests -> Seq(200 .. 504)]
    /\ wire \in [Requests -> {"open", "flushed", "closed"}]
    /\ timer \subseteq Requests /\ timedOut \subseteq Requests
    /\ stopOnFinish \subseteq Requests /\ streams \subseteq Requests
    /\ slotOwned \subseteq Requests /\ activeRequests \in Nat
    /\ entries \subseteq Entry /\ accepted \in Seq(Acceptance)
    /\ stopDue \in BOOLEAN /\ stopped \in {"none", "route", "owner"}
    /\ clock \in 0 .. MaxTime

\* The slots are counted, and no more are given than there are.
SlotInv ==
    /\ IsFiniteSet(slotOwned) /\ activeRequests <= MaxConcurrentRequests
    /\ SlotsExact

\* Nothing has happened to a request that has not arrived.
IdleInv ==
    \A r \in Requests : run[r] = "idle" =>
        /\ sent[r] = <<>> /\ wire[r] = "open"
        /\ r \notin timer \cup timedOut \cup streams \cup stopOnFinish

\* What may still be answered has not been.
PendingInv ==
    /\ \A r \in Requests :
          run[r] = "reading" /\ r \notin timedOut => sent[r] = <<>>
    /\ \A r \in streams : run[r] = "over"

\* A stop is arranged by a 202, and due once one has been flushed.
StopInv ==
    /\ \A r \in stopOnFinish : sent[r] = <<202>>
    /\ stopDue \/ stopped = "route" =>
          \E r \in Requests : wire[r] = "flushed" /\ sent[r] = <<202>>

RequestInv == IdleInv /\ PendingInv /\ StopInv /\ AnsweredOnce

\* The operations begun after the i-th acceptance.
Younger(i) == {k \in i + 1 .. Len(accepted) : accepted[k].operation = k}

\* An operation is numbered by the acceptance that began it; an entry repeats
\* what that acceptance said.
OriginInv ==
    /\ \A i \in DOMAIN accepted :
          LET o == accepted[i].operation
          IN  /\ o \in 1 .. i /\ accepted[o].operation = o
              /\ accepted[o].key = accepted[i].key
    /\ \A e \in entries :
          LET o == e.operation
          IN  /\ o \in DOMAIN accepted /\ accepted[o].operation = o
              /\ accepted[o].key = e.key
              /\ e.expiresAt = accepted[o].at + IdempotencyTtl
    /\ \A e, f \in entries : e.key = f.key => e = f

\* An operation is found until its time is up or it had to make room.
Remembered(i) ==
    \/ \E e \in entries : e.operation = i
    \/ clock >= accepted[i].at + IdempotencyTtl
    \/ Cardinality(Younger(i)) >= IdempotencyCapacity

RegistryInv ==
    /\ OriginInv
    /\ \A i \in DOMAIN accepted :
          accepted[i].operation = i => Remembered(i)
    /\ IsFiniteSet(entries) /\ Cardinality(entries) <= IdempotencyCapacity

\* The failure window stays within its capacity, and a refusal is reported.
AuthInv ==
    /\ authFailures \in Seq(Failure) /\ Len(authFailures) <= RemoteCapacity
    /\ limitedAt \in -1 .. clock
    /\ finding \in 0 .. MaxTime + AuthFailureWindow
    /\ LimitReported

IInv == TypeInv /\ SlotInv /\ RequestInv /\ AuthInv /\ RegistryInv
        /\ ReplayStable
-----------------------------------------------------------------------------
(* Lemmas about the operators of the model.                                *)

LEMMA Limits ==
    /\ MaxConcurrentRequests \in Nat \ {0} /\ IdempotencyCapacity \in Nat \ {0}
    /\ IdempotencyTtl \in Nat \ {0} /\ AuthFailureCapacity \in Nat \ {0}
    /\ AuthFailureWindow \in Nat \ {0} /\ RemoteCapacity \in Nat \ {0}
    /\ MaxTime \in Nat
    BY RequestsAssumption

\* releaseSlot counts down by the slots it takes back.
LEMMA Release ==
    ASSUME NEW R, IsFiniteSet(slotOwned),
           activeRequests = Cardinality(slotOwned), ReleaseSlot(R)
    PROVE  /\ slotOwned' = slotOwned \ R /\ IsFiniteSet(slotOwned')
           /\ activeRequests' = Cardinality(slotOwned')
           /\ activeRequests' \in Nat /\ activeRequests' <= activeRequests
<1>1. IsFiniteSet(slotOwned \ R)
      /\ Cardinality(slotOwned \ R)
            = Cardinality(slotOwned) - Cardinality(slotOwned \cap R)
    BY FS_Difference
<1>2. Cardinality(slotOwned \cap R) \in Nat
    BY FS_Intersection, FS_CardinalityType
<1>3. Cardinality(slotOwned \ R) \in Nat /\ Cardinality(slotOwned) \in Nat
    BY <1>1, FS_CardinalityType
<1> QED BY <1>1, <1>2, <1>3 DEF ReleaseSlot

\* A finite set of numbers that is not empty has a least one.
LEMMA LeastNumber ==
    ASSUME NEW S \in SUBSET Nat, S # {}
    PROVE  \E m \in S : \A n \in S : m <= n
<1> DEFINE less == {ss \in Nat \X Nat : ss[1] < ss[2]}
<1>1. IsWellFoundedOn(less, Nat)
    BY NatLessThanWellFounded, Zenon DEF OpToRel
<1>0. \A n, m \in Nat : n < m => <<n, m>> \in less
    OBVIOUS
<1> HIDE DEF less
<1>2. PICK m \in S : \A n \in S : ~(<<n, m>> \in less)
    BY <1>1, WFMin
<1>3. ASSUME NEW n \in S PROVE m <= n
  <2>1. n \in Nat /\ m \in Nat /\ ~(n < m)
    BY <1>0, <1>2
  <2> QED BY <2>1
<1> QED BY <1>3

\* What make room leaves is less than the capacity.
LEMMA RoomBound ==
    ASSUME NEW E \in SUBSET Entry, IsFiniteSet(E),
           \A e, f \in E : e.operation = f.operation => e = f
    PROVE  IsFiniteSet(Room(E)) /\ Cardinality(Room(E)) < IdempotencyCapacity
<1> DEFINE begun == {e.operation : e \in E}
           Left == {o \in begun : Cardinality({n \in begun : n > o})
                                      < IdempotencyCapacity - 1}
<1> USE Limits
<1>1. IsFiniteSet(begun) /\ begun \in SUBSET Nat
  <2>1. [e \in E |-> e.operation] \in Surjection(E, begun)
    BY DEF Surjection
  <2> QED BY <2>1, FS_Surjection DEF Entry
<1>2. IsFiniteSet(Left) /\ Left \subseteq begun
    BY <1>1, FS_Subset
<1> HIDE DEF begun
<1>3. Cardinality(Left) < IdempotencyCapacity
  <2>1. CASE Left = {}
    <3> HIDE DEF Left
    <3> QED BY <2>1, FS_EmptySet
  <2>2. CASE Left # {}
    <3>1. PICK m \in Left : \A n \in Left : m <= n
        BY <1>1, <2>2, LeastNumber
    <3>2. Left \ {m} \in SUBSET {n \in begun : n > m}
      <4> SUFFICES ASSUME NEW n \in Left, n # m PROVE n \in begun /\ n > m
        OBVIOUS
      <4> QED BY <1>1, <3>1
    <3>3. IsFiniteSet({n \in begun : n > m})
        BY <1>1, FS_Subset
    <3>4. /\ Cardinality(Left \ {m}) <= Cardinality({n \in begun : n > m})
          /\ Cardinality({n \in begun : n > m}) \in Nat
        BY <3>2, <3>3, FS_Subset, FS_CardinalityType
    <3>5. Cardinality(Left \ {m}) = Cardinality(Left) - 1
          /\ Cardinality(Left) \in Nat
        BY <1>2, FS_RemoveElement, FS_CardinalityType
    <3>6. Cardinality({n \in begun : n > m}) < IdempotencyCapacity - 1
        BY <3>1
    <3> HIDE DEF Left
    <3> QED BY <3>4, <3>5, <3>6
  <2> QED BY <2>1, <2>2
<1>4. [e \in Room(E) |-> e.operation] \in Injection(Room(E), Left)
  <2>1. \A e \in Room(E) : e \in E /\ e.operation \in Left
    BY DEF Room, begun
  <2> QED BY <2>1 DEF Injection, IsInjective
<1> HIDE DEF Left
<1>5. IsFiniteSet(Room(E)) /\ Cardinality(Room(E)) <= Cardinality(Left)
    BY <1>2, <1>4, FS_Injection
<1> QED BY <1>2, <1>3, <1>5, FS_CardinalityType

\* Map.set adds an address it does not know and keeps the others.
LEMMA PutEntry ==
    ASSUME NEW s \in Seq(Failure), NEW entry \in Failure
    PROVE  /\ Put(s, entry) \in Seq(Failure) /\ Len(Put(s, entry)) <= Len(s) + 1
           /\ (\E i \in DOMAIN s : s[i].remote = entry.remote)
                 => Len(Put(s, entry)) = Len(s)
<1> DEFINE put == [i \in 1 .. Len(s) |->
                     IF s[i].remote = entry.remote THEN entry ELSE s[i]]
<1>1. DOMAIN s = 1 .. Len(s) /\ Len(s) \in Nat
    OBVIOUS
<1>2. put \in Seq(Failure) /\ Len(put) = Len(s)
  <2>1. \A i \in 1 .. Len(s) : s[i] \in Failure
    OBVIOUS
  <2> HIDE DEF Failure
  <2>2. put \in [1 .. Len(s) -> Failure]
    BY <2>1
  <2> QED BY <1>1, <2>2, IsASeq, LenProperties
<1>3. Append(s, entry) \in Seq(Failure) /\ Len(Append(s, entry)) = Len(s) + 1
    BY AppendProperties
<1>4. Put(s, entry) = IF \E i \in DOMAIN s : s[i].remote = entry.remote
                       THEN put ELSE Append(s, entry)
    BY <1>1, Zenon DEF Put
<1> HIDE DEF put
<1>5. CASE \E i \in DOMAIN s : s[i].remote = entry.remote
  <2>1. Put(s, entry) = put
    BY <1>4, <1>5
  <2> QED BY <1>1, <1>2, <2>1
<1>6. CASE ~ \E i \in DOMAIN s : s[i].remote = entry.remote
  <2>1. Put(s, entry) = Append(s, entry)
    BY <1>4, <1>6
  <2>2. Len(Append(s, entry)) <= Len(s) + 1
    BY <1>1, <1>3
  <2> QED BY <1>3, <1>6, <2>1, <2>2
<1> QED BY <1>5, <1>6

\* A refused token is counted within the window's capacity, and a refusal for
\* too many is reported.
LEMMA Refusal ==
    ASSUME TypeInv, AuthInv, NEW remote \in Remotes, RefuseToken(remote),
           clock' = clock
    PROVE  AuthInv'
<1> USE Limits DEF AuthInv
<1>1. /\ limitedAt' \in -1 .. clock'
      /\ finding' \in 0 .. MaxTime + AuthFailureWindow
      /\ LimitReported'
  <2> DEFINE limited == FailureCount(remote) > AuthFailureCapacity
  <2>1. /\ finding' = IF limited /\ finding <= clock
                      THEN clock + AuthFailureWindow ELSE finding
        /\ limitedAt' = IF limited THEN clock ELSE limitedAt
    BY DEF RefuseToken, NeedsFinding
  <2> HIDE DEF limited
  <2> QED BY <2>1 DEF TypeInv, LimitReported
<1>2. CASE Window(remote) = {}
  <2> DEFINE rest == IF Len(authFailures) >= RemoteCapacity
                     THEN Tail(authFailures) ELSE authFailures
             entry == [remote |-> remote, count |-> 1,
                       resetAt |-> clock + AuthFailureWindow]
  <2>1. rest \in Seq(Failure) /\ Len(rest) < RemoteCapacity
    <3>1. authFailures \in Seq(Failure) /\ Len(authFailures) \in Nat
        BY LenProperties DEF TypeInv
    <3>2. CASE Len(authFailures) >= RemoteCapacity
      <4>1. authFailures # <<>>
        BY <3>2, EmptySeq
      <4>2. Tail(authFailures) \in Seq(Failure)
            /\ Len(Tail(authFailures)) = Len(authFailures) - 1
        BY <3>1, <4>1, HeadTailProperties
      <4> QED BY <3>1, <3>2, <4>2
    <3> QED BY <3>1, <3>2
  <2>2. entry \in Failure
    BY DEF Failure, TypeInv
  <2>3. authFailures' = Put(rest, entry)
    BY <1>2 DEF RefuseToken, RegisterAuthFailure
  <2> HIDE DEF rest, entry
  <2>4. Len(Put(rest, entry)) <= Len(rest) + 1 /\ Put(rest, entry) \in Seq(Failure)
    BY <2>1, <2>2, PutEntry
  <2> QED BY <1>1, <2>1, <2>3, <2>4, LenProperties
<1>3. CASE Window(remote) # {}
  <2> DEFINE e == CHOOSE f \in Window(remote) : TRUE
             entry == [e EXCEPT !.count = @ + 1]
  <2>1. e \in Window(remote)
    BY <1>3
  <2> HIDE DEF e
  <2>2. PICK i \in DOMAIN authFailures : authFailures[i] = e
    BY <2>1 DEF Window
  <2>3. e \in Failure /\ e.remote = remote
    <3>1. e.remote = remote
        BY <2>1 DEF Window
    <3>2. authFailures \in Seq(Failure) /\ i \in 1 .. Len(authFailures)
        BY <2>2, LenProperties DEF TypeInv
    <3> QED BY <2>2, <3>1, <3>2, ElementOfSeq
  <2>4. authFailures' = Put(authFailures, entry)
    BY <1>3 DEF RefuseToken, RegisterAuthFailure, e
  <2>5. entry \in Failure /\ entry.remote = e.remote
    <3>1. e \in [remote : Remotes, count : Nat, resetAt : Nat]
        BY <2>3 DEF Failure
    <3>2. e.count + 1 \in Nat
        BY <3>1
    <3> QED BY <3>1, <3>2 DEF Failure
  <2> HIDE DEF entry
  <2> QED BY <1>1, <2>2, <2>4, <2>5, PutEntry DEF TypeInv
<1> QED BY <1>2, <1>3

\* Reading the findings, or letting time pass, hides no refusal.
LEMMA ReadFindings ==
    ASSUME TypeInv, AuthInv,
           \/ SecurityFindings /\ clock' = clock
           \/ UNCHANGED auth /\ clock' \in {clock, clock + 1}
    PROVE  AuthInv'
<1> USE Limits
<1>1. CASE SecurityFindings /\ clock' = clock
    BY <1>1 DEF SecurityFindings, TypeInv, AuthInv, LimitReported
<1>2. CASE UNCHANGED auth /\ clock' \in {clock, clock + 1}
    BY <1>2 DEF auth, TypeInv, AuthInv, LimitReported
<1> QED BY <1>1, <1>2
-----------------------------------------------------------------------------
(* The registry.                                                           *)

\* What the registry and the history of its answers have.
Registry ==
    /\ entries \subseteq Entry /\ accepted \in Seq(Acceptance) /\ clock \in Nat
    /\ RegistryInv /\ ReplayStable

\* Pruning forgets what has expired.
LEMMA PruneKeeps ==
    ASSUME Registry, entries' = Prune(entries) \/ entries' = entries,
           accepted' = accepted, clock' \in {clock, clock + 1}
    PROVE  Registry'
<1> USE Limits
<1>1. entries' \subseteq entries
    BY DEF Prune
<1>2. /\ entries' \subseteq Entry /\ IsFiniteSet(entries')
      /\ Cardinality(entries') <= IdempotencyCapacity
  <2>1. IsFiniteSet(entries') /\ Cardinality(entries') <= Cardinality(entries)
    BY <1>1, FS_Subset DEF Registry, RegistryInv
  <2>2. Cardinality(entries') \in Nat /\ Cardinality(entries) \in Nat
    BY <2>1, FS_CardinalityType DEF Registry, RegistryInv
  <2> QED BY <1>1, <2>1, <2>2 DEF Registry, RegistryInv
<1>3. OriginInv'
    BY <1>1 DEF Registry, RegistryInv, OriginInv
<1>4. ASSUME NEW i \in DOMAIN accepted, accepted[i].operation = i
      PROVE  Remembered(i)'
  <2>1. Younger(i)' = Younger(i)
    BY DEF Younger
  <2>2. accepted[i] \in Acceptance
    BY <1>4, ElementOfSeq, LenProperties DEF Registry
  <2>3. accepted[i].at \in Nat
    BY <2>2 DEF Acceptance
  <2>4. CASE \E e \in entries : e.operation = i
    <3>1. PICK e \in entries : e.operation = i
        BY <2>4
    <3>2. e.expiresAt = accepted[i].at + IdempotencyTtl
        BY <3>1 DEF Registry, RegistryInv, OriginInv
    <3>3. e \in entries' \/ clock >= e.expiresAt
        BY <2>3, <3>1, <3>2 DEF Prune, Registry
    <3> QED BY <2>3, <3>1, <3>2, <3>3 DEF Remembered, Registry
  <2>5. CASE clock >= accepted[i].at + IdempotencyTtl
    BY <2>3, <2>5 DEF Remembered, Registry
  <2>6. CASE Cardinality(Younger(i)) >= IdempotencyCapacity
    BY <2>1, <2>6 DEF Remembered
  <2> QED BY <1>4, <2>4, <2>5, <2>6 DEF Registry, RegistryInv, Remembered
<1>5. ReplayStable'
  <2>1. ReplayStable
    BY DEF Registry
  <2>2. \A i, j : BegunBetween(i, j)' = BegunBetween(i, j)
    BY DEF BegunBetween
  <2> QED BY <2>1, <2>2 DEF ReplayStable
<1> QED BY <1>2, <1>3, <1>4, <1>5 DEF Registry, RegistryInv

\* The acceptances after one more, and what the registry says of the others.
LEMMA OneMore ==
    ASSUME NEW a \in Acceptance, accepted \in Seq(Acceptance),
           accepted' = Append(accepted, a)
    PROVE  /\ accepted' \in Seq(Acceptance) /\ Len(accepted) \in Nat
           /\ DOMAIN accepted = 1 .. Len(accepted)
           /\ Len(accepted') = Len(accepted) + 1
           /\ DOMAIN accepted' = 1 .. Len(accepted) + 1
           /\ \A i \in DOMAIN accepted : /\ accepted'[i] = accepted[i]
                                        /\ accepted[i] \in Acceptance
           /\ accepted'[Len(accepted) + 1] = a
<1>1. Len(accepted) \in Nat /\ DOMAIN accepted = 1 .. Len(accepted)
    BY LenProperties
<1>2. accepted' \in Seq(Acceptance) /\ Len(accepted') = Len(accepted) + 1
    BY AppendProperties
<1>3. DOMAIN accepted' = 1 .. Len(accepted')
    BY <1>2, LenProperties
<1> QED BY <1>1, <1>2, <1>3, AppendProperties, ElementOfSeq

\* The younger operations are finitely many and only grow.
LEMMA YoungerGrows ==
    ASSUME NEW a \in Acceptance, accepted \in Seq(Acceptance),
           accepted' = Append(accepted, a), NEW i \in DOMAIN accepted
    PROVE  /\ IsFiniteSet(Younger(i)) /\ IsFiniteSet(Younger(i)')
           /\ Cardinality(Younger(i)) \in Nat
           /\ Cardinality(Younger(i)') \in Nat
           /\ Cardinality(Younger(i)) <= Cardinality(Younger(i)')
           /\ a.operation = Len(accepted) + 1 =>
                 Cardinality(Younger(i)') = Cardinality(Younger(i)) + 1
<1> DEFINE n == Len(accepted) + 1
<1> USE OneMore
<1>1. IsFiniteSet(1 .. n)
    BY FS_Interval
<1>2. Younger(i) \subseteq 1 .. n /\ Younger(i)' \subseteq 1 .. n
    BY DEF Younger
<1>3. /\ IsFiniteSet(Younger(i)) /\ Cardinality(Younger(i)) \in Nat
      /\ IsFiniteSet(Younger(i)') /\ Cardinality(Younger(i)') \in Nat
    BY <1>1, <1>2, FS_Subset, FS_CardinalityType
<1>4. Younger(i) \subseteq Younger(i)' /\ n \notin Younger(i)
    BY DEF Younger
<1>5. Cardinality(Younger(i)) <= Cardinality(Younger(i)')
    BY <1>3, <1>4, FS_Subset
<1>6. ASSUME a.operation = n
      PROVE  Cardinality(Younger(i)') = Cardinality(Younger(i)) + 1
  <2>1. Younger(i)' = Younger(i) \cup {n}
    BY <1>6 DEF Younger
  <2> QED BY <1>3, <1>4, <2>1, FS_AddElement
<1> QED BY <1>3, <1>5, <1>6

\* The stop route records an operation, or finds the one recorded.
Recording(a) ==
    /\ a.operation \in IF Lookup(a.key) = {} THEN {Len(accepted) + 1}
                       ELSE Lookup(a.key)
    /\ a.at = clock /\ Record(a.key, a.operation)
    /\ accepted' = Append(accepted, a) /\ clock' = clock

\* A new operation is the youngest, and its key has no other entry.
LEMMA NewOperation ==
    ASSUME Registry, NEW a \in Acceptance, Recording(a), Lookup(a.key) = {}
    PROVE  /\ entries' \subseteq Entry /\ RegistryInv'
<1> USE Limits, OneMore DEF Recording
<1> DEFINE n == Len(accepted) + 1
           new == [key |-> a.key, operation |-> n,
                   expiresAt |-> clock + IdempotencyTtl]
           P == Prune(entries)
<1>0. accepted \in Seq(Acceptance) /\ entries \subseteq Entry /\ clock \in Nat
    BY DEF Registry
<1>1. a.operation = n /\ entries' = Room(P) \cup {new}
    BY DEF Record
<1>2. new \in Entry /\ a.key \in AnyKey
    BY <1>0 DEF Entry, Acceptance
<1>3. P \subseteq entries /\ Room(P) \subseteq P
    BY DEF Prune, Room
<1>4. \A e \in P : e.key # a.key
  <2> SUFFICES ASSUME NEW e \in P, e.key = a.key PROVE FALSE
    OBVIOUS
  <2>1. e.operation \in Lookup(a.key)
    BY DEF Lookup
  <2> QED BY <2>1
<1>5. entries' \subseteq Entry
    BY <1>0, <1>1, <1>2, <1>3
<1>6. OriginInv
    BY DEF Registry, RegistryInv
<1>7. IsFiniteSet(entries') /\ Cardinality(entries') <= IdempotencyCapacity
  <2>1. IsFiniteSet(P) /\ P \in SUBSET Entry
    BY <1>0, <1>3, FS_Subset DEF Registry, RegistryInv
  <2>2. \A e, f \in P : e.operation = f.operation => e = f
    BY <1>3, <1>6 DEF OriginInv
  <2>3. IsFiniteSet(Room(P)) /\ Cardinality(Room(P)) < IdempotencyCapacity
    BY <2>1, <2>2, RoomBound
  <2>4. Cardinality(Room(P)) \in Nat
    BY <2>3, FS_CardinalityType
  <2> DEFINE room == Room(P)
  <2>5. entries' = room \cup {new}
    BY <1>1
  <2>6. IsFiniteSet(room) /\ Cardinality(room) \in Nat
        /\ Cardinality(room) < IdempotencyCapacity
    BY <2>3, <2>4
  <2> HIDE DEF room, new
  <2>7. IsFiniteSet(room \cup {new})
        /\ Cardinality(room \cup {new}) \in
              {Cardinality(room), Cardinality(room) + 1}
    BY <2>6, FS_AddElement
  <2> QED BY <2>5, <2>6, <2>7
<1>8. OriginInv'
  <2>1. \A i \in DOMAIN accepted' :
           LET o == accepted'[i].operation
           IN  /\ o \in 1 .. i /\ accepted'[o].operation = o
               /\ accepted'[o].key = accepted'[i].key
    BY <1>0, <1>1, <1>6 DEF OriginInv
  <2>2. \A e \in entries' :
           LET o == e.operation
           IN  /\ o \in DOMAIN accepted' /\ accepted'[o].operation = o
               /\ accepted'[o].key = e.key
               /\ e.expiresAt = accepted'[o].at + IdempotencyTtl
    BY <1>0, <1>1, <1>3, <1>6 DEF OriginInv
  <2>3. \A e, f \in entries' : e.key = f.key => e = f
    BY <1>1, <1>3, <1>4, <1>6 DEF OriginInv
  <2> QED BY <2>1, <2>2, <2>3 DEF OriginInv
<1>9. ASSUME NEW i \in DOMAIN accepted', accepted'[i].operation = i
      PROVE  Remembered(i)'
  <2>1. CASE i = n
    <3>1. new \in entries' /\ new.operation = i
        BY <1>1, <2>1
    <3> QED BY <3>1 DEF Remembered
  <2>2. CASE i \in DOMAIN accepted
    <3>1. accepted'[i] = accepted[i] /\ accepted[i].at \in Nat
        BY <1>0, <2>2 DEF Acceptance
    <3>2. Remembered(i)
        BY <1>9, <2>2, <3>1 DEF Registry, RegistryInv
    <3>3. CASE clock >= accepted[i].at + IdempotencyTtl
        BY <3>1, <3>3 DEF Remembered
    <3>4. CASE Cardinality(Younger(i)) >= IdempotencyCapacity
        BY <1>0, <2>2, <3>4, YoungerGrows DEF Remembered
    <3>5. ASSUME NEW e \in entries, e.operation = i
          PROVE  Remembered(i)'
      <4>1. e.expiresAt = accepted[i].at + IdempotencyTtl
        BY <1>6, <3>5 DEF OriginInv
      <4>2. CASE e \notin P
        BY <1>0, <3>1, <3>5, <4>1, <4>2 DEF Prune, Remembered
      <4>3. CASE e \in Room(P)
        BY <1>1, <3>5, <4>3 DEF Remembered
      <4>4. CASE e \in P \ Room(P)
        <5> DEFINE after == {o \in {f.operation : f \in P} : o > i}
        <5>1. ~ (Cardinality(after) < IdempotencyCapacity - 1)
            BY <3>5, <4>4 DEF Room
        <5>2. after \subseteq Younger(i)
            BY <1>0, <1>3, <1>6, <2>2 DEF OriginInv, Younger
        <5> HIDE DEF after
        <5>3. Cardinality(after) <= Cardinality(Younger(i))
              /\ Cardinality(after) \in Nat
            BY <1>0, <2>2, <5>2, YoungerGrows, FS_Subset, FS_CardinalityType
        <5>4. Cardinality(Younger(i)') = Cardinality(Younger(i)) + 1
              /\ Cardinality(Younger(i)) \in Nat
            BY <1>0, <1>1, <2>2, YoungerGrows
        <5>5. Cardinality(Younger(i)') >= IdempotencyCapacity
            BY <5>1, <5>3, <5>4
        <5> QED BY <5>5 DEF Remembered
      <4> QED BY <4>2, <4>3, <4>4
    <3> QED BY <3>2, <3>3, <3>4, <3>5 DEF Remembered
  <2> QED BY <1>0, <1>9, <2>1, <2>2
<1> QED BY <1>5, <1>7, <1>8, <1>9 DEF RegistryInv

\* A repetition leaves the registry as pruning does.
LEMMA RepeatedOperation ==
    ASSUME Registry, NEW a \in Acceptance, Recording(a), Lookup(a.key) # {}
    PROVE  entries' \subseteq Entry /\ RegistryInv'
<1> USE Limits, OneMore DEF Recording
<1>0. accepted \in Seq(Acceptance) /\ entries \subseteq Entry /\ clock \in Nat
    BY DEF Registry
<1>1. entries' = Prune(entries) /\ entries' \subseteq entries
    BY DEF Record, Prune
<1>2. OriginInv
    BY DEF Registry, RegistryInv
<1>3. PICK e \in entries : e.key = a.key /\ e.operation = a.operation
    BY DEF Lookup, Prune
<1>4. a.operation \in DOMAIN accepted
      /\ accepted[a.operation].operation = a.operation
      /\ accepted[a.operation].key = a.key
    BY <1>2, <1>3 DEF OriginInv
<1>5. IsFiniteSet(entries') /\ Cardinality(entries') <= IdempotencyCapacity
  <2>1. /\ IsFiniteSet(entries') /\ Cardinality(entries') <= Cardinality(entries)
        /\ Cardinality(entries) <= IdempotencyCapacity
    BY <1>1, FS_Subset DEF Registry, RegistryInv
  <2>2. Cardinality(entries') \in Nat /\ Cardinality(entries) \in Nat
    BY <2>1, FS_CardinalityType DEF Registry, RegistryInv
  <2> QED BY <2>1, <2>2
<1>6. OriginInv'
  <2>1. \A i \in DOMAIN accepted' :
           LET o == accepted'[i].operation
           IN  /\ o \in 1 .. i /\ accepted'[o].operation = o
               /\ accepted'[o].key = accepted'[i].key
    BY <1>0, <1>2, <1>4 DEF OriginInv
  <2>2. \A f \in entries' :
           LET o == f.operation
           IN  /\ o \in DOMAIN accepted' /\ accepted'[o].operation = o
               /\ accepted'[o].key = f.key
               /\ f.expiresAt = accepted'[o].at + IdempotencyTtl
    BY <1>0, <1>1, <1>2 DEF OriginInv
  <2>3. \A f, g \in entries' : f.key = g.key => f = g
    BY <1>1, <1>2 DEF OriginInv
  <2> QED BY <2>1, <2>2, <2>3 DEF OriginInv
<1>7. ASSUME NEW i \in DOMAIN accepted', accepted'[i].operation = i
      PROVE  Remembered(i)'
  <2>1. i \in DOMAIN accepted
    BY <1>0, <1>4, <1>7
  <2>2. accepted'[i] = accepted[i] /\ accepted[i].at \in Nat
    BY <1>0, <2>1 DEF Acceptance
  <2>3. Remembered(i)
    BY <1>7, <2>1, <2>2 DEF Registry, RegistryInv
  <2>4. CASE clock >= accepted[i].at + IdempotencyTtl
    BY <2>2, <2>4 DEF Remembered
  <2>5. CASE Cardinality(Younger(i)) >= IdempotencyCapacity
    BY <1>0, <2>1, <2>5, YoungerGrows DEF Remembered
  <2>6. ASSUME NEW f \in entries, f.operation = i
        PROVE  Remembered(i)'
    <3>1. f.expiresAt = accepted[i].at + IdempotencyTtl
        BY <1>2, <2>6 DEF OriginInv
    <3>2. f \in entries' \/ clock >= f.expiresAt
        BY <1>0, <1>1, <2>2, <3>1 DEF Prune
    <3> QED BY <2>2, <2>6, <3>1, <3>2 DEF Remembered
  <2> QED BY <2>3, <2>4, <2>5, <2>6 DEF Remembered
<1> QED BY <1>1, <1>0, <1>5, <1>6, <1>7 DEF RegistryInv

\* A key whose operation is remembered is given it again.
LEMMA Replays ==
    ASSUME Registry, NEW a \in Acceptance, Recording(a),
           NEW i \in DOMAIN accepted, accepted[i].operation = i,
           accepted[i].key = a.key, a.operation # i
    PROVE  \/ a.at - accepted[i].at >= IdempotencyTtl
           \/ Cardinality(Younger(i)) >= IdempotencyCapacity
<1> USE Limits DEF Recording
<1>1. Remembered(i) /\ OriginInv
    BY DEF Registry, RegistryInv
<1>2. accepted[i].at \in Nat /\ clock \in Nat
    BY OneMore DEF Registry, Acceptance
<1>3. ASSUME NEW e \in entries, e.operation = i
      PROVE  clock >= accepted[i].at + IdempotencyTtl
  <2>1. e.key = a.key /\ e.expiresAt = accepted[i].at + IdempotencyTtl
    BY <1>1, <1>3 DEF OriginInv
  <2>2. CASE e \in Prune(entries)
    <3>1. \A f \in Prune(entries) : f.key = a.key => f = e
        BY <1>1, <2>1 DEF OriginInv, Prune
    <3>2. Lookup(a.key) = {i}
        BY <1>3, <2>1, <2>2, <3>1 DEF Lookup
    <3> QED BY <3>2
  <2>3. CASE e \notin Prune(entries)
    BY <1>2, <2>1, <2>3 DEF Prune
  <2> QED BY <2>2, <2>3
<1> QED BY <1>1, <1>2, <1>3 DEF Remembered

\* What a stop is answered is what it was answered at first.
LEMMA RecordingKeeps ==
    ASSUME Registry, NEW a \in Acceptance, Recording(a)
    PROVE  Registry'
<1> USE Limits
<1>0. accepted \in Seq(Acceptance) /\ accepted' = Append(accepted, a)
      /\ clock \in Nat
    BY DEF Registry, Recording
<1>1. entries' \subseteq Entry /\ RegistryInv'
    BY NewOperation, RepeatedOperation
<1>2. OriginInv /\ ReplayStable
    BY DEF Registry, RegistryInv
<1>3. ReplayStable'
  <2> SUFFICES ASSUME NEW i \in DOMAIN accepted', NEW j \in DOMAIN accepted',
                      i < j, accepted'[i].key = accepted'[j].key,
                      accepted'[i].operation # accepted'[j].operation,
                      \A k \in 1 .. i - 1 :
                         accepted'[k].operation # accepted'[i].operation
               PROVE  \/ accepted'[j].at - accepted'[i].at >= IdempotencyTtl
                      \/ Cardinality(BegunBetween(i, j)') >= IdempotencyCapacity
    BY DEF ReplayStable
  <2>1. i \in DOMAIN accepted /\ accepted'[i] = accepted[i]
        /\ \A k \in 1 .. i : accepted'[k] = accepted[k] /\ k \in DOMAIN accepted
    BY <1>0, OneMore
  <2>2. CASE j \in DOMAIN accepted
    <3>1. accepted'[j] = accepted[j]
        BY <1>0, <2>2, OneMore
    <3>2. BegunBetween(i, j)' = BegunBetween(i, j)
      <4>1. \A k \in 1 .. j - 1 : accepted'[k] = accepted[k]
        BY <1>0, <2>2, OneMore
      <4>2. \A k \in 1 .. i : accepted'[k] = accepted[k]
        BY <2>1
      <4>3. {accepted'[k].operation : k \in i + 1 .. j - 1}
                = {accepted[k].operation : k \in i + 1 .. j - 1}
        <5>1. i + 1 .. j - 1 \subseteq 1 .. j - 1
            BY <1>0, <2>1, <2>2, OneMore
        <5> QED BY <4>1, <5>1
      <4>4. {accepted'[k].operation : k \in 1 .. i}
                = {accepted[k].operation : k \in 1 .. i}
        BY <4>2
      <4> QED BY <4>3, <4>4 DEF BegunBetween
    <3>3. \A k \in 1 .. i - 1 : accepted[k].operation # accepted[i].operation
        BY <1>0, <2>1, OneMore
    <3> QED BY <1>2, <2>1, <2>2, <3>1, <3>2, <3>3 DEF ReplayStable
  <2>3. CASE j = Len(accepted) + 1
    <3>1. accepted'[j] = a
        BY <1>0, <2>3, OneMore
    <3>2. accepted[i].operation = i
      <4>1. LET o == accepted[i].operation
            IN  o \in 1 .. i /\ accepted[o].operation = o
        BY <1>2, <2>1 DEF OriginInv
      <4>2. \A k \in 1 .. i - 1 : accepted[k].operation # accepted[i].operation
        BY <1>0, <2>1, OneMore
      <4> QED BY <1>0, <2>1, <4>1, <4>2, OneMore
    <3>3. \/ a.at - accepted[i].at >= IdempotencyTtl
          \/ Cardinality(Younger(i)) >= IdempotencyCapacity
        BY <2>1, <3>1, <3>2, Replays
    <3>4. IsFiniteSet(BegunBetween(i, j)') /\ Younger(i) \subseteq BegunBetween(i, j)'
      <4>1. \A k \in 1 .. j - 1 : /\ k \in DOMAIN accepted
                                  /\ accepted'[k] = accepted[k]
                                  /\ accepted[k].operation \in 1 .. k
        BY <1>0, <1>2, <2>3, OneMore DEF OriginInv
      <4>2. BegunBetween(i, j)' \subseteq 1 .. j - 1
        BY <1>0, <2>3, <4>1, OneMore DEF BegunBetween
      <4>3. Younger(i) \subseteq BegunBetween(i, j)'
        BY <1>0, <2>1, <2>3, <4>1, OneMore DEF BegunBetween, Younger
      <4>4. IsFiniteSet(1 .. j - 1)
        BY <1>0, <2>3, OneMore, FS_Interval
      <4> QED BY <4>2, <4>3, <4>4, FS_Subset
    <3>5. Cardinality(Younger(i)) <= Cardinality(BegunBetween(i, j)')
          /\ Cardinality(Younger(i)) \in Nat
          /\ Cardinality(BegunBetween(i, j)') \in Nat
        BY <1>0, <2>1, <3>4, FS_Subset, FS_CardinalityType, YoungerGrows
    <3>6. CASE a.at - accepted[i].at >= IdempotencyTtl
        BY <2>1, <3>1, <3>6
    <3>7. CASE Cardinality(Younger(i)) >= IdempotencyCapacity
      <4>1. Cardinality(BegunBetween(i, j)') >= IdempotencyCapacity
        BY <3>5, <3>7
      <4> QED BY <4>1
    <3> QED BY <3>3, <3>6, <3>7
  <2> QED BY <1>0, <2>2, <2>3, OneMore
<1> QED BY <1>0, <1>1, <1>3, OneMore DEF Registry, Recording
-----------------------------------------------------------------------------
(* The requests.                                                           *)

\* A response has been sent or not.
LEMMA OneResponse ==
    \A status : <<status>> # <<>> /\ Len(<<status>>) = 1 /\ Len(<<>>) = 0
<1> TAKE status
<1>1. Len(<<status>>) = 1 /\ Len(<<>>) = 0
    OBVIOUS
<1> QED BY <1>1

LEMMA AcceptedRequest ==
    ASSUME TypeInv, NEW i \in DOMAIN accepted
    PROVE  accepted[i].request \in Requests
<1>1. accepted[i] \in Acceptance
    BY ElementOfSeq, LenProperties DEF TypeInv
<1> QED BY <1>1 DEF Acceptance

\* A first response is the only one.
LEMMA FirstAnswer ==
    ASSUME TypeInv, NEW r \in Requests, NEW status \in 200 .. 504,
           Send(r, status)
    PROVE  /\ sent' \in [Requests -> Seq(200 .. 504)]
           /\ \A x \in Requests \ {r} : sent'[x] = sent[x]
           /\ sent[r] = <<>> => sent'[r] = <<status>>
<1>1. Append(sent[r], status) \in Seq(200 .. 504)
    BY AppendProperties DEF TypeInv
<1>2. Append(<<>>, status) = <<status>>
    OBVIOUS
<1>3. sent' = [sent EXCEPT ![r] = Append(sent[r], status)]
    BY DEF Send
<1> QED BY ZenonT(60), <1>1, <1>2, <1>3 DEF TypeInv

\* A request that is refused, or answered as a preflight, takes no slot.
LEMMA AnsweredAtOnce ==
    ASSUME TypeInv, SlotInv, RequestInv,
           NEW r \in Requests, NEW status \in 200 .. 504, NEW armed \in BOOLEAN,
           run[r] = "idle", AnswerAtOnce(r, status, armed),
           UNCHANGED <<wire, timedOut, stopOnFinish, streams, idempotency,
                       stopping, clock>>
    PROVE  TypeInv' /\ SlotInv' /\ RequestInv'
<1> USE DEF AnswerAtOnce, slots, idempotency, stopping
<1>1. sent[r] = <<>>
    BY DEF RequestInv, IdleInv
<1>2. /\ sent' \in [Requests -> Seq(200 .. 504)]
      /\ \A x \in Requests \ {r} : sent'[x] = sent[x]
      /\ sent'[r] = <<status>>
    BY ZenonT(60), <1>1, FirstAnswer DEF Send
<1>3. TypeInv'
    BY <1>2 DEF TypeInv
<1>4. SlotInv'
    BY DEF TypeInv, SlotInv, SlotsExact
<1>5. RequestInv'
  <2>1. \A x \in Requests : sent[x] = <<202>> => x # r
    BY SMTT(40), <1>1, OneResponse
  <2>2. AnsweredOnce'
    <3>1. \A i \in DOMAIN accepted : accepted[i].request \in Requests \ {r}
        BY <2>1, AcceptedRequest DEF RequestInv, AnsweredOnce
    <3> QED BY <1>2, <3>1, OneResponse DEF RequestInv, AnsweredOnce
  <2>3. StopInv'
    BY ZenonT(60), <1>2, <2>1 DEF StopInv, RequestInv, TypeInv
  <2>4. /\ \A x \in Requests : x # r => run'[x] = run[x]
        /\ run'[r] = "over" /\ timer' \subseteq timer \cup {r}
    BY DEF TypeInv
  <2>5. IdleInv' /\ PendingInv'
    BY <1>2, <2>4 DEF IdleInv, PendingInv, RequestInv, TypeInv
  <2> QED BY <2>2, <2>3, <2>5 DEF RequestInv
<1> QED BY <1>3, <1>4, <1>5

\* The end of connections takes slots, timers and streams with it, and makes
\* a stop due only by a 202 that has been flushed.
LEMMA Closing ==
    ASSUME TypeInv, SlotInv, RequestInv,
           NEW R \in SUBSET Requests, NEW how \in {"flushed", "closed"},
           \A r \in R : wire[r] = "open" /\ run[r] # "idle",
           Closed(R, how),
           UNCHANGED <<ask, run, sent, stopOnFinish, idempotency, clock>>,
           timedOut \subseteq timedOut', timedOut' \subseteq timedOut \cup R,
           stopDue' \in BOOLEAN, stopped' \in {"none", "route", "owner"},
           stopDue' \/ stopped' = "route" =>
              \/ stopDue \/ stopped = "route"
              \/ how = "flushed" /\ \E r \in R : sent[r] = << 202 >>
    PROVE  TypeInv' /\ SlotInv' /\ RequestInv'
<1> USE DEF Closed, idempotency
<1>1. /\ slotOwned' = slotOwned \ R /\ IsFiniteSet(slotOwned')
      /\ activeRequests' = Cardinality(slotOwned')
      /\ activeRequests' \in Nat /\ activeRequests' <= activeRequests
    BY Release DEF SlotInv, SlotsExact
<1>2. TypeInv'
    BY <1>1 DEF TypeInv
<1>3. SlotInv'
    BY <1>1, Limits DEF SlotInv, SlotsExact, TypeInv
<1>4. IdleInv' /\ PendingInv'
    BY DEF IdleInv, PendingInv, RequestInv, TypeInv
<1>5. StopInv'
    BY DEF StopInv, RequestInv, TypeInv
<1>6. AnsweredOnce'
    BY DEF AnsweredOnce, RequestInv
<1> QED BY <1>2, <1>3, <1>4, <1>5, <1>6 DEF RequestInv

\* The timer answers 504 where nothing has been answered.
LEMMA TimeoutKeeps ==
    ASSUME TypeInv, SlotInv, RequestInv, NEW r \in Requests, Timeout(r)
    PROVE  TypeInv' /\ SlotInv' /\ RequestInv'
<1>0. /\ run[r] # "idle" /\ wire[r] = "open"
      /\ timedOut' = timedOut \cup {r}
      /\ UNCHANGED <<ask, run, stopOnFinish, entries, accepted, stopDue, stopped,
                     clock>>
    BY DEF RequestInv, IdleInv, Timeout, idempotency, stopping
<1>1. CASE Closed({r}, "closed") /\ UNCHANGED sent
  <2>1. {r} \in SUBSET Requests /\ timedOut' \subseteq timedOut \cup {r}
        /\ timedOut \subseteq timedOut' /\ UNCHANGED <<idempotency, clock>>
    BY <1>0 DEF idempotency
  <2>2. stopDue' \in BOOLEAN /\ stopped' \in {"none", "route", "owner"}
    BY <1>0 DEF TypeInv
  <2> QED BY <1>0, <1>1, <2>1, <2>2, Closing
<1>2. CASE /\ sent[r] = <<>> /\ Send(r, 504) /\ timer' = timer \ {r}
           /\ ReleaseSlot({r}) /\ UNCHANGED <<wire, streams>>
  <2>0. PICK status \in 200 .. 504 :
               sent' = [sent EXCEPT ![r] = Append(sent[r], status)]
    BY <1>2 DEF Send
  <2>1. /\ sent' \in [Requests -> Seq(200 .. 504)]
        /\ \A x \in Requests \ {r} : sent'[x] = sent[x]
        /\ sent'[r] = <<status>>
    <3>1. sent[r] = <<>>
        BY <1>2
    <3>2. sent' \in [Requests -> Seq(200 .. 504)]
        BY <2>0, FirstAnswer DEF Send
    <3>3. \A x \in Requests \ {r} : sent'[x] = sent[x]
        BY <2>0, FirstAnswer DEF Send
    <3>4. sent'[r] = <<status>>
        BY ZenonT(60), <2>0, <3>1, FirstAnswer DEF Send
    <3> QED BY <3>2, <3>3, <3>4
  <2>2. /\ slotOwned' = slotOwned \ {r} /\ IsFiniteSet(slotOwned')
        /\ activeRequests' = Cardinality(slotOwned')
        /\ activeRequests' \in Nat /\ activeRequests' <= activeRequests
    BY <1>2, Release DEF SlotInv, SlotsExact
  <2>3. TypeInv'
    BY <1>0, <1>2, <2>1, <2>2 DEF TypeInv
  <2>4. SlotInv'
    BY <1>0, <1>2, <2>2, Limits DEF SlotInv, SlotsExact, TypeInv
  <2>5. \A x \in Requests : sent[x] = <<202>> => x # r
    BY <1>2, OneResponse
  <2>6. IdleInv' /\ PendingInv'
    BY <1>0, <1>2, <2>1 DEF IdleInv, PendingInv, RequestInv, TypeInv
  <2>7. StopInv'
    <3>1. \A x \in stopOnFinish : x # r /\ sent'[x] = <<202>>
        BY <2>1, <2>5 DEF StopInv, RequestInv, TypeInv
    <3>2. \A x \in Requests : sent[x] = <<202>> => sent'[x] = <<202>>
        BY <2>1, <2>5
    <3> QED BY <1>0, <1>2, <3>1, <3>2 DEF StopInv, RequestInv
  <2>8. AnsweredOnce'
    <3>1. \A i \in DOMAIN accepted : accepted[i].request \in Requests \ {r}
        BY <2>5, AcceptedRequest DEF RequestInv, AnsweredOnce
    <3>2. \A x \in Requests : Len(sent'[x]) <= 1
      <4>1. Len(sent'[r]) <= 1
        BY <2>1, OneResponse
      <4>2. \A x \in Requests \ {r} : Len(sent'[x]) <= 1
        BY <2>1 DEF RequestInv, AnsweredOnce
      <4> QED BY <4>1, <4>2
    <3>3. \A i \in DOMAIN accepted : sent'[accepted[i].request] = <<202>>
        BY ZenonT(60), <2>1, <3>1 DEF RequestInv, AnsweredOnce
    <3> QED BY <1>0, <3>2, <3>3 DEF AnsweredOnce
  <2> QED BY <2>3, <2>4, <2>6, <2>7, <2>8 DEF RequestInv
<1> QED BY <1>1, <1>2 DEF Timeout

\* The end of a handler, whatever it has sent: the slot is given back.
Ends(r) ==
    /\ run[r] = "reading"
    /\ run' = [run EXCEPT ![r] = "over"] /\ ask' = [ask EXCEPT ![r] = {}]
    /\ timer' = timer \ {r} /\ ReleaseSlot({r})
    /\ UNCHANGED <<wire, timedOut, stopping, clock>>

\* Only with a 202 is a stop recorded and arranged.
Arranges(r, status) ==
    /\ streams' \subseteq streams \cup {r}
    /\ stopOnFinish' \subseteq
          stopOnFinish \cup {x \in {r} : <<status>> = <<202>>}
    /\ entries' \subseteq Entry
    /\ \/ accepted' = accepted
       \/ \E a \in Acceptance : /\ accepted' = Append(accepted, a)
                                /\ a.request = r /\ <<status>> = <<202>>

\* A request that is neither late nor answered is answered once.
LEMMA Served ==
    ASSUME TypeInv, SlotInv, RequestInv, NEW r \in Requests, Ends(r),
           r \notin timedOut, NEW status \in 200 .. 504, Send(r, status),
           Arranges(r, status)
    PROVE  TypeInv' /\ SlotInv' /\ RequestInv'
<1>1. sent[r] = <<>>
    BY DEF RequestInv, PendingInv, Ends
<1>2. sent' \in [Requests -> Seq(200 .. 504)]
    BY ZenonT(60), FirstAnswer DEF Send
<1>3. \A x \in Requests \ {r} : sent'[x] = sent[x]
    BY FirstAnswer DEF Send
<1>4. sent'[r] = <<status>>
    BY ZenonT(60), <1>1, FirstAnswer DEF Send
<1>5. /\ slotOwned' = slotOwned \ {r} /\ IsFiniteSet(slotOwned')
      /\ activeRequests' = Cardinality(slotOwned')
      /\ activeRequests' \in Nat /\ activeRequests' <= activeRequests
    BY Release DEF SlotInv, SlotsExact, Ends
<1>6. accepted' \in Seq(Acceptance)
    BY OneMore DEF TypeInv, Arranges
<1>7. TypeInv'
  <2>1. /\ run' \in [Requests -> {"idle", "reading", "over"}]
        /\ ask' \in [Requests -> SUBSET Readable]
        /\ timer' \subseteq Requests /\ stopOnFinish' \subseteq Requests
        /\ streams' \subseteq Requests /\ entries' \subseteq Entry
        /\ slotOwned' \subseteq Requests
    BY <1>5 DEF TypeInv, Ends, Arranges
  <2> QED BY <1>2, <1>5, <1>6, <2>1 DEF TypeInv, Ends, stopping
<1>8. SlotInv'
    BY <1>5, Limits DEF SlotInv, SlotsExact, TypeInv, Ends, Arranges
<1>9. \A x \in Requests : sent[x] = <<202>> => x # r
    BY <1>1, OneResponse
<1>10. IdleInv' /\ PendingInv'
    BY <1>3 DEF IdleInv, PendingInv, RequestInv, TypeInv, Ends, Arranges
<1>11. StopInv'
  <2>1. \A x \in stopOnFinish : x # r /\ sent'[x] = <<202>>
    BY <1>3, <1>9 DEF StopInv, RequestInv, TypeInv
  <2>2. \A x \in stopOnFinish' : sent'[x] = <<202>>
    BY <1>4, <2>1 DEF Arranges
  <2>3. \A x \in Requests : sent[x] = <<202>> => sent'[x] = <<202>>
    BY <1>3, <1>9
  <2> QED BY <2>2, <2>3 DEF StopInv, RequestInv, Ends, stopping
<1>12. AnsweredOnce'
  <2>1. \A x \in Requests : Len(sent'[x]) <= 1
    <3>1. Len(sent'[r]) <= 1
        BY <1>4, OneResponse
    <3>2. \A x \in Requests \ {r} : Len(sent'[x]) <= 1
        BY <1>3 DEF RequestInv, AnsweredOnce
    <3> QED BY <3>1, <3>2
  <2>2. ASSUME NEW i \in DOMAIN accepted
        PROVE  sent'[accepted[i].request] = << 202 >>
    <3>1. accepted[i].request \in Requests /\ sent[accepted[i].request] = << 202 >>
        BY AcceptedRequest DEF RequestInv, AnsweredOnce
    <3> QED BY <1>3, <1>9, <3>1
  <2>3. ASSUME NEW a \in Acceptance, accepted' = Append(accepted, a),
               a.request = r, <<status>> = << 202 >>,
               NEW i \in DOMAIN accepted'
        PROVE  sent'[accepted'[i].request] = <<202>>
    <3>1. accepted \in Seq(Acceptance)
        BY DEF TypeInv
    <3>2. CASE i \in DOMAIN accepted
      <4>1. accepted'[i] = accepted[i]
        BY <2>3, <3>1, <3>2, OneMore
      <4> QED BY <2>2, <3>2, <4>1
    <3>3. CASE i = Len(accepted) + 1
      <4>1. accepted'[i].request = r
        BY <2>3, <3>1, <3>3, OneMore
      <4> QED BY <1>4, <2>3, <4>1
    <3>4. DOMAIN accepted' = 1 .. Len(accepted) + 1
          /\ DOMAIN accepted = 1 .. Len(accepted) /\ Len(accepted) \in Nat
        BY <2>3, <3>1, OneMore
    <3>5. i \in DOMAIN accepted \/ i = Len(accepted) + 1
        BY <3>4
    <3> QED BY <3>2, <3>3, <3>5
  <2>4. \A i \in DOMAIN accepted' : sent'[accepted'[i].request] = <<202>>
    <3>1. CASE accepted' = accepted
        BY <2>2, <3>1
    <3> QED BY <2>3, <3>1 DEF Arranges
  <2> QED BY <2>1, <2>4 DEF AnsweredOnce
<1> QED BY <1>7, <1>8, <1>10, <1>11, <1>12 DEF RequestInv

\* The routes: what they send, and what they leave in the registry, the
\* findings and the response.
LEMMA ServeArranges ==
    ASSUME IInv, NEW r \in Requests, NEW q \in Readable, Serve(r, q),
           clock' = clock
    PROVE  /\ \E status \in 200 .. 504 : Send(r, status) /\ Arranges(r, status)
           /\ AuthInv' /\ RegistryInv' /\ ReplayStable'
<1>1. Registry
    BY DEF IInv, TypeInv, Registry
<1>2. q \in Query
    BY RequestsAssumption DEF Readable
<1>3. ASSUME UNCHANGED idempotency
      PROVE  Registry'
    BY <1>1, <1>3, PruneKeeps DEF idempotency
<1>4. ASSUME UNCHANGED auth
      PROVE  AuthInv'
    BY <1>4, ReadFindings DEF IInv
<1>5. ASSUME NEW status \in 200 .. 504, Send(r, status),
             UNCHANGED <<idempotency, stopOnFinish>>,
             streams' \subseteq streams \cup {r}, AuthInv'
      PROVE  /\ \E s \in 200 .. 504 : Send(r, s) /\ Arranges(r, s)
             /\ AuthInv' /\ RegistryInv' /\ ReplayStable'
  <2>1. Arranges(r, status)
    BY <1>1, <1>5 DEF Arranges, idempotency, Registry
  <2> QED BY <1>3, <1>5, <2>1 DEF Registry
<1>6. CASE q.flaw # "none"
  <2>1. BodyStatus[q.flaw] \in 200 .. 504
    BY <1>6 DEF BodyStatus, Readable
  <2>2. /\ Send(r, BodyStatus[q.flaw]) /\ UNCHANGED auth
        /\ UNCHANGED <<idempotency, stopOnFinish>> /\ streams' = streams
    BY <1>6 DEF Serve
  <2> QED BY <1>4, <1>5, <2>1, <2>2
<1>7. CASE q.flaw = "none" /\ q.route \in {"version", "endpoint", "unknown"}
  <2>1. PICK status \in 200 .. 504 : Send(r, status)
    BY <1>7 DEF Serve
  <2>2. /\ UNCHANGED auth /\ UNCHANGED <<idempotency, stopOnFinish>>
        /\ streams' = streams
    BY <1>7 DEF Serve
  <2> QED BY <1>4, <1>5, <2>1, <2>2
<1>8. CASE q.flaw = "none" /\ q.route \in {"health", "doctor"}
  <2>1. /\ Send(r, 200) /\ SecurityFindings
        /\ UNCHANGED <<idempotency, stopOnFinish>> /\ streams' = streams
    BY <1>8 DEF Serve
  <2>2. AuthInv'
    BY <2>1, ReadFindings DEF IInv
  <2>3. PICK status \in 200 .. 504 : Send(r, status)
    BY <2>1
  <2> QED BY <1>5, <2>1, <2>2, <2>3
<1>9. CASE q.flaw = "none" /\ q.route = "status"
  <2>1. /\ Send(r, 200) /\ entries' = Prune(entries) /\ UNCHANGED auth
        /\ UNCHANGED <<accepted, stopOnFinish>> /\ streams' = streams
    BY <1>9 DEF Serve
  <2>2. Registry'
    BY <1>1, <2>1, PruneKeeps
  <2>3. Arranges(r, 200)
    BY <2>1, <2>2 DEF Arranges, Registry
  <2> QED BY <1>4, <2>1, <2>2, <2>3 DEF Registry
<1>10. CASE q.flaw = "none" /\ q.route = "events"
  <2>1. /\ EventsRoute(r) /\ UNCHANGED auth
        /\ UNCHANGED <<idempotency, stopOnFinish>>
    BY <1>10 DEF Serve
  <2>2. PICK status \in 200 .. 504 : Send(r, status)
    BY <2>1 DEF EventsRoute
  <2>3. streams' \subseteq streams \cup {r}
    BY <2>1 DEF EventsRoute
  <2> QED BY <1>4, <1>5, <2>1, <2>2, <2>3
<1>11. CASE q.flaw = "none" /\ q.route = "stop"
  <2>1. StopRoute(r, q) /\ UNCHANGED <<streams, auth>>
    BY <1>11 DEF Serve
  <2>2. ASSUME NEW status \in 200 .. 504, Send(r, status),
               UNCHANGED <<idempotency, stopOnFinish>>
        PROVE  /\ \E s \in 200 .. 504 : Send(r, s) /\ Arranges(r, s)
               /\ AuthInv' /\ RegistryInv' /\ ReplayStable'
    BY <1>4, <1>5, <2>1, <2>2
  <2>3. ASSUME Send(r, 202), AcceptStop(r, q.key)
        PROVE  /\ \E s \in 200 .. 504 : Send(r, s) /\ Arranges(r, s)
               /\ AuthInv' /\ RegistryInv' /\ ReplayStable'
    <3>1. PICK operation \in IF Lookup(q.key) = {} THEN {Len(accepted) + 1}
                             ELSE Lookup(q.key) :
             /\ Record(q.key, operation)
             /\ accepted' = Append(accepted, [request |-> r, key |-> q.key,
                                              operation |-> operation,
                                              at |-> clock])
             /\ stopOnFinish' = stopOnFinish \cup {r}
        BY <2>3 DEF AcceptStop
    <3> DEFINE a == [request |-> r, key |-> q.key, operation |-> operation,
                     at |-> clock]
    <3>2. Lookup(q.key) \subseteq Nat /\ Len(accepted) \in Nat
        BY <1>1, LenProperties DEF Lookup, Prune, Registry, Entry
    <3>3. a \in Acceptance
        BY <1>1, <1>2, <3>1, <3>2 DEF Acceptance, AnyKey, Query, Registry
    <3>4. Recording(a)
        BY <3>1 DEF Recording
    <3>5. Registry'
        BY <1>1, <3>3, <3>4, RecordingKeeps
    <3>6. Arranges(r, 202)
        BY <2>1, <3>1, <3>3, <3>5 DEF Arranges, Registry
    <3> QED BY <1>4, <2>1, <2>3, <3>5, <3>6 DEF Registry
  <2>4. \/ Send(r, 202) /\ AcceptStop(r, q.key)
        \/ \E status \in 200 .. 504 :
              Send(r, status) /\ UNCHANGED <<idempotency, stopOnFinish>>
    <3>1. 400 \in 200 .. 504 /\ 428 \in 200 .. 504 /\ 412 \in 200 .. 504
        OBVIOUS
    <3> QED BY <2>1, <3>1 DEF StopRoute
  <2> QED BY <2>2, <2>3, <2>4
<1> QED
  <2>1. q.route \in {"version", "endpoint", "health", "doctor", "status",
                     "events", "stop", "unknown"}
    BY <1>2 DEF Query
  <2> QED BY <1>6, <1>7, <1>8, <1>9, <1>10, <1>11, <2>1

\* A request goes on after its body, or finds that it is late.
LEMMA ResumeKeeps ==
    ASSUME IInv, NEW r \in Requests, Resume(r) PROVE IInv'
<1>1. Ends(r)
    BY DEF Resume, Ends
<1>2. CASE /\ Late(r)
           /\ UNCHANGED <<sent, idempotency, stopOnFinish, streams, auth>>
  <2>1. /\ slotOwned' = slotOwned \ {r} /\ IsFiniteSet(slotOwned')
        /\ activeRequests' = Cardinality(slotOwned')
        /\ activeRequests' \in Nat /\ activeRequests' <= activeRequests
    BY <1>1, Release DEF IInv, SlotInv, SlotsExact, Ends
  <2>2. TypeInv' /\ SlotInv'
    BY <1>1, <1>2, <2>1, Limits
    DEF IInv, TypeInv, SlotInv, SlotsExact, Ends, idempotency, stopping
  <2>3. RequestInv'
    <3>1. \A x \in Requests : run'[x] = "reading" => x # r /\ run[x] = "reading"
        BY <1>1 DEF IInv, TypeInv, Ends
    <3>2. \A x \in Requests : run'[x] = "idle" => run[x] = "idle"
        BY <1>1 DEF IInv, TypeInv, Ends
    <3>3. \A x \in Requests : run[x] = "over" => run'[x] = "over"
        BY <1>1 DEF IInv, TypeInv, Ends
    <3>4. IdleInv' /\ PendingInv'
        BY <1>1, <1>2, <3>1, <3>2, <3>3
        DEF IInv, TypeInv, RequestInv, IdleInv, PendingInv, Ends
    <3>5. StopInv' /\ AnsweredOnce'
        BY <1>1, <1>2
        DEF IInv, RequestInv, StopInv, AnsweredOnce, Ends, idempotency, stopping
    <3> QED BY <3>4, <3>5 DEF RequestInv
  <2>4. Registry' /\ AuthInv'
    BY <1>1, <1>2, PruneKeeps, ReadFindings
    DEF IInv, TypeInv, Registry, Ends, idempotency
  <2> QED BY <2>2, <2>3, <2>4 DEF IInv, Registry
<1>3. ASSUME NEW q \in ask[r], ~Late(r), Serve(r, q)
      PROVE  IInv'
  <2>1. q \in Readable /\ clock' = clock
    BY <1>1, <1>3 DEF IInv, TypeInv, Ends
  <2>2. PICK status \in 200 .. 504 : Send(r, status) /\ Arranges(r, status)
    BY <1>3, <2>1, ServeArranges
  <2>3. TypeInv' /\ SlotInv' /\ RequestInv'
    BY <1>1, <1>3, <2>2, Served DEF IInv, Late
  <2> QED BY <1>3, <2>1, <2>3, ServeArranges DEF IInv
<1> QED BY <1>2, <1>3 DEF Resume

\* Nothing happens to the registry while no handler goes on.
LEMMA RegistryWaits ==
    ASSUME IInv, UNCHANGED idempotency, clock' \in {clock, clock + 1}
    PROVE  RegistryInv' /\ ReplayStable'
<1>1. Registry
    BY DEF IInv, TypeInv, Registry
<1>2. Registry'
    BY <1>1, PruneKeeps DEF idempotency
<1> QED BY <1>2 DEF Registry

\* A request that arrives is answered at once or takes a slot.
LEMMA ArriveKeeps ==
    ASSUME IInv, NEW r \in Requests, NEW q \in Queries, Arrive(r, q)
    PROVE  IInv'
<1>1. /\ run[r] = "idle"
      /\ UNCHANGED <<wire, timedOut, stopOnFinish, streams, idempotency,
                     stopping, clock>>
    BY DEF Arrive
<1>2. RegistryInv' /\ ReplayStable'
    BY <1>1, RegistryWaits
<1>3. ASSUME NEW status \in 200 .. 504, NEW armed \in BOOLEAN,
             AnswerAtOnce(r, status, armed), AuthInv'
      PROVE  IInv'
    BY <1>1, <1>2, <1>3, AnsweredAtOnce DEF IInv
<1>4. ASSUME UNCHANGED auth
      PROVE  AuthInv'
    BY <1>1, <1>4, ReadFindings DEF IInv
<1>5. CASE q.flaw = "url" /\ AnswerAtOnce(r, 414, TRUE) /\ UNCHANGED auth
  <2>1. 414 \in 200 .. 504
    OBVIOUS
  <2> QED BY <1>3, <1>4, <1>5, <2>1
<1>6. CASE q.flaw # "url" /\ Busy /\ AnswerAtOnce(r, 503, TRUE)
           /\ UNCHANGED auth
  <2>1. 503 \in 200 .. 504
    OBVIOUS
  <2> QED BY ZenonT(60), <1>3, <1>4, <1>6, <2>1
<1>7. CASE /\ q.flaw \in DOMAIN TargetStatus /\ ~Busy
           /\ AnswerAtOnce(r, TargetStatus[q.flaw], FALSE) /\ UNCHANGED auth
  <2>1. TargetStatus[q.flaw] \in 200 .. 504
    BY <1>7 DEF TargetStatus
  <2> QED BY <1>3, <1>4, <1>7, <2>1
<1>8. CASE /\ q.flaw = "auth" /\ ~Busy /\ RefuseToken(q.remote)
           /\ AnswerAtOnce(r, IF FailureCount(q.remote) > AuthFailureCapacity
                              THEN 429 ELSE 401, FALSE)
  <2>1. PICK status \in 200 .. 504 : AnswerAtOnce(r, status, FALSE)
    <3>1. 429 \in 200 .. 504 /\ 401 \in 200 .. 504
        OBVIOUS
    <3> QED BY ZenonT(60), <1>8, <3>1
  <2>2. q.remote \in Remotes
    BY RequestsAssumption DEF Query
  <2>3. AuthInv'
    BY <1>1, <1>8, <2>2, Refusal DEF IInv
  <2> QED BY <1>3, <2>1, <2>3
<1>9. CASE /\ q.flaw \in {"none", "body", "size", "type"} /\ ~Busy
           /\ run' = [run EXCEPT ![r] = "reading"]
           /\ ask' = [ask EXCEPT ![r] = {q}]
           /\ slotOwned' = slotOwned \cup {r}
           /\ activeRequests' = activeRequests + 1
           /\ timer' = timer \cup {r} /\ UNCHANGED <<sent, auth>>
  <2>1. /\ sent[r] = <<>> /\ wire[r] = "open"
        /\ r \notin timedOut \cup streams \cup stopOnFinish \cup slotOwned
    BY <1>1 DEF IInv, RequestInv, IdleInv, SlotInv, SlotsExact
  <2>2. TypeInv'
    <3>1. q \in Readable
        BY <1>9 DEF Readable, BodyStatus
    <3>2. ask' \in [Requests -> SUBSET Readable]
        BY <1>9, <3>1 DEF IInv, TypeInv
    <3> QED BY <1>1, <1>9, <3>2 DEF IInv, TypeInv, idempotency, stopping
  <2>3. SlotInv'
    <3>1. /\ IsFiniteSet(slotOwned') /\ activeRequests' = Cardinality(slotOwned')
        BY <1>9, <2>1, FS_AddElement DEF IInv, SlotInv, SlotsExact
    <3>2. activeRequests' <= MaxConcurrentRequests
        BY <1>9, Limits DEF IInv, SlotInv, TypeInv, Busy
    <3>3. \A x \in slotOwned' : /\ run'[x] = "reading" /\ wire'[x] = "open"
                                /\ x \notin timedOut' \cup streams'
        BY <1>1, <1>9, <2>1 DEF IInv, SlotInv, SlotsExact, TypeInv
    <3> QED BY <3>1, <3>2, <3>3 DEF SlotInv, SlotsExact
  <2>4. RequestInv'
    <3>1. IdleInv' /\ PendingInv'
        BY <1>1, <1>9, <2>1
        DEF IInv, TypeInv, RequestInv, IdleInv, PendingInv
    <3>2. StopInv' /\ AnsweredOnce'
        BY <1>1, <1>9
        DEF IInv, RequestInv, StopInv, AnsweredOnce, idempotency, stopping
    <3> QED BY <3>1, <3>2 DEF RequestInv
  <2> QED BY <1>2, <1>4, <1>9, <2>2, <2>3, <2>4 DEF IInv
<1> QED BY <1>5, <1>6, <1>7, <1>8, <1>9 DEF Arrive

LEMMA InitInv == Init => IInv
<1> SUFFICES ASSUME Init PROVE IInv
    OBVIOUS
<1> USE Limits DEF Init
<1>0. IsFiniteSet({}) /\ Cardinality({}) = 0
    BY FS_EmptySet
<1>1. TypeInv
  <2>1. /\ ask \in [Requests -> SUBSET Readable]
        /\ run \in [Requests -> {"idle", "reading", "over"}]
        /\ wire \in [Requests -> {"open", "flushed", "closed"}]
    OBVIOUS
  <2>2. <<>> \in Seq(200 .. 504) /\ accepted \in Seq(Acceptance)
    BY EmptySeq
  <2>3. sent \in [Requests -> Seq(200 .. 504)]
    BY <2>2
  <2>4. clock \in 0 .. MaxTime
    OBVIOUS
  <2> QED BY <2>1, <2>2, <2>3, <2>4 DEF TypeInv
<1>2. SlotInv
    BY <1>0 DEF SlotInv, SlotsExact
<1>3. RequestInv
    BY OneResponse DEF RequestInv, IdleInv, PendingInv, StopInv, AnsweredOnce
<1>4. AuthInv
    BY EmptySeq DEF AuthInv, LimitReported
<1>5. RegistryInv /\ ReplayStable
    BY <1>0 DEF RegistryInv, OriginInv, ReplayStable
<1> QED BY <1>1, <1>2, <1>3, <1>4, <1>5 DEF IInv

\* The end of a connection, or of all of them, keeps the invariant.
LEMMA EndKeeps ==
    ASSUME IInv, (\E r \in Requests : Finish(r) \/ ClientGone(r))
                    \/ \E by \in {"route", "owner"} :
                          Stop(by) /\ (by = "route" => stopDue)
    PROVE  IInv'
<1>1. RegistryInv' /\ ReplayStable' /\ AuthInv'
    BY RegistryWaits, ReadFindings DEF Finish, ClientGone, Stop, IInv
<1>2. ASSUME NEW r \in Requests, Finish(r)
      PROVE  TypeInv' /\ SlotInv' /\ RequestInv'
  <2>1. /\ {r} \in SUBSET Requests /\ Closed({r}, "flushed")
        /\ \A x \in {r} : wire[x] = "open" /\ run[x] # "idle"
        /\ UNCHANGED <<ask, run, sent, timedOut, stopOnFinish, idempotency,
                       stopped, clock>>
    BY <1>2 DEF Finish, IInv, RequestInv, IdleInv
  <2>2. stopDue' \/ stopped' = "route" =>
           stopDue \/ stopped = "route" \/ \E x \in {r} : sent[x] = <<202>>
    BY <1>2, <2>1 DEF Finish, IInv, RequestInv, StopInv
  <2>3. stopDue' \in BOOLEAN /\ stopped' \in {"none", "route", "owner"}
    BY <1>2, <2>1 DEF Finish, IInv, TypeInv
  <2> QED BY <2>1, <2>2, <2>3, Closing DEF IInv
<1>3. ASSUME NEW r \in Requests, ClientGone(r)
      PROVE  TypeInv' /\ SlotInv' /\ RequestInv'
  <2>1. /\ {r} \in SUBSET Requests /\ Closed({r}, "closed")
        /\ \A x \in {r} : wire[x] = "open" /\ run[x] # "idle"
        /\ UNCHANGED <<ask, run, sent, timedOut, stopOnFinish, idempotency,
                       stopDue, stopped, clock>>
    BY <1>3 DEF ClientGone, stopping
  <2>2. stopDue' \in BOOLEAN /\ stopped' \in {"none", "route", "owner"}
    BY <2>1 DEF IInv, TypeInv
  <2> QED BY <2>1, <2>2, Closing DEF IInv
<1>4. ASSUME NEW by \in {"route", "owner"}, Stop(by), by = "route" => stopDue
      PROVE  TypeInv' /\ SlotInv' /\ RequestInv'
  <2> DEFINE R == {r \in Requests : wire[r] = "open" /\ run[r] # "idle"}
  <2>1. /\ R \in SUBSET Requests /\ Closed(R, "closed")
        /\ \A x \in R : wire[x] = "open" /\ run[x] # "idle"
        /\ UNCHANGED <<ask, run, sent, timedOut, stopOnFinish, idempotency,
                       stopDue, clock>>
    BY <1>4 DEF Stop
  <2>2. stopDue' \in BOOLEAN /\ stopped' \in {"none", "route", "owner"}
        /\ (stopDue' \/ stopped' = "route" => stopDue)
    BY <1>4, <2>1 DEF Stop, IInv, TypeInv
  <2> HIDE DEF R
  <2> QED BY <2>1, <2>2, Closing DEF IInv
<1> QED BY <1>1, <1>2, <1>3, <1>4 DEF IInv

LEMMA NextInv == IInv /\ [Next]_vars => IInv'
<1> SUFFICES ASSUME IInv, [Next]_vars PROVE IInv'
    OBVIOUS
<1>1. ASSUME NEW r \in Requests, NEW q \in Queries, Arrive(r, q)
      PROVE  IInv'
    BY <1>1, ArriveKeeps
<1>2. ASSUME NEW r \in Requests, Resume(r) PROVE IInv'
    BY <1>2, ResumeKeeps
<1>3. ASSUME NEW r \in Requests, Timeout(r) PROVE IInv'
  <2>1. TypeInv' /\ SlotInv' /\ RequestInv'
    BY <1>3, TimeoutKeeps DEF IInv
  <2>2. RegistryInv' /\ ReplayStable' /\ AuthInv'
    BY <1>3, RegistryWaits, ReadFindings DEF Timeout, IInv
  <2> QED BY <2>1, <2>2 DEF IInv
<1>4. CASE (\E r \in Requests : Finish(r) \/ ClientGone(r))
              \/ RequestStop \/ OwnerStop
    BY <1>4, EndKeeps DEF RequestStop, OwnerStop
<1>5. CASE Tick \/ UNCHANGED vars
  <2>1. /\ UNCHANGED <<perRequest, slots, streams, idempotency, auth, stopping>>
        /\ clock' \in {clock, clock + 1} /\ clock' \in 0 .. MaxTime
    BY <1>5, Limits DEF Tick, vars, IInv, TypeInv
  <2>2. RegistryInv' /\ ReplayStable' /\ AuthInv'
    BY <2>1, RegistryWaits, ReadFindings DEF IInv
  <2>3. TypeInv' /\ SlotInv' /\ RequestInv'
    BY ZenonT(60), <2>1 DEF IInv, TypeInv, SlotInv, SlotsExact, RequestInv, IdleInv,
                PendingInv, StopInv, AnsweredOnce, perRequest, slots,
                idempotency, stopping
  <2> QED BY <2>2, <2>3 DEF IInv
<1> QED BY <1>1, <1>2, <1>3, <1>4, <1>5 DEF Next, Proceed

LEMMA Invariance == Spec => []IInv
<1> QED BY InitInv, NextInv, PTL DEF Spec
-----------------------------------------------------------------------------
\* No more slots are taken, operations remembered or addresses watched than
\* there is room for, and the variables have their types.
THEOREM WithinLimits == Spec => []TypeOK
<1>1. IInv => TypeOK
    BY Limits DEF IInv, TypeInv, SlotInv, AuthInv, RegistryInv, TypeOK, Readable
<1> QED BY <1>1, Invariance, PTL

\* A slot is counted once, a request answered once, and a refusal for too
\* many failures reported.
THEOREM Accounting == Spec => []RequestsAccounted
<1>1. IInv => RequestsAccounted
    BY DEF IInv, SlotInv, RequestInv, AuthInv, RequestsAccounted
<1> QED BY <1>1, Invariance, PTL

\* The route stops the runtime after a client has the whole 202.
THEOREM StopsAfterAnswer == Spec => []StopAfterAnswer
<1>1. IInv => StopAfterAnswer
    BY DEF IInv, RequestInv, StopInv, StopAfterAnswer
<1> QED BY <1>1, Invariance, PTL

\* A key is given its operation again for as long as the registry promises.
THEOREM ReplaysStable == Spec => []ReplayStable
<1>1. IInv => ReplayStable
    BY DEF IInv
<1> QED BY <1>1, Invariance, PTL
=============================================================================
