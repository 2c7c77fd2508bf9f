------------------------- MODULE EventStreamProofs -------------------------
(***************************************************************************)
(* The event stream repeats nothing, and loses nothing silently but for    *)
(* what a consumer passes over by resuming with a runtime that has yet to  *)
(* publish its first notification, for any number of clients, any          *)
(* capacities and any number of lost connections and restarts.             *)
(***************************************************************************)
EXTENDS EventStream, FiniteSetTheorems, SequenceTheorems, TLAPS

\* The types the proof needs.
TypeInv ==
    /\ published \in Nat /\ published <= MaxPublished
    /\ retained \in Seq(Nat) /\ lingering \in Nat /\ drops \in 0 .. MaxDrops
    /\ conn \in [Clients -> {"none", "open", "ended"}]
    /\ buffered \in [Clients -> 0 .. SseMaxBuffered]
    /\ pipe \in [Clients -> Seq(Int)]
    /\ cursor \in [Clients -> Nat]
    /\ covered \in [Clients -> SUBSET Nat] /\ missed \in [Clients -> SUBSET Nat]

\* What is retained is the last notifications, all of them in a row.  A runtime
\* that has yet to publish retains none.
RetainedInv ==
    /\ Len(retained) \in 0 .. SseRetentionCapacity
    /\ \A i \in DOMAIN retained :
          retained[i] = published - Len(retained) + i

\* The connections counted against the capacity: those of the clients, and
\* those the server has not yet seen closed.
CapacityInv ==
    /\ IsFiniteSet(Open)
    /\ Cardinality(Open) + lingering <= SseConnectionCapacity

\* Nothing is on its way, or known, before it is published; a client resumes
\* after a notification whose news it has.
BoundInv ==
    \A c \in Clients :
        /\ \A i \in DOMAIN pipe[c] : pipe[c][i] \in Heartbeat .. published
        /\ Known(c) \subseteq 1 .. published
        /\ cursor[c] # 0 => cursor[c] \in covered[c]

\* The news of n reaches the client with what it has or with one of the first
\* k frames of its pipe.
Under(c, n, k) ==
    \/ n \in Known(c)
    \/ \E j \in 1 .. k : pipe[c][j] = n \/ pipe[c][j] = Gap

\* What precedes a notification in the pipe tells of every earlier one, and
\* an open stream is told of all there are.
ContinuedInv ==
    \A c \in Clients :
        /\ \A i \in DOMAIN pipe[c] : \A n \in 1 .. pipe[c][i] - 1 :
              Under(c, n, i - 1)
        /\ conn[c] = "open" =>
              \A n \in 1 .. published : Under(c, n, Len(pipe[c]))

IInv == /\ TypeInv /\ RetainedInv /\ CapacityInv /\ BoundInv /\ ContinuedInv
        /\ NoSilentLoss /\ FramesInOrder
-----------------------------------------------------------------------------
(* Sequences of frames.                                                    *)

LEMMA Limits ==
    /\ SseConnectionCapacity \in Nat \ {0} /\ SseRetentionCapacity \in Nat \ {0}
    /\ SseMaxBuffered \in Nat \ {0} /\ MaxPublished \in Nat \ {0}
    /\ MaxDrops \in Nat
    BY StreamAssumption

LEMMA Frames ==
    ASSUME NEW s \in Seq(Int)
    PROVE  Len(s) \in Nat /\ DOMAIN s = 1 .. Len(s) /\ \A i \in 1 .. Len(s) : s[i] \in Int
    OBVIOUS

LEMMA NoFrames == <<>> \in Seq(Int) /\ Len(<<>>) = 0 /\ DOMAIN <<>> = {}
    BY EmptySeq

LEMMA OneMore ==
    ASSUME NEW s \in Seq(Int), NEW frame \in Int
    PROVE  LET t == Append(s, frame) IN
           /\ t \in Seq(Int) /\ Len(t) = Len(s) + 1 /\ DOMAIN t = 1 .. Len(s) + 1
           /\ \A i \in 1 .. Len(s) : t[i] = s[i]
           /\ t[Len(s) + 1] = frame
    BY AppendProperties

\* What WriteFrame leaves of a connection: the frame at the end of its pipe,
\* or the stream ended.
LEMMA Written ==
    ASSUME TypeInv, NEW C \in SUBSET Clients, NEW frame \in Int,
           WriteFrame(C, frame)
    PROVE  /\ conn' \in [Clients -> {"none", "open", "ended"}]
           /\ buffered' \in [Clients -> 0 .. SseMaxBuffered]
           /\ pipe' \in [Clients -> Seq(Int)]
           /\ Open' \subseteq Open
           /\ \A c \in Clients :
                 \/ /\ c \in C /\ pipe'[c] = Append(pipe[c], frame)
                    /\ conn'[c] = conn[c]
                 \/ /\ pipe'[c] = pipe[c]
                    /\ conn'[c] = "ended" \/ (conn'[c] = conn[c] /\ c \notin C)
<1> DEFINE fits == {c \in C : buffered[c] < SseMaxBuffered}
<1>1. /\ pipe' = [c \in Clients |-> IF c \in fits THEN Append(pipe[c], frame)
                                    ELSE pipe[c]]
      /\ buffered' = [c \in Clients |-> IF c \in fits THEN buffered[c] + 1
                                        ELSE buffered[c]]
      /\ conn' = [c \in Clients |-> IF c \in C \ fits THEN "ended"
                                    ELSE conn[c]]
    BY DEF WriteFrame
<1>2. conn' \in [Clients -> {"none", "open", "ended"}]
    BY <1>1 DEF TypeInv
<1>3. buffered' \in [Clients -> 0 .. SseMaxBuffered]
    BY <1>1, Limits DEF TypeInv
<1>4. \A c \in Clients : pipe[c] \in Seq(Int) /\ Append(pipe[c], frame) \in Seq(Int)
    BY OneMore DEF TypeInv
<1>5. pipe' \in [Clients -> Seq(Int)]
    BY <1>1, <1>4
<1>6. Open' \subseteq Open
    BY <1>1 DEF Open, TypeInv
<1>7. ASSUME NEW c \in Clients
      PROVE  \/ /\ c \in C /\ pipe'[c] = Append(pipe[c], frame)
                /\ conn'[c] = conn[c]
             \/ /\ pipe'[c] = pipe[c]
                /\ conn'[c] = "ended" \/ (conn'[c] = conn[c] /\ c \notin C)
  <2> HIDE DEF fits
  <2>1. CASE c \in fits
    <3>1. c \in C
        BY <2>1 DEF fits
    <3> QED BY <1>1, <2>1, <3>1
  <2>2. CASE c \notin fits
    BY <1>1, <2>2
  <2> QED BY <2>1, <2>2
<1> QED BY <1>2, <1>3, <1>5, <1>6, <1>7

\* Streams that only end keep within the capacity.
LEMMA FewerStreams ==
    ASSUME CapacityInv, Open' \subseteq Open, lingering \in Nat,
           lingering' \in Nat, lingering' <= lingering
    PROVE  CapacityInv'
<1>1. /\ IsFiniteSet(Open') /\ Cardinality(Open') <= Cardinality(Open)
      /\ Cardinality(Open') \in Nat /\ Cardinality(Open) \in Nat
    BY FS_Subset, FS_CardinalityType DEF CapacityInv
<1> QED BY <1>1, Limits DEF CapacityInv

\* More news, and the same frames, tell of as much.
LEMMA StillUnder ==
    ASSUME NEW c, NEW n, NEW k \in Int, Under(c, n, k),
           Known(c) \subseteq Known(c)',
           \A j \in 1 .. k : pipe'[c][j] = pipe[c][j]
    PROVE  Under(c, n, k)'
    BY DEF Under

LEMMA UnderMore ==
    ASSUME NEW c, NEW n, NEW k \in Int, NEW m \in Int, k <= m, Under(c, n, k)'
    PROVE  Under(c, n, m)'
    BY DEF Under
-----------------------------------------------------------------------------
(* The steps of the server.                                                *)

\* A frame written to the connections C of open streams.  A notification is
\* written to all of them, when it is published.
LEMMA WriteKeeps ==
    ASSUME IInv, NEW C \in SUBSET Open, NEW frame \in Int,
           WriteFrame(C, frame), UNCHANGED <<cursor, covered, missed>>,
           \/ frame = Heartbeat /\ published' = published
           \/ frame = published + 1 /\ published' = published + 1 /\ C = Open
    PROVE  BoundInv' /\ ContinuedInv' /\ NoSilentLoss' /\ FramesInOrder'
<1>1. C \in SUBSET Clients
    BY DEF Open
<1>2. /\ published \in Nat /\ published' \in Nat
      /\ published <= published' /\ frame <= published'
      /\ Heartbeat <= frame /\ Heartbeat = -1
    BY DEF IInv, TypeInv, Heartbeat
<1>3. ASSUME NEW c \in Clients
      PROVE  /\ pipe[c] \in Seq(Int) /\ Len(pipe[c]) \in Nat
             /\ DOMAIN pipe[c] = 1 .. Len(pipe[c])
             /\ \A i \in 1 .. Len(pipe[c]) : pipe[c][i] \in Int
             /\ cursor[c] \in Nat /\ cursor[c] <= published
    BY <1>2, Frames DEF IInv, TypeInv, BoundInv, Known
<1>4. ASSUME NEW c \in Clients, c \in C, pipe'[c] = Append(pipe[c], frame)
      PROVE  /\ DOMAIN pipe'[c] = 1 .. Len(pipe[c]) + 1
             /\ Len(pipe'[c]) = Len(pipe[c]) + 1
             /\ \A i \in 1 .. Len(pipe[c]) : pipe'[c][i] = pipe[c][i]
             /\ pipe'[c][Len(pipe[c]) + 1] = frame
             /\ conn[c] = "open"
    BY <1>3, <1>4, OneMore DEF Open
<1>5. ASSUME NEW c \in Clients
      PROVE  \/ c \in C /\ pipe'[c] = Append(pipe[c], frame) /\ conn'[c] = conn[c]
             \/ /\ pipe'[c] = pipe[c]
                /\ conn'[c] = "ended" \/ (conn'[c] = conn[c] /\ c \notin C)
    BY <1>1, Written DEF IInv
<1>6. BoundInv'
  <2>1. SUFFICES ASSUME NEW c \in Clients
                 PROVE  /\ \A i \in DOMAIN pipe'[c] :
                              pipe'[c][i] \in Heartbeat .. published'
                        /\ Known(c)' \subseteq 1 .. published'
                        /\ cursor'[c] # 0 => cursor'[c] \in covered'[c]
    BY DEF BoundInv, Heartbeat
  <2>2. /\ Known(c)' \subseteq 1 .. published'
        /\ cursor'[c] # 0 => cursor'[c] \in covered'[c]
    BY <1>2 DEF IInv, BoundInv, Known
  <2>3. \A i \in DOMAIN pipe[c] : pipe[c][i] \in Heartbeat .. published'
    BY <1>2, <1>3 DEF IInv, BoundInv
  <2>4. CASE c \in C /\ pipe'[c] = Append(pipe[c], frame)
    <3>1. SUFFICES ASSUME NEW i \in DOMAIN pipe'[c]
                   PROVE  pipe'[c][i] \in Heartbeat .. published'
        BY <2>2
    <3>2. CASE i \in 1 .. Len(pipe[c])
        BY <1>3, <1>4, <2>3, <2>4, <3>2
    <3>3. CASE i = Len(pipe[c]) + 1
        BY <1>2, <1>4, <2>4, <3>3
    <3> QED BY <1>3, <1>4, <2>4, <3>2, <3>3
  <2> QED BY <1>5, <2>2, <2>3, <2>4
<1>7. ContinuedInv'
  <2>1. SUFFICES ASSUME NEW c \in Clients
                 PROVE  /\ \A i \in DOMAIN pipe'[c] :
                              \A n \in 1 .. pipe'[c][i] - 1 : Under(c, n, i - 1)'
                        /\ conn'[c] = "open" =>
                              \A n \in 1 .. published' :
                                 Under(c, n, Len(pipe[c]))'
    BY Zenon DEF ContinuedInv
  <2>2. /\ \A i \in 1 .. Len(pipe[c]) : \A n \in 1 .. pipe[c][i] - 1 :
              Under(c, n, i - 1)
        /\ conn[c] = "open" =>
              \A n \in 1 .. published : Under(c, n, Len(pipe[c]))
    BY <1>3 DEF IInv, ContinuedInv
  <2>3. Known(c)' = Known(c)
    BY DEF Known
  <2>4. CASE c \in C /\ pipe'[c] = Append(pipe[c], frame) /\ conn'[c] = conn[c]
    <3>0. PICK L \in Nat : L = Len(pipe[c])
        BY <1>3
    <3>1. /\ L \in Nat /\ DOMAIN pipe'[c] = 1 .. L + 1 /\ Len(pipe'[c]) = L + 1
          /\ \A i \in 1 .. L : pipe'[c][i] = pipe[c][i]
          /\ pipe'[c][L + 1] = frame /\ conn[c] = "open"
        BY <1>3, <1>4, <2>4, <3>0
    <3>2. \A k \in 0 .. L : \A n \in Int : Under(c, n, k) => Under(c, n, k)'
        BY <2>3, <3>1, StillUnder
    <3>3. \A n \in 1 .. published : Under(c, n, L)'
        BY <2>2, <3>0, <3>1, <3>2
    <3>4. ASSUME NEW i \in 1 .. L + 1, NEW n \in 1 .. pipe'[c][i] - 1
          PROVE  Under(c, n, i - 1)'
      <4>1. CASE i <= L
        <5>1. pipe'[c][i] = pipe[c][i] /\ Under(c, n, i - 1)
            BY <2>2, <3>0, <3>1, <3>4, <4>1
        <5> QED BY <3>1, <3>2, <4>1, <5>1
      <4>2. CASE i = L + 1
        BY <1>2, <3>1, <3>3, <3>4, <4>2
      <4> QED BY <3>1, <4>1, <4>2
    <3>5. ASSUME NEW n \in 1 .. published'
          PROVE  Under(c, n, Len(pipe[c]))'
      <4>1. CASE n \in 1 .. published
        BY <3>1, <3>3, <4>1, UnderMore
      <4>2. CASE n = frame
        BY <3>1, <4>2 DEF Under
      <4> QED BY <1>2, <4>1, <4>2
    <3> QED BY <3>1, <3>4, <3>5
  <2>5. CASE /\ pipe'[c] = pipe[c]
             /\ conn'[c] = "ended" \/ (conn'[c] = conn[c] /\ c \notin C)
    <3>1. \A k \in 0 .. Len(pipe[c]) : \A n \in Int : Under(c, n, k) => Under(c, n, k)'
        BY <2>3, <2>5, StillUnder
    <3>2. conn'[c] = "open" => conn[c] = "open" /\ published' = published
        BY <1>2, <2>5 DEF Open
    <3>3. ASSUME NEW i \in DOMAIN pipe'[c], NEW n \in 1 .. pipe'[c][i] - 1
          PROVE  Under(c, n, i - 1)'
      <4>1. i \in 1 .. Len(pipe[c]) /\ n \in 1 .. pipe[c][i] - 1
        BY <1>3, <2>5, <3>3
      <4>2. i - 1 \in 0 .. Len(pipe[c]) /\ n \in Int
        BY <1>3, <4>1
      <4>3. Under(c, n, i - 1)
        BY <2>2, <4>1
      <4> QED BY <3>1, <4>2, <4>3
    <3>4. ASSUME conn'[c] = "open", NEW n \in 1 .. published'
          PROVE  Under(c, n, Len(pipe[c]))'
        BY <1>3, <2>2, <2>5, <3>1, <3>2, <3>4
    <3> QED BY <3>3, <3>4
  <2> QED BY <1>5, <2>4, <2>5
<1>8. FramesInOrder'
  <2>1. SUFFICES ASSUME NEW c \in Clients, NEW i \in DOMAIN pipe'[c],
                        pipe'[c][i] > 0
                 PROVE  /\ cursor[c] < pipe'[c][i]
                        /\ \A j \in 1 .. i - 1 : pipe'[c][j] < pipe'[c][i]
    BY DEF FramesInOrder
  <2>2. \A k \in 1 .. Len(pipe[c]) :
           /\ pipe[c][k] <= published
           /\ pipe[c][k] > 0 =>
                 /\ cursor[c] < pipe[c][k]
                 /\ \A j \in 1 .. k - 1 : pipe[c][j] < pipe[c][k]
    BY <1>3 DEF IInv, FramesInOrder, BoundInv
  <2>3. CASE c \in C /\ pipe'[c] = Append(pipe[c], frame)
    <3>1. CASE i \in 1 .. Len(pipe[c])
        BY <1>3, <1>4, <2>1, <2>2, <2>3, <3>1
    <3>2. CASE i = Len(pipe[c]) + 1
      <4>1. pipe'[c][i] = published + 1
        BY <1>2, <1>4, <2>1, <2>3, <3>2
      <4> QED BY SMTT(40), <1>2, <1>3, <1>4, <2>2, <2>3, <3>2, <4>1
    <3> QED BY <1>3, <1>4, <2>3, <3>1, <3>2
  <2>4. CASE pipe'[c] = pipe[c]
    BY <1>3, <2>1, <2>2, <2>4
  <2> QED BY <1>5, <2>3, <2>4
<1>9. NoSilentLoss'
    BY DEF IInv, NoSilentLoss, Known
<1> QED BY <1>6, <1>7, <1>8, <1>9

LEMMA PublishKeeps ==
    ASSUME IInv, Publish PROVE IInv'
<1>1. /\ published \in Nat /\ published' = published + 1
      /\ published' <= MaxPublished
      /\ retained \in Seq(Nat) /\ Len(retained) \in Nat
      /\ Len(retained) <= SseRetentionCapacity
      /\ WriteFrame(Open, published + 1) /\ Open \in SUBSET Clients
      /\ UNCHANGED <<lingering, cursor, covered, missed, drops>>
    BY Limits DEF Publish, IInv, TypeInv, RetainedInv, Open
<1>2. /\ conn' \in [Clients -> {"none", "open", "ended"}]
      /\ buffered' \in [Clients -> 0 .. SseMaxBuffered]
      /\ pipe' \in [Clients -> Seq(Int)] /\ Open' \subseteq Open
  <2>1. published + 1 \in Int
    BY <1>1
  <2> QED BY <1>1, <2>1, Written DEF IInv
<1> DEFINE longer == Append(retained, published + 1)
<1>3. /\ longer \in Seq(Nat) /\ Len(longer) = Len(retained) + 1
      /\ \A i \in 1 .. Len(retained) + 1 :
            longer[i] = published' - (Len(retained) + 1) + i
  <2>1. /\ longer \in Seq(Nat) /\ Len(longer) = Len(retained) + 1
        /\ \A i \in 1 .. Len(retained) : longer[i] = retained[i]
        /\ longer[Len(retained) + 1] = published + 1
    BY <1>1, AppendProperties
  <2>2. \A i \in 1 .. Len(retained) :
           retained[i] = published - Len(retained) + i
    BY <1>1 DEF IInv, RetainedInv
  <2> HIDE DEF longer
  <2>3. \A i \in 1 .. Len(retained) + 1 :
           longer[i] = published' - (Len(retained) + 1) + i
    <3> TAKE i \in 1 .. Len(retained) + 1
    <3>1. CASE i \in 1 .. Len(retained)
        BY <1>1, <2>1, <2>2, <3>1
    <3>2. CASE i = Len(retained) + 1
        BY <1>1, <2>1, <3>2
    <3> QED BY <1>1, <3>1, <3>2
  <2> QED BY <2>1, <2>3
<1>4. PICK first \in {1, 2} :
         /\ retained' = SubSeq(longer, first, Len(longer))
         /\ first = 1 => Len(longer) <= SseRetentionCapacity
         /\ first = 2 => Len(longer) = SseRetentionCapacity + 1
  <2> DEFINE over == Len(longer) > SseRetentionCapacity
  <2>1. retained' = SubSeq(longer, IF over
                              THEN Len(longer) - SseRetentionCapacity + 1
                              ELSE 1, Len(longer))
    BY DEF Publish, Retain
  <2> HIDE DEF longer
  <2>2. Len(longer) \in Nat /\ Len(longer) <= SseRetentionCapacity + 1
    <3>1. Len(longer) = Len(retained) + 1
        BY <1>3
    <3> QED BY <1>1, <3>1, Limits
  <2>3. CASE over
    <3>1. Len(longer) = SseRetentionCapacity + 1
        BY <2>2, <2>3, Limits
    <3>2. Len(longer) - SseRetentionCapacity + 1 = 2
        BY <3>1, Limits
    <3> QED BY <2>1, <2>3, <3>1, <3>2
  <2>4. CASE ~over
    BY <2>1, <2>2, <2>4, Limits
  <2> QED BY <2>3, <2>4
<1>5. retained' \in Seq(Nat) /\ RetainedInv'
  <2> HIDE DEF longer
  <2>1. \A i \in first .. Len(longer) : longer[i] \in Nat
    BY <1>1, <1>3
  <2>2. /\ retained' \in Seq(Nat) /\ Len(retained') = Len(longer) - first + 1
        /\ \A i \in 1 .. Len(longer) - first + 1 :
              retained'[i] = longer[first + i - 1]
    BY <1>1, <1>3, <1>4, <2>1, SubSeqProperties
  <2>3. Len(retained') \in 1 .. SseRetentionCapacity
    <3>1. CASE first = 1
        BY <1>1, <1>3, <1>4, <2>2, <3>1, Limits
    <3>2. CASE first = 2
        BY <1>1, <1>3, <1>4, <2>2, <3>2, Limits
    <3> QED BY <3>1, <3>2
  <2>4. \A i \in DOMAIN retained' :
           retained'[i] = published' - Len(retained') + i
    <3>1. DOMAIN retained' = 1 .. Len(retained')
        BY <2>2
    <3>2. SUFFICES ASSUME NEW i \in 1 .. Len(retained')
                   PROVE  retained'[i] = published' - Len(retained') + i
        BY <3>1
    <3>3. /\ first + i - 1 \in 1 .. Len(retained) + 1
          /\ retained'[i] = longer[first + i - 1]
        BY <1>1, <1>3, <2>2
    <3>4. retained'[i] = published' - (Len(retained) + 1) + (first + i - 1)
        BY <1>3, <3>3
    <3> QED BY <1>1, <1>3, <2>2, <3>4
  <2> QED BY <2>2, <2>3, <2>4 DEF RetainedInv
<1>6. TypeInv'
    BY <1>1, <1>2, <1>5 DEF IInv, TypeInv
<1>7. CapacityInv'
    BY <1>1, <1>2, FewerStreams DEF IInv, TypeInv
<1>8. BoundInv' /\ ContinuedInv' /\ NoSilentLoss' /\ FramesInOrder'
    BY <1>1, WriteKeeps
<1> QED BY <1>5, <1>6, <1>7, <1>8 DEF IInv

LEMMA BeatKeeps ==
    ASSUME IInv, NEW c \in Clients, Beat(c) PROVE IInv'
<1>1. /\ {c} \in SUBSET Open /\ {c} \in SUBSET Clients
      /\ WriteFrame({c}, Heartbeat) /\ Heartbeat \in Int
      /\ UNCHANGED <<published, retained, lingering, cursor, covered, missed, drops>>
    BY DEF Beat, Open, Heartbeat
<1>2. /\ conn' \in [Clients -> {"none", "open", "ended"}]
      /\ buffered' \in [Clients -> 0 .. SseMaxBuffered]
      /\ pipe' \in [Clients -> Seq(Int)] /\ Open' \subseteq Open
    BY <1>1, Written DEF IInv
<1>3. TypeInv' /\ RetainedInv'
    BY <1>1, <1>2 DEF IInv, TypeInv, RetainedInv
<1>4. CapacityInv'
    BY <1>1, <1>2, FewerStreams DEF IInv, TypeInv
<1>5. BoundInv' /\ ContinuedInv' /\ NoSilentLoss' /\ FramesInOrder'
    BY <1>1, WriteKeeps
<1> QED BY <1>3, <1>4, <1>5 DEF IInv

\* What the invariant says of one client.
Sound(c) ==
    /\ \A i \in DOMAIN pipe[c] : pipe[c][i] \in Heartbeat .. published
    /\ Known(c) \subseteq 1 .. published
    /\ cursor[c] # 0 => cursor[c] \in covered[c]
    /\ \A i \in DOMAIN pipe[c] : \A n \in 1 .. pipe[c][i] - 1 :
          Under(c, n, i - 1)
    /\ conn[c] = "open" => \A n \in 1 .. published : Under(c, n, Len(pipe[c]))
    /\ \A n \in covered[c] : 1 .. n \subseteq Known(c)
    /\ \A i \in DOMAIN pipe[c] : pipe[c][i] > 0 =>
          /\ cursor[c] < pipe[c][i]
          /\ \A j \in 1 .. i - 1 : pipe[c][j] < pipe[c][i]

LEMMA AllSound ==
    (\A c \in Clients : Sound(c)') =>
        BoundInv' /\ ContinuedInv' /\ NoSilentLoss' /\ FramesInOrder'
<1> SUFFICES ASSUME \A c \in Clients : Sound(c)'
             PROVE  BoundInv' /\ ContinuedInv' /\ NoSilentLoss' /\ FramesInOrder'
    OBVIOUS
<1>1. BoundInv'
    BY DEF Sound, BoundInv
<1>2. ContinuedInv'
    BY DEF Sound, ContinuedInv
<1>3. NoSilentLoss'
    BY DEF Sound, NoSilentLoss
<1>4. FramesInOrder'
    BY DEF Sound, FramesInOrder
<1> QED BY <1>1, <1>2, <1>3, <1>4

LEMMA EachSound ==
    ASSUME IInv, NEW c \in Clients PROVE Sound(c)
<1>1. /\ \A i \in DOMAIN pipe[c] : \A n \in 1 .. pipe[c][i] - 1 :
            Under(c, n, i - 1)
      /\ conn[c] = "open" =>
            \A n \in 1 .. published : Under(c, n, Len(pipe[c]))
    BY DEF IInv, ContinuedInv
<1>2. \A n \in covered[c] : 1 .. n \subseteq Known(c)
    BY DEF IInv, NoSilentLoss
<1>3. \A i \in DOMAIN pipe[c] : pipe[c][i] > 0 =>
          /\ cursor[c] < pipe[c][i]
          /\ \A j \in 1 .. i - 1 : pipe[c][j] < pipe[c][i]
    BY DEF IInv, FramesInOrder
<1> QED BY <1>1, <1>2, <1>3 DEF IInv, BoundInv, Sound

\* A client nothing happens to.
LEMMA Untouched ==
    ASSUME IInv, NEW c \in Clients, published' = published,
           pipe'[c] = pipe[c], conn'[c] = conn[c],
           cursor'[c] = cursor[c], covered'[c] = covered[c],
           missed'[c] = missed[c]
    PROVE  Sound(c)'
<1>1. Sound(c)
    BY EachSound
<1>2. Known(c)' = Known(c) /\ \A n, k : Under(c, n, k)' <=> Under(c, n, k)
    BY DEF Under, Known
<1> QED BY <1>1, <1>2 DEF Sound

\* A connection that is gone, with its frames, leaves what the client has.
LEMMA Gone ==
    ASSUME IInv, NEW c \in Clients, published' \in Nat,
           published <= published', pipe'[c] = <<>>, conn'[c] = "none",
           cursor'[c] = cursor[c], covered'[c] = covered[c],
           missed'[c] = missed[c]
    PROVE  Sound(c)'
<1>1. Sound(c) /\ published \in Nat
    BY EachSound DEF IInv, TypeInv
<1>2. DOMAIN pipe'[c] = {} /\ conn'[c] # "open"
    BY NoFrames
<1>3. Known(c)' = Known(c) /\ Known(c)' \subseteq 1 .. published'
    BY <1>1 DEF Sound, Known
<1> QED BY <1>1, <1>2, <1>3 DEF Sound

LEMMA RestartKeeps ==
    ASSUME IInv, Restart PROVE IInv'
<1>1. /\ published \in Nat /\ published' = published
      /\ drops' \in 0 .. MaxDrops
      /\ retained' = <<>> /\ lingering' = 0
    BY Limits DEF Restart, IInv, TypeInv
<1>2. /\ conn' = [c \in Clients |-> "none"]
      /\ buffered' = [c \in Clients |-> 0]
      /\ pipe' = [c \in Clients |-> <<>>]
      /\ UNCHANGED <<cursor, covered, missed>>
    BY DEF Restart
<1>3. /\ conn' \in [Clients -> {"none", "open", "ended"}]
      /\ buffered' \in [Clients -> 0 .. SseMaxBuffered]
      /\ pipe' \in [Clients -> Seq(Int)]
    BY <1>2, NoFrames, Limits
<1>4. retained' \in Seq(Nat) /\ RetainedInv'
    BY <1>1, Limits, EmptySeq DEF RetainedInv
<1>5. TypeInv'
    BY <1>1, <1>2, <1>3, <1>4 DEF IInv, TypeInv
<1>6. CapacityInv'
  <2>1. Open' = {}
    BY <1>2 DEF Open
  <2> QED BY <1>1, <2>1, FS_EmptySet, Limits DEF CapacityInv
<1>7. \A c \in Clients : Sound(c)'
    BY <1>1, <1>2, Gone
<1> QED BY <1>4, <1>5, <1>6, <1>7, AllSound DEF IInv

\* The replay is a gap, or every notification after the last.
LEMMA Replayed ==
    ASSUME IInv, NEW last \in Nat, NEW frames \in Replay(last)
    PROVE  \/ frames = <<Gap>>
           \/ /\ frames \in Seq(Int) /\ last <= published
              /\ Len(frames) = published - last
              /\ \A k \in 1 .. Len(frames) : frames[k] = last + k
<1> DEFINE at == {i \in DOMAIN retained : retained[i] = last}
<1>1. /\ published \in Nat /\ retained \in Seq(Nat) /\ Len(retained) \in Nat
      /\ DOMAIN retained = 1 .. Len(retained)
      /\ \A i \in 1 .. Len(retained) :
            retained[i] \in Int /\ retained[i] = published - Len(retained) + i
    BY DEF IInv, TypeInv, RetainedInv
<1>2. CASE at = {}
    BY <1>2 DEF Replay
<1>3. CASE at # {}
  <2>1. PICK i \in at : frames = SubSeq(retained, i + 1, Len(retained))
    BY <1>3 DEF Replay
  <2>2. i \in 1 .. Len(retained) /\ last = published - Len(retained) + i
    BY <1>1, <2>1
  <2>3. \A k \in i + 1 .. Len(retained) : retained[k] \in Int
    BY <1>1, <2>2
  <2>4. i + 1 \in Int /\ Len(retained) \in Int
    BY <1>1, <2>2
  <2>5. /\ frames \in Seq(Int)
        /\ Len(frames) = IF i + 1 <= Len(retained)
                         THEN Len(retained) - (i + 1) + 1 ELSE 0
        /\ \A k \in 1 .. Len(retained) - (i + 1) + 1 :
              frames[k] = retained[i + 1 + k - 1]
    BY <2>1, <2>3, <2>4, SubSeqProperties
  <2>6. Len(frames) = published - last /\ last <= published
    <3>1. Len(frames) = Len(retained) - i
      <4>1. Len(frames) = IF i + 1 <= Len(retained)
                          THEN Len(retained) - (i + 1) + 1 ELSE 0
        BY <2>5
      <4>2. Len(retained) \in Nat /\ i \in Nat /\ i <= Len(retained)
        BY <1>1, <2>2
      <4>3. CASE i = Len(retained)
        BY <4>1, <4>2, <4>3
      <4>4. CASE i < Len(retained)
        BY <4>1, <4>2, <4>4
      <4> QED BY <4>2, <4>3, <4>4
    <3> QED BY <1>1, <2>2, <3>1
  <2>7. ASSUME NEW k \in 1 .. Len(frames)
        PROVE  frames[k] = last + k
    <3>1. /\ k \in 1 .. Len(retained) - (i + 1) + 1
          /\ i + k \in 1 .. Len(retained) /\ i + 1 + k - 1 = i + k
      <4>1. Len(retained) \in Nat /\ i \in 1 .. Len(retained)
        BY <1>1, <2>2
      <4>2. k \in 1 .. Len(retained) - i
        BY <1>1, <2>2, <2>6
      <4> QED BY <4>1, <4>2
    <3>2. frames[k] = retained[i + k]
        BY <2>5, <3>1
    <3> QED BY <1>1, <2>2, <3>1, <3>2
  <2> QED BY <2>5, <2>6, <2>7
<1> QED BY <1>2, <1>3

LEMMA ConnectKeeps ==
    ASSUME IInv, NEW c \in Clients, Connect(c) PROVE IInv'
<1>1. /\ published \in Nat /\ cursor[c] \in Nat /\ c \notin Open
      /\ conn[c] = "none" /\ Cardinality(Open) + lingering < SseConnectionCapacity
      /\ UNCHANGED <<published, retained, lingering, cursor, drops>>
      /\ covered' = [covered EXCEPT ![c] = IF cursor[c] = 0 THEN 1 .. published
                                           ELSE @]
      /\ missed' = [missed EXCEPT ![c] =
                      IF cursor[c] # 0 /\ retained = <<>>
                      THEN @ \cup ((1 .. published) \ covered[c]) ELSE @]
    BY DEF Connect, Open, IInv, TypeInv
<1>2. PICK frames \in IF cursor[c] = 0 \/ retained = <<>> THEN {<<>>}
                      ELSE Replay(cursor[c]) :
         \E count \in {IF Len(frames) > SseMaxBuffered THEN SseMaxBuffered
                       ELSE Len(frames)} :
            /\ pipe' = [pipe EXCEPT ![c] = SubSeq(frames, 1, count)]
            /\ buffered' = [buffered EXCEPT ![c] = count]
            /\ conn' = [conn EXCEPT ![c] = IF count < Len(frames)
                                           THEN "ended" ELSE "open"]
    BY DEF Connect
<1>3. PICK count : /\ count = IF Len(frames) > SseMaxBuffered
                              THEN SseMaxBuffered ELSE Len(frames)
                   /\ pipe' = [pipe EXCEPT ![c] = SubSeq(frames, 1, count)]
                   /\ buffered' = [buffered EXCEPT ![c] = count]
                   /\ conn' = [conn EXCEPT ![c] = IF count < Len(frames)
                                                  THEN "ended" ELSE "open"]
    BY <1>2
<1>4. \/ cursor[c] = 0 /\ frames = <<>>
      \/ cursor[c] # 0 /\ retained = <<>> /\ frames = <<>>
      \/ cursor[c] # 0 /\ retained # <<>> /\ frames = <<Gap>>
      \/ /\ cursor[c] # 0 /\ retained # <<>>
         /\ frames \in Seq(Int) /\ cursor[c] <= published
         /\ Len(frames) = published - cursor[c]
         /\ \A k \in 1 .. Len(frames) : frames[k] = cursor[c] + k
    BY <1>1, <1>2, Replayed
<1>5. frames \in Seq(Int) /\ Len(frames) \in Nat
  <2>1. CASE frames = <<>>
    BY <2>1, NoFrames
  <2>2. CASE frames = <<Gap>>
    <3>1. <<0>> \in Seq(Int) /\ Len(<<0>>) = 1
        OBVIOUS
    <3> QED BY <2>2, <3>1 DEF Gap
  <2>3. CASE frames \in Seq(Int)
    BY <2>3, Frames
  <2> QED BY <1>4, <2>1, <2>2, <2>3
<1>6. count \in 0 .. SseMaxBuffered /\ count <= Len(frames)
    BY <1>3, <1>5, Limits
<1>7. /\ SubSeq(frames, 1, count) \in Seq(Int)
      /\ Len(SubSeq(frames, 1, count)) = count
      /\ \A i \in 1 .. count : SubSeq(frames, 1, count)[i] = frames[i]
  <2>1. \A i \in 1 .. count : frames[i] \in Int
    BY <1>5, <1>6
  <2>2. 1 \in Int /\ count \in Int
    BY <1>6
  <2>3. /\ SubSeq(frames, 1, count) \in Seq(Int)
        /\ Len(SubSeq(frames, 1, count)) = IF 1 <= count THEN count - 1 + 1 ELSE 0
        /\ \A i \in 1 .. count - 1 + 1 :
              SubSeq(frames, 1, count)[i] = frames[1 + i - 1]
    BY <2>1, <2>2, SubSeqProperties
  <2>4. ASSUME NEW i \in 1 .. count
        PROVE  SubSeq(frames, 1, count)[i] = frames[i]
    <3>1. i \in 1 .. count - 1 + 1 /\ 1 + i - 1 = i
        BY <1>6
    <3> QED BY <2>3, <3>1
  <2> QED BY <1>6, <2>3, <2>4
<1>8. /\ pipe'[c] = SubSeq(frames, 1, count)
      /\ conn'[c] = "open" => count = Len(frames)
      /\ \A d \in Clients \ {c} : /\ pipe'[d] = pipe[d] /\ conn'[d] = conn[d]
                                  /\ covered'[d] = covered[d]
                                  /\ missed'[d] = missed[d]
    BY <1>1, <1>3, <1>5, <1>6 DEF IInv, TypeInv
<1>9. TypeInv'
  <2>1. pipe' \in [Clients -> Seq(Int)]
    BY <1>3, <1>7 DEF IInv, TypeInv
  <2>2. /\ buffered' \in [Clients -> 0 .. SseMaxBuffered]
        /\ conn' \in [Clients -> {"none", "open", "ended"}]
    BY <1>3, <1>6 DEF IInv, TypeInv
  <2>3. /\ covered' \in [Clients -> SUBSET Nat]
        /\ missed' \in [Clients -> SUBSET Nat]
    BY <1>1 DEF IInv, TypeInv
  <2> QED BY <1>1, <2>1, <2>2, <2>3 DEF IInv, TypeInv
<1>10. RetainedInv'
    BY <1>1 DEF IInv, RetainedInv
<1>11. CapacityInv'
  <2>1. IsFiniteSet(Open) /\ Cardinality(Open) \in Nat /\ lingering \in Nat
    BY FS_CardinalityType DEF IInv, CapacityInv, TypeInv
  <2>2. Open' = Open \cup {c} \/ Open' = Open
    <3>1. CASE conn'[c] = "open"
        BY <1>8, <3>1 DEF Open
    <3>2. CASE conn'[c] # "open"
        BY <1>1, <1>8, <3>2 DEF Open
    <3> QED BY <3>1, <3>2
  <2>3. IsFiniteSet(Open') /\ Cardinality(Open') <= Cardinality(Open) + 1
        /\ Cardinality(Open') \in Nat
    <3>1. /\ IsFiniteSet(Open \cup {c})
          /\ Cardinality(Open \cup {c}) = Cardinality(Open) + 1
        BY <1>1, <2>1, FS_AddElement
    <3>2. CASE Open' = Open \cup {c}
        BY <2>1, <3>1, <3>2
    <3>3. CASE Open' = Open
        BY <2>1, <3>3
    <3> QED BY <2>2, <3>2, <3>3
  <2> QED BY <1>1, <2>1, <2>3, Limits DEF CapacityInv
<1>12. Sound(c)'
  <2>1. /\ DOMAIN pipe'[c] = 1 .. count /\ Len(pipe'[c]) = count
        /\ \A i \in 1 .. count : pipe'[c][i] = frames[i]
    BY <1>6, <1>7, <1>8
  <2>2. /\ Known(c) \subseteq 1 .. published
        /\ cursor[c] # 0 => cursor[c] \in covered[c]
        /\ \A n \in covered[c] : 1 .. n \subseteq Known(c)
    BY EachSound DEF Sound
  <2>3. CASE cursor[c] = 0 /\ frames = <<>>
    <3>1. /\ covered'[c] = 1 .. published /\ Known(c)' = 1 .. published
          /\ count = 0
        BY <1>1, <1>6, <2>2, <2>3, NoFrames DEF IInv, TypeInv, Known
    <3>2. \A n \in 1 .. published : Under(c, n, Len(pipe[c]))'
        BY <3>1 DEF Under
    <3>3. DOMAIN pipe'[c] = {}
        BY <2>1, <3>1
    <3> QED BY <1>1, <2>3, <3>1, <3>2, <3>3 DEF Sound
  <2>6. CASE cursor[c] # 0 /\ retained = <<>> /\ frames = <<>>
    <3>1. /\ covered'[c] = covered[c] /\ Known(c)' = 1 .. published
          /\ count = 0
        BY <1>1, <1>6, <2>2, <2>6, NoFrames DEF IInv, TypeInv, Known
    <3>2. \A n \in 1 .. published : Under(c, n, Len(pipe[c]))'
        BY <3>1 DEF Under
    <3>3. DOMAIN pipe'[c] = {}
        BY <2>1, <3>1
    <3>4. \A n \in covered'[c] : 1 .. n \subseteq Known(c)'
      <4>1. \A n \in covered[c] : n \in 1 .. published
        BY <2>2 DEF Known
      <4>2. \A n \in 1 .. published : 1 .. n \subseteq 1 .. published
        BY <1>1
      <4> QED BY <3>1, <4>1, <4>2
    <3> QED BY <1>1, <2>2, <3>1, <3>2, <3>3, <3>4 DEF Sound
  <2>4. CASE cursor[c] # 0 /\ retained # <<>> /\ frames = <<Gap>>
    <3>1. /\ covered'[c] = covered[c] /\ Known(c)' = Known(c)
          /\ Len(frames) = 1
        BY <1>1, <2>4 DEF IInv, TypeInv, Known
    <3>2. \A i \in 1 .. count : pipe'[c][i] = 0
        BY <1>6, <2>1, <2>4, <3>1 DEF Gap
    <3>3. conn'[c] = "open" => \A n \in 1 .. published' :
                                   Under(c, n, Len(pipe[c]))'
      <4>1. SUFFICES ASSUME conn'[c] = "open", NEW n
                     PROVE  Under(c, n, Len(pipe[c]))'
        OBVIOUS
      <4>2. 1 \in 1 .. Len(pipe'[c]) /\ pipe'[c][1] = Gap
        BY <1>8, <2>1, <3>1, <3>2, <4>1 DEF Gap
      <4> QED BY <4>2 DEF Under
    <3>4. \A i \in DOMAIN pipe'[c] : /\ pipe'[c][i] \in Heartbeat .. published'
                                     /\ 1 .. pipe'[c][i] - 1 = {}
                                     /\ ~(pipe'[c][i] > 0)
        BY <1>1, <2>1, <3>2 DEF Heartbeat
    <3> QED BY <1>1, <2>2, <3>1, <3>3, <3>4 DEF Sound
  <2>5. CASE /\ cursor[c] # 0 /\ retained # <<>> /\ cursor[c] <= published
             /\ Len(frames) = published - cursor[c]
             /\ \A k \in 1 .. Len(frames) : frames[k] = cursor[c] + k
    <3>1. /\ covered'[c] = covered[c] /\ Known(c)' = Known(c)
          /\ cursor'[c] = cursor[c]
        BY <1>1, <2>5 DEF IInv, TypeInv, Known
    <3>2. \A i \in 1 .. count : pipe'[c][i] = cursor[c] + i
        BY <1>5, <1>6, <2>1, <2>5
    <3>3. ASSUME NEW i \in 0 .. count, NEW n \in 1 .. cursor[c] + i
          PROVE  Under(c, n, i)'
      <4>1. CASE n <= cursor[c]
        <5>1. n \in Known(c)
          <6>1. 1 .. cursor[c] \subseteq Known(c)
            BY <2>2, <2>5
          <6> QED BY <1>1, <4>1, <6>1
        <5> QED BY <3>1, <5>1 DEF Under
      <4>2. CASE n > cursor[c]
        <5>1. /\ n - cursor[c] \in 1 .. i
              /\ pipe'[c][n - cursor[c]] = n
            BY <1>1, <1>6, <3>2, <3>3, <4>2
        <5> QED BY <5>1 DEF Under
      <4> QED BY <1>1, <3>3, <4>1, <4>2
    <3>4. ASSUME NEW i \in DOMAIN pipe'[c]
          PROVE  /\ i \in 1 .. count /\ pipe'[c][i] = cursor[c] + i
                 /\ pipe'[c][i] \in Heartbeat .. published'
                 /\ cursor'[c] < pipe'[c][i]
                 /\ \A j \in 1 .. i - 1 : pipe'[c][j] < pipe'[c][i]
      <4>1. i \in 1 .. count /\ pipe'[c][i] = cursor[c] + i
        BY <2>1, <3>2
      <4>2. pipe'[c][i] \in Heartbeat .. published' /\ cursor'[c] < pipe'[c][i]
        BY SMTT(40), <1>1, <1>5, <1>6, <2>5, <3>1, <4>1 DEF Heartbeat
      <4>3. \A j \in 1 .. i - 1 : pipe'[c][j] < pipe'[c][i]
        BY <1>1, <1>6, <3>2, <4>1
      <4> QED BY <4>1, <4>2, <4>3
    <3>5. ASSUME NEW i \in DOMAIN pipe'[c], NEW n \in 1 .. pipe'[c][i] - 1
          PROVE  Under(c, n, i - 1)'
      <4>1. i - 1 \in 0 .. count /\ n \in 1 .. cursor[c] + (i - 1)
        BY <1>1, <1>6, <3>4, <3>5
      <4> QED BY <3>3, <4>1
    <3>6. ASSUME conn'[c] = "open", NEW n \in 1 .. published'
          PROVE  Under(c, n, Len(pipe[c]))'
      <4>1. /\ Len(pipe'[c]) \in 0 .. count
            /\ n \in 1 .. cursor[c] + Len(pipe'[c])
        BY <1>1, <1>6, <1>8, <2>1, <2>5, <3>6
      <4> QED BY <3>3, <4>1
    <3> QED BY <1>1, <2>2, <3>1, <3>4, <3>5, <3>6 DEF Sound
  <2> QED BY <1>4, <2>3, <2>4, <2>5, <2>6
<1>13. \A d \in Clients \ {c} : Sound(d)'
    BY <1>1, <1>8, Untouched
<1> QED BY <1>9, <1>10, <1>11, <1>12, <1>13, AllSound DEF IInv

\* What a frame fewer tells of, once its news has arrived.
LEMMA Shifted ==
    ASSUME NEW c, NEW n, NEW k \in Int, Under(c, n, k),
           Known(c) \subseteq Known(c)',
           \A j \in 1 .. k - 1 : pipe'[c][j] = pipe[c][j + 1],
           pipe[c][1] \in {n, Gap} => n \in Known(c)'
    PROVE  Under(c, n, k - 1)'
<1>1. CASE n \in Known(c)
    BY <1>1 DEF Under
<1>2. ASSUME NEW j \in 1 .. k, pipe[c][j] = n \/ pipe[c][j] = Gap
      PROVE  Under(c, n, k - 1)'
  <2>1. CASE j = 1
    BY <1>2, <2>1 DEF Under
  <2>2. CASE j # 1
    <3>1. j - 1 \in 1 .. k - 1 /\ (j - 1) + 1 = j
        BY <2>2
    <3>2. pipe'[c][j - 1] = pipe[c][j]
        BY <3>1
    <3> QED BY <1>2, <3>1, <3>2 DEF Under
  <2> QED BY <2>1, <2>2
<1> QED BY <1>1, <1>2 DEF Under

LEMMA DeliverKeeps ==
    ASSUME IInv, NEW c \in Clients, Deliver(c) PROVE IInv'
<1> DEFINE frame == Head(pipe[c])
<1>1. /\ Len(pipe[c]) > buffered[c]
      /\ pipe' = [pipe EXCEPT ![c] = Tail(@)]
      /\ cursor' = [cursor EXCEPT ![c] = IF frame > 0 THEN frame ELSE @]
      /\ covered' = [covered EXCEPT ![c] =
                        CASE frame = Gap -> 1 .. published
                          [] frame = Heartbeat -> @
                          [] OTHER -> @ \cup {frame}]
      /\ UNCHANGED <<published, retained, conn, buffered, lingering, missed,
                     drops>>
    BY DEF Deliver
<1>2. /\ published \in Nat /\ pipe[c] \in Seq(Int) /\ Len(pipe[c]) \in Nat
      /\ Len(pipe[c]) > 0 /\ pipe[c] # <<>> /\ cursor[c] \in Nat
      /\ DOMAIN pipe[c] = 1 .. Len(pipe[c])
  <2>1. buffered[c] \in Nat
    BY Limits DEF IInv, TypeInv
  <2> QED BY <1>1, <2>1, NoFrames DEF IInv, TypeInv
<1>3. /\ frame = pipe[c][1] /\ Tail(pipe[c]) \in Seq(Int)
      /\ Len(Tail(pipe[c])) = Len(pipe[c]) - 1
      /\ \A i \in 1 .. Len(pipe[c]) - 1 : Tail(pipe[c])[i] = pipe[c][i + 1]
    BY <1>2, HeadTailProperties
<1>4. frame \in Heartbeat .. published
    BY <1>2, <1>3, EachSound DEF Sound
<1> HIDE DEF frame
<1>5. /\ pipe'[c] = Tail(pipe[c]) /\ conn'[c] = conn[c]
      /\ cursor'[c] = IF frame > 0 THEN frame ELSE cursor[c]
      /\ covered'[c] = CASE frame = Gap -> 1 .. published
                         [] frame = Heartbeat -> covered[c]
                         [] OTHER -> covered[c] \cup {frame}
      /\ \A d \in Clients \ {c} :
            /\ pipe'[d] = pipe[d] /\ cursor'[d] = cursor[d]
            /\ covered'[d] = covered[d]
      /\ missed' = missed
    BY <1>1 DEF IInv, TypeInv
<1>6. TypeInv'
  <2>1. pipe' \in [Clients -> Seq(Int)]
    BY <1>1, <1>3 DEF IInv, TypeInv
  <2>2. cursor' \in [Clients -> Nat]
    BY <1>1, <1>4 DEF IInv, TypeInv, Heartbeat
  <2>3. covered'[c] \in SUBSET Nat
    BY <1>2, <1>4, <1>5 DEF IInv, TypeInv, Heartbeat, Gap
  <2>4. covered' \in [Clients -> SUBSET Nat]
    BY <1>1, <1>5, <2>3 DEF IInv, TypeInv
  <2> QED BY <1>1, <2>1, <2>2, <2>4 DEF IInv, TypeInv
<1>7. RetainedInv' /\ CapacityInv'
    BY <1>1, FewerStreams DEF IInv, TypeInv, RetainedInv, Open
<1>8. Sound(c)'
  <2>1. Sound(c)
    BY EachSound
  <2>2. /\ DOMAIN pipe'[c] = 1 .. Len(pipe[c]) - 1
        /\ Len(pipe'[c]) = Len(pipe[c]) - 1
        /\ \A i \in 1 .. Len(pipe[c]) - 1 : pipe'[c][i] = pipe[c][i + 1]
    BY <1>2, <1>3, <1>5
  <2>3. /\ Known(c) \subseteq Known(c)' /\ Known(c)' \subseteq 1 .. published
        /\ covered[c] \subseteq covered'[c]
        /\ \A n \in covered'[c] : 1 .. n \subseteq Known(c)'
        /\ frame > 0 => frame \in covered'[c]
        /\ frame = Gap => covered'[c] = 1 .. published
    <3>0. /\ Known(c) = covered[c] \cup missed[c]
          /\ Known(c)' = covered'[c] \cup missed[c]
        BY <1>5 DEF Known
    <3>1. CASE frame = Gap
      <4>1. covered'[c] = 1 .. published /\ ~(frame > 0)
        <5>1. ~(frame > 0)
            BY <3>1 DEF Gap
        <5>2. covered'[c] = CASE frame = Gap -> 1 .. published
                              [] frame = Heartbeat -> covered[c]
                              [] OTHER -> covered[c] \cup {frame}
            BY <1>5
        <5>3. Gap # Heartbeat
            BY DEF Gap, Heartbeat
        <5> QED BY <3>1, <5>1, <5>2, <5>3
      <4>2. Known(c) \subseteq 1 .. published
        BY <2>1 DEF Sound
      <4>3. \A n \in 1 .. published : 1 .. n \subseteq 1 .. published
        BY <1>2
      <4> QED BY <3>0, <4>1, <4>2, <4>3
    <3>2. CASE frame = Heartbeat
        BY <1>5, <2>1, <3>0, <3>2 DEF Sound, Heartbeat, Gap
    <3>3. CASE frame > 0
      <4>1. covered'[c] = covered[c] \cup {frame}
        BY <1>4, <1>5, <3>3 DEF Gap, Heartbeat
      <4>2. \A n \in 1 .. frame - 1 : n \in Known(c)
        <5>1. \A n \in 1 .. frame - 1 : Under(c, n, 1 - 1)
            BY <1>2, <1>3, <2>1 DEF Sound
        <5> QED BY <5>1 DEF Under
      <4>3. 1 .. frame \subseteq Known(c)'
        BY <1>4, <3>0, <3>3, <4>1, <4>2 DEF Heartbeat
      <4>4. Known(c)' \subseteq 1 .. published
        BY <1>2, <1>4, <2>1, <3>0, <3>3, <4>1 DEF Sound, Heartbeat
      <4>5. ASSUME NEW n \in covered'[c] PROVE 1 .. n \subseteq Known(c)'
        BY <2>1, <3>0, <4>1, <4>3 DEF Sound
      <4> QED BY <3>0, <3>3, <4>1, <4>4, <4>5 DEF Gap
    <3> QED BY <1>4, <3>1, <3>2, <3>3 DEF Gap, Heartbeat
  <2>4. ASSUME NEW n \in 1 .. published, NEW k \in Int, Under(c, n, k),
               k <= Len(pipe[c])
        PROVE  Under(c, n, k - 1)'
    <3>1. pipe[c][1] \in {n, Gap} => n \in Known(c)'
      <4>1. frame = pipe[c][1] /\ n > 0
        BY <1>2, <1>3
      <4>2. CASE frame = n
        BY <2>3, <4>1, <4>2 DEF Known
      <4>3. CASE frame = Gap
        BY <2>3, <4>3 DEF Known
      <4> QED BY <4>1, <4>2, <4>3
    <3>2. \A j \in 1 .. k - 1 : pipe'[c][j] = pipe[c][j + 1]
      <4>1. 1 .. k - 1 \subseteq 1 .. Len(pipe[c]) - 1
        BY <1>2, <2>4
      <4> QED BY <2>2, <4>1
    <3> QED BY <2>3, <2>4, <3>1, <3>2, Shifted
  <2>5. ASSUME NEW i \in DOMAIN pipe'[c]
        PROVE  /\ i + 1 \in DOMAIN pipe[c] /\ pipe'[c][i] = pipe[c][i + 1]
               /\ pipe[c][i + 1] \in Heartbeat .. published
    <3>1. i \in 1 .. Len(pipe[c]) - 1 /\ pipe'[c][i] = pipe[c][i + 1]
        BY <2>2
    <3>2. i + 1 \in DOMAIN pipe[c]
        BY <1>2, <3>1
    <3> QED BY <2>1, <3>1, <3>2 DEF Sound
  <2>6. ASSUME NEW i \in DOMAIN pipe'[c], NEW n \in 1 .. pipe'[c][i] - 1
        PROVE  Under(c, n, i - 1)'
    <3>1. n \in 1 .. published /\ i + 1 \in DOMAIN pipe[c] /\ i \in Int
      <4>1. pipe'[c][i] \in -1 .. published
        BY <2>5 DEF Heartbeat
      <4>2. i \in Int /\ i + 1 \in DOMAIN pipe[c]
        BY <2>2, <2>5
      <4> QED BY <1>2, <4>1, <4>2
    <3>2. Under(c, n, (i + 1) - 1)
        BY <2>1, <2>5, <3>1 DEF Sound
    <3>3. (i + 1) - 1 = i /\ i <= Len(pipe[c])
        BY <1>2, <2>2
    <3>4. Under(c, n, i)
        BY <3>2, <3>3
    <3> QED BY <2>4, <3>1, <3>3, <3>4
  <2>7. ASSUME conn'[c] = "open", NEW n \in 1 .. published
        PROVE  Under(c, n, Len(pipe[c]))'
    <3>1. Under(c, n, Len(pipe[c]))
        BY <1>5, <2>1, <2>7 DEF Sound
    <3>2. PICK k \in Nat : k = Len(pipe[c])
        BY <1>2
    <3>3. Under(c, n, k - 1)'
        BY <2>4, <3>1, <3>2
    <3> QED BY <2>2, <3>2, <3>3
  <2>8. ASSUME NEW i \in DOMAIN pipe'[c], pipe'[c][i] > 0
        PROVE  /\ cursor'[c] < pipe'[c][i]
               /\ \A j \in 1 .. i - 1 : pipe'[c][j] < pipe'[c][i]
    <3>1. /\ i + 1 \in DOMAIN pipe[c] /\ pipe'[c][i] = pipe[c][i + 1]
          /\ i \in 1 .. Len(pipe[c]) - 1
        BY <2>2, <2>5
    <3>2. /\ cursor[c] < pipe[c][i + 1]
          /\ \A j \in 1 .. i : pipe[c][j] < pipe[c][i + 1]
        BY <1>2, <2>1, <2>8, <3>1 DEF Sound
    <3>3. frame < pipe[c][i + 1]
        BY <1>2, <1>3, <3>1, <3>2
    <3>4. \A j \in 1 .. i - 1 : pipe'[c][j] = pipe[c][j + 1] /\ j + 1 \in 1 .. i
      <4> TAKE j \in 1 .. i - 1
      <4>1. j \in 1 .. Len(pipe[c]) - 1 /\ j + 1 \in 1 .. i
        BY SMTT(40), <1>2, <3>1
      <4> QED BY <2>2, <4>1
    <3>5. cursor'[c] < pipe'[c][i]
        BY <1>5, <3>1, <3>2, <3>3
    <3> QED BY <3>1, <3>2, <3>4, <3>5
  <2>9. cursor'[c] # 0 => cursor'[c] \in covered'[c]
    BY <1>5, <2>1, <2>3 DEF Sound
  <2> QED BY <1>1, <2>3, <2>5, <2>6, <2>7, <2>8, <2>9 DEF Sound
<1>9. \A d \in Clients \ {c} : Sound(d)'
    BY <1>1, <1>5, Untouched
<1> QED BY <1>6, <1>7, <1>8, <1>9, AllSound DEF IInv

LEMMA DisconnectedKeeps ==
    ASSUME IInv, NEW c \in Clients, Disconnected(c), conn[c] # "none",
           \/ conn[c] = "ended" /\ lingering' = lingering
           \/ conn[c] = "open" /\ lingering' = lingering + 1,
           drops' \in 0 .. MaxDrops
    PROVE  IInv'
<1>1. /\ conn' = [conn EXCEPT ![c] = "none"]
      /\ buffered' = [buffered EXCEPT ![c] = 0]
      /\ pipe' = [pipe EXCEPT ![c] = <<>>]
      /\ UNCHANGED <<published, retained, cursor, covered, missed>>
    BY DEF Disconnected
<1>2. TypeInv' /\ RetainedInv'
  <2>1. pipe' \in [Clients -> Seq(Int)]
    BY <1>1, NoFrames DEF IInv, TypeInv
  <2>2. /\ buffered' \in [Clients -> 0 .. SseMaxBuffered]
        /\ conn' \in [Clients -> {"none", "open", "ended"}]
        /\ lingering' \in Nat
    BY <1>1, Limits DEF IInv, TypeInv
  <2> QED BY <1>1, <2>1, <2>2 DEF IInv, TypeInv, RetainedInv
<1>3. CapacityInv'
  <2>1. IsFiniteSet(Open) /\ Cardinality(Open) \in Nat /\ lingering \in Nat
        /\ Cardinality(Open) + lingering <= SseConnectionCapacity
    BY FS_CardinalityType DEF IInv, CapacityInv, TypeInv
  <2>2. Open' = Open \ {c}
    BY <1>1 DEF Open, IInv, TypeInv
  <2>3. /\ IsFiniteSet(Open')
        /\ Cardinality(Open') = IF c \in Open THEN Cardinality(Open) - 1
                                ELSE Cardinality(Open)
    BY <2>1, <2>2, FS_RemoveElement
  <2>4. c \in Open <=> conn[c] = "open"
    BY DEF Open
  <2> QED BY <2>1, <2>3, <2>4 DEF CapacityInv
<1>4. Sound(c)'
  <2>1. pipe'[c] = <<>> /\ conn'[c] = "none" /\ published' \in Nat
        /\ published <= published'
    BY <1>1 DEF IInv, TypeInv
  <2> QED BY <1>1, <2>1, Gone
<1>5. \A d \in Clients \ {c} : Sound(d)'
  <2>1. \A d \in Clients \ {c} : pipe'[d] = pipe[d] /\ conn'[d] = conn[d]
    BY <1>1 DEF IInv, TypeInv
  <2> QED BY <1>1, <2>1, Untouched
<1> QED BY <1>2, <1>3, <1>4, <1>5, AllSound DEF IInv
-----------------------------------------------------------------------------
(* The theorems.                                                           *)

LEMMA InitInv == Init => IInv
<1> SUFFICES ASSUME Init PROVE IInv
    OBVIOUS
<1>1. TypeInv
  <2>1. pipe \in [Clients -> Seq(Int)]
    BY NoFrames DEF Init
  <2> QED BY <2>1, Limits, EmptySeq DEF Init, TypeInv
<1>2. RetainedInv
    BY Limits, EmptySeq DEF Init, RetainedInv
<1>3. CapacityInv
  <2>1. Open = {}
    BY DEF Init, Open
  <2> QED BY <2>1, FS_EmptySet, Limits DEF Init, CapacityInv
<1>4. \A c \in Clients : /\ DOMAIN pipe[c] = {} /\ conn[c] = "none"
                         /\ covered[c] = {} /\ Known(c) = {}
    BY NoFrames DEF Init, Known
<1>5. BoundInv /\ ContinuedInv /\ NoSilentLoss /\ FramesInOrder
    BY <1>4 DEF Init, BoundInv, ContinuedInv, NoSilentLoss, FramesInOrder
<1> QED BY <1>1, <1>2, <1>3, <1>5 DEF IInv

LEMMA NextInv == IInv /\ [Next]_vars => IInv'
<1> SUFFICES ASSUME IInv, [Next]_vars PROVE IInv'
    OBVIOUS
<1>1. CASE Publish
    BY <1>1, PublishKeeps
<1>2. CASE Restart
    BY <1>2, RestartKeeps
<1>3. ASSUME UNCHANGED <<published, retained, conn, pipe, cursor, covered, missed,
                         drops>>,
             buffered' \in [Clients -> 0 .. SseMaxBuffered],
             lingering' \in Nat, lingering' <= lingering
      PROVE  IInv'
  <2>1. TypeInv' /\ RetainedInv'
    BY <1>3 DEF IInv, TypeInv, RetainedInv
  <2>2. CapacityInv'
    BY <1>3, FewerStreams DEF IInv, TypeInv, Open
  <2>3. \A c \in Clients : Sound(c)'
    BY <1>3, Untouched
  <2> QED BY <2>1, <2>2, <2>3, AllSound DEF IInv
<1>4. CASE Release
    BY <1>3, <1>4 DEF Release, IInv, TypeInv
<1>5. CASE \E c \in Clients : Flushed(c)
  <2>1. PICK c \in Clients : Flushed(c)
    BY <1>5
  <2>2. buffered' \in [Clients -> 0 .. SseMaxBuffered] /\ lingering' = lingering
    BY <2>1, Limits DEF Flushed, IInv, TypeInv
  <2> QED BY <1>3, <2>1, <2>2 DEF Flushed, IInv, TypeInv
<1>6. CASE \E c \in Clients : Connect(c)
    BY <1>6, ConnectKeeps
<1>7. CASE \E c \in Clients : Beat(c)
    BY <1>7, BeatKeeps
<1>8. CASE \E c \in Clients : Deliver(c)
    BY <1>8, DeliverKeeps
<1>9. CASE \E c \in Clients : StreamEnds(c)
    BY <1>9, DisconnectedKeeps DEF StreamEnds, IInv, TypeInv
<1>10. CASE \E c \in Clients : Drop(c)
  <2>1. PICK c \in Clients : Drop(c)
    BY <1>10
  <2>2. /\ \/ conn[c] = "open" /\ lingering' = lingering + 1
           \/ conn[c] = "ended" /\ lingering' = lingering
        /\ conn[c] # "none" /\ Disconnected(c) /\ drops' \in 0 .. MaxDrops
    BY <2>1, Limits DEF Drop, IInv, TypeInv
  <2> QED BY <2>2, DisconnectedKeeps
<1>11. CASE UNCHANGED vars
    BY <1>3, <1>11 DEF vars, IInv, TypeInv
<1> QED BY <1>1, <1>2, <1>4, <1>5, <1>6, <1>7, <1>8, <1>9, <1>10, <1>11 DEF Next

LEMMA InvHolds == Spec => []IInv
    BY InitInv, NextInv, PTL DEF Spec

\* A consumer never has a notification without the news of every earlier one,
\* and what is on its way to it is new and in the order of publication: the
\* replay of serveEvents, the gap it reports and the ending of a slow stream
\* by writeSseFrame lose nothing and repeat nothing.  The news it resumed past
\* before the runtime had published anything, where serveEvents announces no
\* gap, is excepted, and no other.
THEOREM NothingLost == Spec => []InOrderNoLoss
<1>1. IInv => InOrderNoLoss
    BY DEF IInv, InOrderNoLoss
<1> QED BY <1>1, InvHolds, PTL

\* The server keeps within its capacities: no more streams than it allows,
\* those it has not yet seen closed among them, no more retained notifications
\* and no more frames in a buffer; nothing is sent that was not published.
THEOREM WithinCapacities == Spec => []TypeOK
<1>1. ASSUME IInv PROVE TypeOK
  <2>1. \A c \in Clients : cursor[c] \in Nat /\ cursor[c] <= published
    BY <1>1, EachSound DEF Sound, Known, IInv, TypeInv
  <2>2. ASSUME NEW c \in Clients PROVE pipe[c] \in Seq(Heartbeat .. MaxPublished)
    <3>1. pipe[c] \in Seq(Int) /\ published \in Nat /\ published <= MaxPublished
        BY <1>1 DEF IInv, TypeInv
    <3>2. \A i \in 1 .. Len(pipe[c]) : pipe[c][i] \in Heartbeat .. MaxPublished
        BY <1>1, <3>1, EachSound, Limits DEF Sound, Heartbeat
    <3>3. SubSeq(pipe[c], 1, Len(pipe[c])) = pipe[c] /\ Len(pipe[c]) \in Int
        BY <3>1, SubSeqFull
    <3>4. 1 \in Int
        OBVIOUS
    <3>5. SubSeq(pipe[c], 1, Len(pipe[c])) \in Seq(Heartbeat .. MaxPublished)
        BY <3>2, <3>3, <3>4, SubSeqProperties
    <3> QED BY <3>3, <3>5
  <2>3. cursor \in [Clients -> 0 .. MaxPublished]
    BY <1>1, <2>1, Limits DEF IInv, TypeInv
  <2>4. published \in 0 .. MaxPublished
    BY <1>1, Limits DEF IInv, TypeInv
  <2>5. \A c \in Clients : Known(c) \subseteq 1 .. published
    BY <1>1 DEF IInv, BoundInv
  <2> QED BY <1>1, <2>2, <2>3, <2>4, <2>5
        DEF IInv, TypeInv, RetainedInv, CapacityInv, TypeOK
<1> QED BY <1>1, InvHolds, PTL
=============================================================================
