---------------------------- MODULE EventStream ----------------------------
(***************************************************************************)
(* The event stream of the Control API: publishNotification and serveEvents *)
(* of packages/platform/src/server.ts, the generator streamEvents of       *)
(* client.ts, and a consumer that resumes after the last notification it   *)
(* has and reads the resources again when it is told of a gap, or when it  *)
(* has nothing to resume after.  A notification is its number in the order *)
(* of publication, over all runtimes; a frame counts as one unit of        *)
(* buffered bytes.                                                         *)
(***************************************************************************)
EXTENDS Integers, Sequences, FiniteSets

CONSTANTS
    Clients,
    SseConnectionCapacity, SseRetentionCapacity,
    SseMaxBuffered,  \* sseMaxBufferedBytes, in frames
    SocketFrames,    \* what the sockets hold between server and client
    MaxPublished,    \* bound on the notifications
    MaxDrops         \* bound on lost connections and restarts

ASSUME StreamAssumption ==
    /\ SseConnectionCapacity \in Nat \ {0} /\ SseRetentionCapacity \in Nat \ {0}
    /\ SseMaxBuffered \in Nat \ {0} /\ SocketFrames \in Nat \ {0}
    /\ MaxPublished \in Nat \ {0} /\ MaxDrops \in Nat

VARIABLES
    published, \* the number of notifications so far
    retained,  \* state.notifications
    conn,      \* each client's stream: "none", "open", or "ended" by the server
    buffered,  \* bufferedBytes of its connection
    pipe,      \* the frames written to it and not yet read by the client
    lingering, \* connections the client has left, still in eventConnections
    cursor,    \* the last notification each client has received, 0 for none
    covered,   \* the notifications whose news each client has
    missed,    \* history: what a resumption before the first notification of a
               \* runtime passed over, with neither a replay nor a gap
    drops

vars == <<published, retained, conn, buffered, pipe, lingering, cursor,
          covered, missed, drops>>

Gap == 0        \* the frame CONTROL_SSE_RETENTION_GAP
Heartbeat == -1 \* the comment frame

\* The first runtime listens and has written its descriptor; it has yet to
\* publish its status.
Init ==
    /\ published = 0 /\ retained = <<>>
    /\ conn = [c \in Clients |-> "none"]
    /\ buffered = [c \in Clients |-> 0]
    /\ pipe = [c \in Clients |-> <<>>]
    /\ lingering = 0
    /\ cursor = [c \in Clients |-> 0]
    /\ covered = [c \in Clients |-> {}] /\ missed = [c \in Clients |-> {}]
    /\ drops = 0
-----------------------------------------------------------------------------
(* The server.                                                             *)

Open == {c \in Clients : conn[c] = "open"}

\* Mutant of WriteFrame: a full buffer loses the frame and not the connection.
WriteFrameOrSkip(C, frame) ==
    LET fits == {c \in C : buffered[c] < SseMaxBuffered} IN
    /\ pipe' = [c \in Clients |-> IF c \in fits THEN Append(pipe[c], frame)
                                  ELSE pipe[c]]
    /\ buffered' = [c \in Clients |-> IF c \in fits THEN buffered[c] + 1
                                      ELSE buffered[c]]
    /\ UNCHANGED conn
\* writeSseFrame to the connections C, and closeEventConnection of those
\* whose buffer has no room for it: what was written before is still sent.
WriteFrame(C, frame) ==
    LET fits == {c \in C : buffered[c] < SseMaxBuffered} IN
    /\ pipe' = [c \in Clients |-> IF c \in fits THEN Append(pipe[c], frame)
                                  ELSE pipe[c]]
    /\ buffered' = [c \in Clients |-> IF c \in fits THEN buffered[c] + 1
                                      ELSE buffered[c]]
    /\ conn' = [c \in Clients |-> IF c \in C \ fits THEN "ended" ELSE conn[c]]

\* The oldest notifications go when there are more than may be retained.
Retain(s) ==
    SubSeq(s, IF Len(s) > SseRetentionCapacity
              THEN Len(s) - SseRetentionCapacity + 1 ELSE 1, Len(s))

\* publishNotification: first of all the runtime's own status, then what the
\* program reports.
Publish ==
    /\ published < MaxPublished
    /\ published' = published + 1
    /\ retained' = Retain(Append(retained, published + 1))
    /\ WriteFrame(Open, published + 1)
    /\ UNCHANGED <<lingering, cursor, covered, missed, drops>>

\* The frames a stream begins with when it resumes after a notification: what
\* follows the place findIndex gives, as a set of one sequence.
Replay(last) ==
    LET at == {i \in DOMAIN retained : retained[i] = last} IN
    IF at = {} THEN {<<Gap>>}
    ELSE {SubSeq(retained, i + 1, Len(retained)) : i \in at}

\* serveEvents: the frames of the replay are written at once, so that one too
\* many for the buffer ends the connection.  A client that has nothing to
\* resume after starts from now, and reads the resources once connected.  One
\* that has is served as if it had not, while nothing is retained.
Connect(c) ==
    /\ conn[c] = "none"
    /\ Cardinality(Open) + lingering < SseConnectionCapacity
    /\ \E frames \in IF cursor[c] = 0 \/ retained = <<>> THEN {<<>>}
                     ELSE Replay(cursor[c]) :
          LET count == IF Len(frames) > SseMaxBuffered THEN SseMaxBuffered
                       ELSE Len(frames)
          IN  /\ pipe' = [pipe EXCEPT ![c] = SubSeq(frames, 1, count)]
              /\ buffered' = [buffered EXCEPT ![c] = count]
              /\ conn' = [conn EXCEPT ![c] = IF count < Len(frames)
                                             THEN "ended" ELSE "open"]
    /\ covered' = [covered EXCEPT ![c] = IF cursor[c] = 0 THEN 1 .. published
                                         ELSE @]
    /\ missed' = [missed EXCEPT ![c] =
                    IF cursor[c] # 0 /\ retained = <<>>
                    THEN @ \cup ((1 .. published) \ covered[c]) ELSE @]
    /\ UNCHANGED <<published, retained, lingering, cursor, drops>>

\* The interval of the connection.
Beat(c) ==
    /\ conn[c] = "open" /\ WriteFrame({c}, Heartbeat)
    /\ UNCHANGED <<published, retained, lingering, cursor, covered, missed, drops>>

\* The callback of response.write: the system has taken the oldest frame.
Flushed(c) ==
    /\ buffered[c] > 0 /\ Len(pipe[c]) - buffered[c] < SocketFrames
    /\ buffered' = [buffered EXCEPT ![c] = @ - 1]
    /\ UNCHANGED <<published, retained, conn, pipe, lingering, cursor,
                   covered, missed, drops>>

\* Mutant of Release: the connection stays in eventConnections.
ReleaseNothing ==
    /\ lingering > 0 /\ UNCHANGED vars
\* The server sees that a client has left ("close"), or runs out of buffer.
Release ==
    /\ lingering > 0
    /\ lingering' = lingering - 1
    /\ UNCHANGED <<published, retained, conn, buffered, pipe, cursor, covered,
                   missed, drops>>

\* The runtime stops or crashes and another one is started: its notifications
\* are its own, none so far, and every connection is gone with what was under
\* way.
Restart ==
    /\ drops < MaxDrops
    /\ drops' = drops + 1
    /\ retained' = <<>>
    /\ conn' = [c \in Clients |-> "none"]
    /\ buffered' = [c \in Clients |-> 0]
    /\ pipe' = [c \in Clients |-> <<>>]
    /\ lingering' = 0
    /\ UNCHANGED <<published, cursor, covered, missed>>
-----------------------------------------------------------------------------
(* The client.                                                             *)

Disconnected(c) ==
    /\ conn' = [conn EXCEPT ![c] = "none"]
    /\ buffered' = [buffered EXCEPT ![c] = 0]
    /\ pipe' = [pipe EXCEPT ![c] = <<>>]
    /\ UNCHANGED <<published, retained, cursor, covered, missed>>

\* streamEvents yields a notification or a gap and skips a comment.
Deliver(c) ==
    /\ Len(pipe[c]) > buffered[c]
    /\ pipe' = [pipe EXCEPT ![c] = Tail(@)]
    /\ LET frame == Head(pipe[c]) IN
       /\ cursor' = [cursor EXCEPT ![c] = IF frame > 0 THEN frame ELSE @]
       /\ covered' = [covered EXCEPT ![c] =
                        CASE frame = Gap -> 1 .. published
                          [] frame = Heartbeat -> @
                          [] OTHER -> @ \cup {frame}]
    /\ UNCHANGED <<published, retained, conn, buffered, lingering, missed,
                   drops>>

\* The generator returns when the server has ended the stream.
StreamEnds(c) ==
    /\ conn[c] = "ended" /\ pipe[c] = <<>>
    /\ Disconnected(c)
    /\ UNCHANGED <<lingering, drops>>

\* The consumer aborts or the connection breaks: the server learns it later.
Drop(c) ==
    /\ drops < MaxDrops /\ conn[c] # "none"
    /\ drops' = drops + 1
    /\ Disconnected(c)
    /\ lingering' = IF conn[c] = "open" THEN lingering + 1 ELSE lingering

Next ==
    \/ Publish \/ Restart \/ Release
    \/ \E c \in Clients :
          \/ Connect(c) \/ Beat(c) \/ Flushed(c) \/ Deliver(c)
          \/ StreamEnds(c) \/ Drop(c)

Spec == Init /\ [][Next]_vars

\* Connections move data and report their end, and a consumer keeps reading
\* and connects again.  Nothing has to be published.
Fairness ==
    /\ WF_vars(Release)
    /\ \A c \in Clients : /\ WF_vars(Connect(c)) /\ WF_vars(Flushed(c))
                          /\ WF_vars(Deliver(c)) /\ WF_vars(StreamEnds(c))

FairSpec == Spec /\ Fairness
-----------------------------------------------------------------------------
\* The news a client has, or has been refused without a word.
Known(c) == covered[c] \cup missed[c]

\* The variables have their types, within the capacities of the server.
TypeOK ==
    /\ published \in 0 .. MaxPublished
    /\ Len(retained) \in 0 .. SseRetentionCapacity
    /\ conn \in [Clients -> {"none", "open", "ended"}]
    /\ buffered \in [Clients -> 0 .. SseMaxBuffered]
    /\ \A c \in Clients : pipe[c] \in Seq(Heartbeat .. MaxPublished)
    /\ Cardinality(Open) + lingering <= SseConnectionCapacity
    /\ cursor \in [Clients -> 0 .. MaxPublished]
    /\ \A c \in Clients : Known(c) \subseteq 1 .. published
    /\ drops \in 0 .. MaxDrops

\* A consumer never has a notification without the news of every earlier one:
\* whatever a full buffer, a lost connection, a restart or the retention
\* limit made it miss was replayed to it or announced by a gap, except what
\* came before a runtime it resumed with before that runtime had published
\* anything.
NoSilentLoss ==
    \A c \in Clients : \A n \in covered[c] : 1 .. n \subseteq Known(c)

\* The notifications on their way to a consumer are new to it and in the
\* order of publication: resuming repeats nothing.
FramesInOrder ==
    \A c \in Clients : \A i \in DOMAIN pipe[c] : pipe[c][i] > 0 =>
        /\ cursor[c] < pipe[c][i]
        /\ \A j \in 1 .. i - 1 : pipe[c][j] < pipe[c][i]

\* What a consumer has is complete, and what is on its way continues it.
InOrderNoLoss == NoSilentLoss /\ FramesInOrder

\* Every consumer gets the news of every notification, in spite of lost
\* connections, restarts and closed slow streams, but for what it lost by
\* resuming too early.
CatchesUp ==
    \A c \in Clients : \A n \in 1 .. MaxPublished :
        published >= n ~> n \in Known(c)
=============================================================================
