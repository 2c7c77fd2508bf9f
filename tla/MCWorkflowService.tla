------------------------- MODULE MCWorkflowService -------------------------
(* Bounded instance of WorkflowService: two services, and commands that     *)
(* retry, race for one stream and reuse each other's identities.            *)
EXTENDS WorkflowService, TLC

CONSTANTS s1, s2, A, B, c1, c2, k1, k2, p1, p2

MCWorkers == {s1, s2}

NewCommand(id, key, stream, version, payload) ==
    [commandId |-> id, idempotencyKey |-> key, stream |-> stream,
     expectedVersion |-> version, payload |-> payload]

Create     == NewCommand(c1, k1, A, 0, p1)
Rival      == NewCommand(c2, k2, A, 0, p2) \* another run on the same stream
Changed    == NewCommand(c1, k1, A, 0, p2) \* Create's identity, other content
SameKey    == NewCommand(c2, k1, A, 0, p1) \* Create's key, another command id
OtherRun   == NewCommand(c1, k1, B, 0, p1) \* Create's command id, another run
Amend      == NewCommand(c2, k2, A, 1, p2) \* expects a run that exists
MCCommands == {Create, Rival, Changed, SameKey, OtherRun, Amend}

\* s1 calls with anything, s2 with a command and its rival: enough for a
\* success, a retry and a lost race against whatever s1 does.
Calls(s) == IF s = s1 THEN MCCommands ELSE {Create, Rival}

MCBatches == {prepare(c, {}, <<s, n>>) :
                 c \in MCCommands, s \in MCWorkers, n \in 1..MaxCalls}
MCIds == {A, B, c1, c2, k1, k2, p1, p2} 
         \cup {canonicalJsonSha256(c) : c \in MCCommands}
         \cup (MCWorkers \X (1..MaxCalls)) \cup ({c1, c2} \X {p1, p2})

\* The worker of s1 may crash, and be terminated once it has, and that of s2 be
\* terminated: to the call that is under way it is the same, to later ones not.
MCNext ==
    \E s \in MCWorkers :
        \/ \E c \in Calls(s) : Execute(s, c)
        \/ Progress(s) \/ Reopen(s)
        \/ s = s1 /\ Crash(s)
        \/ (s = s2 \/ s \notin open) /\ TerminateForQualification(s)
MCSpec == SInit /\ [][MCNext]_<<vars, svars>>
          /\ \A s \in MCWorkers : WF_<<vars, svars>>(Progress(s))
=============================================================================
