--------------------------- MODULE CommandLedger ---------------------------
(***************************************************************************)
(* What WorkflowCommandService promises its callers, with no journal, no   *)
(* lookup and no retry: a stream takes effect from at most one command,    *)
(* an identity belongs to at most one command, and whoever is told that a  *)
(* command was applied or refused is told a truth that never changes.      *)
(***************************************************************************)
CONSTANTS Commands, \* [commandId, idempotencyKey, stream, expectedVersion, ...]
          None

VARIABLES effect,   \* per stream: the command that created its run, or None
          told      \* <<command, "applied" or "refused">> pairs told so far

Streams == {c.stream : c \in Commands}

\* Two commands that claim the same identity.
Clash(c, d) ==
    /\ c # d
    /\ \/ c.commandId = d.commandId
       \/ c.idempotencyKey = d.idempotencyKey /\ c.stream = d.stream

Applied(c) == effect[c.stream] = c

\* No future can apply c.
Hopeless(c) ==
    \/ c.expectedVersion # 0
    \/ effect[c.stream] \notin {None, c}
    \/ \E s \in Streams : effect[s] # None /\ Clash(c, effect[s])

Init == effect = [s \in Streams |-> None] /\ told = {}

Apply(c) ==
    /\ effect[c.stream] = None /\ ~Hopeless(c)
    /\ effect' = [effect EXCEPT ![c.stream] = c]
    /\ UNCHANGED told

Tell(c) ==
    /\ \/ Applied(c) /\ told' = told \cup {<<c, "applied">>}
       \/ Hopeless(c) /\ ~Applied(c) /\ told' = told \cup {<<c, "refused">>}
    /\ UNCHANGED effect

Next == \E c \in Commands : Apply(c) \/ Tell(c)

Spec == Init /\ [][Next]_<<effect, told>>
=============================================================================
