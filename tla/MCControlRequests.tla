------------------------- MODULE MCControlRequests -------------------------
EXTENDS ControlRequests, TLC

CONSTANTS r1, r2, r3, r4, k1, k2, k3, home, away

Ask(flaw, route, key, match, remote) ==
    [flaw |-> flaw, route |-> route, key |-> key, match |-> match,
     remote |-> remote]
StopBy(key) == Ask("none", "stop", key, "instance", home)

ThreeRequests == {r1, r2, r3}
TwoKeys == {k1, k2}
TwoRemotes == {home, away}

\* Every check that may refuse a request and every route, each once.
Refusals == {Ask(flaw, "version", "none", "none", home) :
                flaw \in {"url", "host", "options", "auth", "body", "type"}}
Routes == {Ask("none", route, "none", "none", home) :
              route \in {"version", "health", "status", "events", "stop", "unknown"}}
Stops == {Ask("none", "stop", k1, match, home) : match \in {"none", "other"}}

\* Stops that repeat their keys, and refused tokens from two addresses.
RegistryQuery ==
    {StopBy(key) : key \in TwoKeys}
    \cup {Ask("auth", "version", "none", "none", remote) : remote \in TwoRemotes}
AnyQuery == Refusals \cup Routes \cup Stops \cup RegistryQuery
FirstQuery == Refusals \cup Routes \cup Stops \cup {StopBy(k1)}
LaterQuery ==
    RegistryQuery
    \cup {q \in Stops : q.match = "other"}
    \cup {q \in Refusals : q.flaw = "body"}
    \cup {q \in Routes : q.route \in {"version", "events"}}

Asks(r) == CASE r = r1 -> FirstQuery [] r = r2 -> LaterQuery [] r = r3 -> RegistryQuery

\* Requests are interchangeable, so they are numbered as they arrive, and so
\* are keys and addresses; the first asks anything, the second what takes a
\* slot or leaves a trace, the last what the registries remember.
InTurn(r) == /\ r = r2 => run[r1] # "idle"
             /\ r = r3 => run[r2] # "idle"
MCNext == \/ \E r \in Requests : InTurn(r) /\ \E q \in Asks(r) : Arrive(r, q)
          \/ Proceed
MCSpec == Init /\ [][MCNext]_vars /\ Fairness
=============================================================================
