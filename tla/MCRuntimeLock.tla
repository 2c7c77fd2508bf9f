--------------------------- MODULE MCRuntimeLock ---------------------------
(* Bounded instance of RuntimeLock: three attempts, the last one of the same *)
(* PID as the first, which it succeeds: a process that starts again after    *)
(* its first attempt has ended, or a new process with a reused PID.          *)
EXTENDS RuntimeLock

CONSTANTS p1, p2

MCAttempts == 1..3
MCPid == [a \in MCAttempts |-> IF a = 2 THEN p2 ELSE p1]

\* The third attempt follows the first.
InTurn ==
    pc[3] = "idle" /\ pc'[3] # "idle" => pc[1] \in {"rmdir", "done", "dead"}
MCSpec == Init /\ [][Next /\ InTurn]_vars /\ Fairness
=============================================================================
