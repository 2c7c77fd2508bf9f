--------------------------- MODULE DataRootLock ---------------------------
(***************************************************************************)
(* What acquireRuntimeLock promises a data root, with no claims, tickets   *)
(* or waiting: the lock file is taken in one step, only if there is none   *)
(* or a dead process left it, and stays its owner's until the owner lets   *)
(* it go or dies.  Module RuntimeLock shows how the code keeps the         *)
(* promise, module ControlRuntime what a runtime builds on it.             *)
(***************************************************************************)
CONSTANTS Owners, \* those who may take the lock, each of them once
          None

VARIABLES file,   \* whose the lock file is, or None
          stage   \* owner -> where it stands with the lock

Moves(i, s) == stage' = [stage EXCEPT ![i] = s]

\* An earlier crash may have left a lock file.
Init ==
    \E left \in SUBSET Owners :
        /\ file \in left \cup {None}
        /\ stage = [i \in Owners |-> IF i \in left THEN "crashed" ELSE "out"]

Acquire(i) ==
    /\ stage[i] = "out"
    /\ file = None \/ stage[file] = "crashed"
    /\ file' = i /\ Moves(i, "in")

\* The lock may be refused to anyone who has not got it.
Refuse(i) ==
    /\ stage[i] = "out"
    /\ UNCHANGED file /\ Moves(i, "over")

Release(i) ==
    /\ stage[i] = "in"
    /\ file' = None /\ Moves(i, "over")

\* What a process was about to do is lost, the file stays.
Crash(dying) ==
    /\ stage' = [i \in Owners |-> IF i \in dying THEN "crashed" ELSE stage[i]]
    /\ UNCHANGED file

Next ==
    \/ \E i \in Owners : Acquire(i) \/ Refuse(i) \/ Release(i)
    \/ \E dying \in SUBSET Owners : Crash(dying)

Spec == Init /\ [][Next]_<<file, stage>>
=============================================================================
