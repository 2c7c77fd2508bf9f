---------------------------- MODULE MCDeciders ----------------------------
(* The two deciders of the repository that must fail closed: the change     *)
(* gate of the repository and the policy engine of the runtime.  They share *)
(* nothing, so a behaviour exercises one of them.                           *)
EXTENDS ScopeVerification, MCRepository, MCPolicyEvaluation

CONSTANTS FlowChanges, StartChanges    \* bounds of the histories

\* The repositories and histories to start from.
HistorySet ==
    {[commits |-> FlowRepository, line |-> <<1>>, left |-> FlowChanges]}
    \cup {[commits |-> TransitionRepository(op, stale),
           line |-> MainLine(op, stale), left |-> StartChanges] :
              op \in Started, stale \in BOOLEAN}
    \cup {[commits |-> TransitionRepository(op, FALSE),
           line |-> Abandoned(op),
           left |-> IF op = "P1-O04" THEN StartChanges + 1 ELSE StartChanges] :
              op \in Started}

\* The instance is one the theorems about the change gate speak of.
ASSUME GateSound ==
    /\ PathsSound
    /\ \A history \in Histories :
        /\ Parented(history.commits)
        /\ Len(history.line) > 0
        /\ \A i \in DOMAIN history.line : history.line[i] \in DOMAIN history.commits

DecidersInit == Init /\ PolicyInit /\ YamlInit
DecidersNext ==
    \/ document = NoText /\ source = None /\ Next /\ UNCHANGED <<policyVars, yamlVars>>
    \/ /\ commits = FlowRepository /\ document = NoText
       /\ PolicyNext /\ UNCHANGED <<vars, yamlVars>>
    \/ /\ commits = FlowRepository /\ source = None
       /\ ParseDocument /\ UNCHANGED <<vars, policyVars>>
DecidersSpec == DecidersInit /\ [][DecidersNext]_<<vars, policyVars, yamlVars>>
=============================================================================
