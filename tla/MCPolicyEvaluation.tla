------------------------- MODULE MCPolicyEvaluation -------------------------
(* Bounded documents, policy sets and inputs for PolicyEvaluation.          *)
EXTENDS PolicyEvaluation, RestrictedYaml

CONSTANTS k1, k2, s1, bad

\* Up to three lines of any shape, and longer ones that nest.
Shapes == [indent : {0, 2, 4}, dash : BOOLEAN,
           key : {k1, k2, NoText}, scalar : {s1, NoText}]
OddOrBad == {[indent |-> 1, dash |-> FALSE, key |-> k1, scalar |-> s1],
             [indent |-> 2, dash |-> FALSE, key |-> k1, scalar |-> bad]}
Roots == {l \in Shapes : l.indent = 0}
\* Documents that go deeper, as the two layouts of these values.
Deep == LET leaf == Scalar(s1)
            map(v) == Mapping([k \in {k1} |-> v])
            pair(v, w) == Mapping([k \in {k1, k2} |-> IF k = k1 THEN v ELSE w])
            small == {leaf, map(leaf), Sequence(<<leaf, leaf>>)}
            mid == {map(v) : v \in small} \cup {pair(v, w) : v, w \in small}
                   \cup {Sequence(<<v, w>>) : v, w \in small}
        IN  {Sequence(<<v, leaf>>) : v \in mid} \cup {pair(v, leaf) : v \in mid}
                \cup mid
\* One level and one line more than there may be.
Beyond ==
    {[i \in 1..5 |-> [indent |-> 2 * (i - 1), dash |-> FALSE, key |-> k1,
                      scalar |-> IF i = 5 THEN s1 ELSE NoText]],
     [i \in 1..10 |-> [indent |-> 0, dash |-> TRUE, key |-> NoText, scalar |-> s1]]}
DocumentSet ==
    {<<>>} \cup {<<a>> : a \in Shapes \cup OddOrBad}
    \cup {<<a, b>> : a \in Roots, b \in Shapes \cup OddOrBad}
    \cup {<<a, b, c>> : a \in Roots, b \in Shapes, c \in Shapes}
    \cup {Written(v, 0, inline) : v \in Deep, inline \in BOOLEAN}
    \cup Beyond

\* Policy sets.
String(s) == [kind |-> "string", content |-> s]
Number(n) == [kind |-> "number", content |-> n]
Boolean(b) == [kind |-> "boolean", content |-> b]
Array(a) == [kind |-> "array", content |-> a]
Constants == [n \in {"LIMIT", "GROUP"} |->
                 IF n = "LIMIT" THEN Number(2) ELSE Array(<<String(<<1>>), Number(2)>>)]
On(ref, op, operand) ==
    [namespace |-> IF ref \in DOMAIN Constants \cup {"OTHER"} THEN "constant" ELSE "input",
     operator |-> op, reference |-> ref, operand |-> operand]
Every(a, b) == [operator |-> "all", conditions |-> <<a, b>>]
Some(a, b) == [operator |-> "any", conditions |-> <<a, b>>]
Not(a) == [operator |-> "not", condition |-> a]

Always == On("action", "exists", None)
Never == Not(Always)
Broken == On("action", "lt", Number(1))
Scopes == {On("permissionScopes", op, Array(<<Number(1), String(<<1>>)>>)) :
               op \in {"setSubset", "setIntersects", "eq", "notEq", "in"}}
Leaf == {On("LIMIT", op, Number(n)) : op \in {"lt", "lte", "gt", "gte", "eq", "notEq"},
                                       n \in 1..3}
        \cup {On("action", op, String(s)) :
                 op \in {"eq", "startsWith", "contains", "notEq"},
                 s \in {<<>>, <<1>>, <<1, 2>>}}
        \cup {On("GROUP", "contains", Number(2)), On("action", "in", Constants["GROUP"]),
              On("authorityMutation", "eq", String(<<1>>)),
              On("LIMIT", "startsWith", String(<<>>)), On("GROUP", "setSubset", Number(1)),
              On("OTHER", "exists", None), On("action", "exists", Number(1)),
              On("action", "eq", None), On("action", "matches", Number(1)),
              On("secret", "exists", None)}
        \cup Scopes
Whens == Leaf \cup {Not(l) : l \in Leaf}
         \cup {Every(a, b) : a, b \in {Always, Never, Broken}}
         \cup {Some(a, b) : a, b \in {Always, Never, Broken}}
         \cup {Not(Not(Not(Always))), Some(Not(Not(Never)), Always),
               [operator |-> "all", conditions |-> <<>>],
               [operator |-> "any", conditions |-> <<Always, Always, Always>>]}

\* The conditions of the rules and all that they are made of.
RECURSIVE Within(_), HeightOf(_)
Within(c) == {c} \cup UNION {Within(part) : part \in Parts(c)}
HeightOf(c) == IF Parts(c) = {} THEN 0 ELSE 1 + Max({HeightOf(p) : p \in Parts(c)})
ConditionHeight == [c \in UNION {Within(w) : w \in Whens} |-> HeightOf(c)]

Rule(id, effect, when) ==
    [form |-> "ok", ruleId |-> id, domain |-> 1, action |-> 1,
     subjectTypes |-> <<2, 1>>, resourceTypes |-> <<1>>, when |-> when,
     ruleEffect |-> effect, requirements |-> NoRequirements, reasonCode |-> id]
Requiring(id, field, value) ==
    [Rule(id, "ALLOW", Always) EXCEPT !.requirements[field] = value]
Levelled(id, level) == Requiring(id, "minimumIsolationLevel", level)

\* Rules that meet each other in sets of three.
Peers == {Rule(1, "ALLOW", Always), Rule(2, "DENY", Always), Rule(3, "ALLOW", Broken),
          Rule(4, "ALLOW", Never), [Rule(5, "DENY", Broken) EXCEPT !.subjectTypes = <<3>>],
          Requiring(3, "timeoutMs", 5),
          [Requiring(6, "timeoutMs", 3) EXCEPT !.requirements.maxConcurrency = 2],
          [Requiring(7, "timeoutMs", 9) EXCEPT !.requirements.maxConcurrency = 1],
          Requiring(8, "permissionScopes", <<2, 1>>), Requiring(9, "permissionScopes", <<3, 1>>),
          Requiring(2, "permissionScopes", <<>>),
          Requiring(10, "postVerificationRequired", TRUE),
          Requiring(11, "postVerificationRequired", FALSE),
          Levelled(12, "PROCESS_RESTRICTED"), Levelled(13, "OS_SANDBOXED"),
          Levelled(14, "CONTAINER_ISOLATED"), Levelled(15, "OS_SANDBOXED")}
Refused == {Requiring(1, "timeoutMs", 0), Requiring(1, "maxConcurrency", 0),
            Levelled(1, "NONE"), Requiring(1, "permissionScopes", <<1, 1>>),
            [Rule(1, "ALLOW", Always) EXCEPT !.subjectTypes = <<1, 1>>],
            [Rule(1, "ALLOW", Always) EXCEPT !.form = "INVALID_POLICY_RULE"]}

PolicySet(rules) ==
    [form |-> "ok", policySetId |-> 1, version |-> 1, constants |-> Constants,
     rules |-> rules]
RuleLists == {<<>>} \cup {<<r>> : r \in Refused}
             \cup {<<Rule(1, e, w)>> : e \in {"ALLOW", "DENY"}, w \in Whens}
             \cup {<<a, b>> : a, b \in Peers}
             \cup {<<b, c, a>> : a \in {p \in Peers : p.ruleId < 4},
                                 b, c \in {p \in Peers : p.ruleId >= 3}}
             \cup {<<a, b, c>> : a, b, c \in {p \in Peers : p.ruleId >= 12}}
SourceSet == {PolicySet(l) : l \in RuleLists}
             \cup {[PolicySet(<<>>) EXCEPT !.form = "INVALID_POLICY_VALUE"]}

ReplacementSet == {PolicySet(<<Rule(1, "ALLOW", Always)>>),
                   [PolicySet(<<Rule(1, "ALLOW", Always)>>) EXCEPT !.version = 2]}

Request ==
    [form |-> "ok", policySnapshotId |-> 1,
     domain |-> String(<<1>>), action |-> String(<<1>>),
     subjectType |-> String(<<1>>), resourceType |-> String(<<1>>),
     riskClass |-> String("R1"), dataClassification |-> String("SECRET"),
     direction |-> String("LOCAL"),
     authorityMutation |-> Boolean(FALSE),
     controlVerified |-> Boolean(FALSE),
     permissionScopes |-> Array(<<String(<<1>>)>>), capabilityIds |-> Array(<<>>)]
InputSet ==
    {Request, [Request EXCEPT !.form = "INVALID_EVALUATION_INPUT"],
     [Request EXCEPT !.policySnapshotId = 2], [Request EXCEPT !.action.content = <<2>>],
     [Request EXCEPT !.subjectType.content = <<3>>],
     [Request EXCEPT !.direction.content = "OUTBOUND"],
     [Request EXCEPT !.authorityMutation.content = TRUE],
     [Request EXCEPT !.riskClass.content = "R4"],
     [Request EXCEPT !.riskClass.content = "R4", !.controlVerified.content = TRUE,
                     !.permissionScopes.content = <<>>]}
=============================================================================
