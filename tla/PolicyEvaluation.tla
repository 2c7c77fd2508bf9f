------------------------- MODULE PolicyEvaluation -------------------------
(***************************************************************************)
(* packages/policy: a policy set is compiled, kept in a snapshot with its  *)
(* hash, and evaluated against an input.  A name is a number that stands   *)
(* for its place in code unit order, a string a sequence of such numbers,  *)
(* a JSON value has a kind and a content, and a hash is what it was        *)
(* computed from.  The keys, patterns and lengths of a source are          *)
(* abstracted to `form`: the code of the failure they give, or "ok".       *)
(***************************************************************************)
EXTENDS Integers, Sequences, FiniteSets, SequencesExt

CONSTANTS
    Sources,       \* the values that are compiled
    Inputs,        \* the evaluation inputs
    SnapshotIds,
    Replacements,  \* what a stored snapshot's policy set may be replaced by
    Height,        \* condition -> how deep it nests; a JSON value is finite
    ConditionDepth, \* how deep conditions may nest below the first; four
    MaxConditions, \* the conditions of one all or any; 32
    None           \* a field or value that is absent

VARIABLES
    source, compiled, \* the value that was compiled, and the result
    snapshot,         \* the snapshot made of it
    given, input,     \* what evaluatePolicy was called with
    decision          \* and returned

policyVars == <<source, compiled, snapshot, given, input, decision>>

Conditions == DOMAIN Height
\* The conditions that a condition is made of.
Parts(c) == IF c.operator \in {"all", "any"} THEN ToSet(c.conditions)
            ELSE IF c.operator = "not" THEN {c.condition} ELSE {}

ASSUME ConditionsAssumption ==
    /\ Height \in [Conditions -> Nat] /\ ConditionDepth \in Nat
    /\ \A c \in Conditions :
          /\ c.operator \in {"all", "any"} => c.conditions \in Seq(Conditions)
          /\ \A part \in Parts(c) : part \in Conditions /\ Height[part] < Height[c]

Levels == {"PROCESS_RESTRICTED", "OS_SANDBOXED", "CONTAINER_ISOLATED",
           "REMOTE_ISOLATED"}
NoRequirements == [permissionScopes |-> None, minimumIsolationLevel |-> None,
                   timeoutMs |-> None, maxConcurrency |-> None,
                   postVerificationRequired |-> None]

Optional(S) == S \cup {None}
Requirements == [permissionScopes : Optional(Seq(Nat)),
                 minimumIsolationLevel : Optional(STRING),
                 timeoutMs : Optional(Int), maxConcurrency : Optional(Int),
                 postVerificationRequired : Optional(BOOLEAN)]
Rules == [form : STRING, ruleId : Nat, domain : Nat, action : Nat,
          subjectTypes : Seq(Nat), resourceTypes : Seq(Nat), when : Conditions,
          ruleEffect : {"ALLOW", "DENY"}, requirements : Requirements,
          reasonCode : Nat]
PolicySetType(set) ==
    /\ set \in [form : STRING, policySetId : Nat, version : Nat,
                constants : {set.constants}, rules : Seq(Rules)]
    /\ \A n \in DOMAIN set.constants : set.constants[n] # None
InputReferences == {"action", "domain", "subjectType", "resourceType",
    "riskClass", "dataClassification", "direction", "authorityMutation",
    "controlVerified", "permissionScopes", "capabilityIds"}

ASSUME ValuesAssumption ==
    /\ None \notin Sources \cup Seq(Nat) \cup Levels \cup {"CONFLICT"} \cup Int
                      \cup BOOLEAN
    /\ \A set \in Sources \cup Replacements : PolicySetType(set)
    /\ \A in \in Inputs : in.form = "ok" =>
          \A reference \in InputReferences : in[reference] # None

\* The first of a sequence of checks that fails.
FirstFault(checks) ==
    LET failed == {i \in DOMAIN checks : checks[i] # "ok"}
    IN  IF failed = {} THEN "ok" ELSE checks[Min(failed)]
Unless(good, code) == IF good THEN "ok" ELSE code
-----------------------------------------------------------------------------
(* Compilation.                                                            *)

\* The elements of a sequence by their keys; equal keys keep their order.
InOrder(s, keys) ==
    LET before(i) == {j \in DOMAIN s : keys[j] < keys[i] \/ (keys[j] = keys[i] /\ j < i)}
    IN  [n \in DOMAIN s |-> s[CHOOSE i \in DOMAIN s : Cardinality(before(i)) = n - 1]]
Sorted(names) == InOrder(names, names)
sortedUniqueStrings(names) == Unless(IsInjective(names), "INVALID_POLICY_SET")

RequirementsFault(r) ==
    LET Positive(n) == Unless(n = None \/ n >= 1, "INVALID_REQUIREMENTS") IN
    FirstFault(<<
        IF r.permissionScopes = None THEN "ok"
        ELSE sortedUniqueStrings(r.permissionScopes),
        Unless(r.minimumIsolationLevel \in Levels \cup {None},
               "INVALID_REQUIREMENTS"),
        Positive(r.timeoutMs), Positive(r.maxConcurrency)>>)

LeafOperators == {"eq", "notEq", "in", "contains", "lt", "lte", "gt", "gte",
                  "exists", "startsWith", "setSubset", "setIntersects"}

\* A reference is a field of the input or a declared constant.
KnownReference(c, constants) ==
    c.reference \in (IF c.namespace = "constant" THEN DOMAIN constants
                     ELSE InputReferences)

\* How compileCondition fails on a condition, by the depth that remains.
ConditionFault(constants) ==
    LET fault[depth \in -1 .. ConditionDepth] == [c \in Conditions |->
            IF depth < 0 THEN "INVALID_CONDITION"
            ELSE IF /\ c.operator \in {"all", "any"}
                    /\ Len(c.conditions) \in 1..MaxConditions
            THEN FirstFault([i \in DOMAIN c.conditions |->
                                fault[depth - 1][c.conditions[i]]])
            ELSE IF c.operator = "not" THEN fault[depth - 1][c.condition]
            ELSE IF c.operator \in LeafOperators
            THEN FirstFault(<<
                    Unless(KnownReference(c, constants), "INVALID_REFERENCE"),
                    Unless((c.operator = "exists") = (c.operand = None),
                           "INVALID_CONDITION")>>)
            ELSE "INVALID_CONDITION"]
    IN  fault

RuleFault(rule, constants) ==
    FirstFault(<<rule.form, sortedUniqueStrings(rule.subjectTypes),
                 sortedUniqueStrings(rule.resourceTypes),
                 ConditionFault(constants)[ConditionDepth][rule.when],
                 RequirementsFault(rule.requirements)>>)
compileRule(rule) ==
    [rule EXCEPT !.subjectTypes = Sorted(@), !.resourceTypes = Sorted(@),
        !.requirements.permissionScopes = IF @ = None THEN None ELSE Sorted(@)]

\* Mutant of RuleOrder: the rules stay in the order of the source.
SourceOrder(rules) == rules
RuleOrder(rules) == InOrder(rules, [i \in DOMAIN rules |-> rules[i].ruleId])

\* Two values have one canonical form and one hash only if they are equal.
hashPolicyValue(value) == [sha256 |-> value]

compilePolicySet(value) ==
    LET fault == FirstFault(
            <<value.form>>
            \o [i \in DOMAIN value.rules |->
                   RuleFault(value.rules[i], value.constants)]
            \o <<Unless(IsInjective([i \in DOMAIN value.rules |->
                                        value.rules[i].ruleId]),
                        "INVALID_POLICY_SET")>>)
        rules == [i \in DOMAIN value.rules |-> compileRule(value.rules[i])]
        set == [value EXCEPT !.rules = RuleOrder(rules)]
    IN  IF fault # "ok" THEN [ok |-> FALSE, code |-> fault]
        ELSE [ok |-> TRUE, value |-> set, sha256 |-> hashPolicyValue(set)]

createPolicySnapshot(policy, id) ==
    [form |-> "ok", snapshotId |-> id, policySetId |-> policy.policySetId,
     policyVersion |-> policy.version, policyHash |-> hashPolicyValue(policy),
     compiledPolicySet |-> policy]
-----------------------------------------------------------------------------
(* Conditions.                                                             *)

\* The value a reference stands for, None when it is undefined.
referencedValue(c, in, constants) ==
    IF c.namespace = "constant"
    THEN IF c.reference \in DOMAIN constants THEN constants[c.reference] ELSE None
    ELSE in[c.reference]

sameJsonType(left, right) == left.kind = right.kind
equalJson(left, right) == sameJsonType(left, right) /\ left.content = right.content
Both(type, actual, expected) == actual.kind = type /\ expected.kind = type
Among(item, items) == \E i \in DOMAIN items : equalJson(item, items[i])

\* Whether an operator is defined for two values ...
Typed(operator, actual, expected) ==
    \/ operator = "exists"
    \/ operator \in {"eq", "notEq"} /\ sameJsonType(actual, expected)
    \/ operator = "in" /\ expected.kind = "array"
    \/ operator = "contains" /\ (Both("string", actual, expected) \/ actual.kind = "array")
    \/ operator \in {"lt", "lte", "gt", "gte"} /\ Both("number", actual, expected)
    \/ operator = "startsWith" /\ Both("string", actual, expected)
    \/ operator \in {"setSubset", "setIntersects"} /\ Both("array", actual, expected)

\* ... and holds of them.
Holds(operator, actual, expected) ==
    LET a == actual.content
        e == expected.content
    IN  \/ operator = "exists"
        \/ operator = "eq" /\ equalJson(actual, expected)
        \/ operator = "notEq" /\ ~equalJson(actual, expected)
        \/ operator = "in" /\ Among(actual, e)
        \/ operator = "contains" /\ IF actual.kind = "array" THEN Among(expected, a)
                                    ELSE e \in SubSeqs(a)
        \/ operator = "lt" /\ a < e
        \/ operator = "lte" /\ a <= e
        \/ operator = "gt" /\ a > e
        \/ operator = "gte" /\ a >= e
        \/ operator = "startsWith" /\ IsPrefix(e, a)
        \/ operator = "setSubset" /\ \A i \in DOMAIN a : Among(a[i], e)
        \/ operator = "setIntersects" /\ \E i \in DOMAIN a : Among(a[i], e)

Mismatch == [ok |-> FALSE, matched |-> FALSE]
Match(b) == [ok |-> TRUE, matched |-> b]

\* Mutant of Combine: an alternative that matches hides one that is undefined.
CombineLazily(operator, results) ==
    IF operator = "any" /\ Match(TRUE) \in results THEN Match(TRUE)
    ELSE IF Mismatch \in results THEN Mismatch
    ELSE Match(IF operator = "all" THEN Match(FALSE) \notin results
               ELSE Match(TRUE) \in results)
Combine(operator, results) ==
    IF Mismatch \in results THEN Mismatch
    ELSE Match(IF operator = "all" THEN Match(FALSE) \notin results
               ELSE Match(TRUE) \in results)

evaluateCondition(in, constants) ==
    LET result[c \in Conditions] ==
            IF c.operator \in {"all", "any"}
            THEN Combine(c.operator, {result[part] : part \in Parts(c)})
            ELSE IF c.operator = "not"
            THEN [ok |-> result[c.condition].ok,
                  matched |-> result[c.condition].ok /\ ~result[c.condition].matched]
            ELSE LET actual == referencedValue(c, in, constants)
                 IN  IF actual # None /\ Typed(c.operator, actual, c.operand)
                     THEN Match(Holds(c.operator, actual, c.operand)) ELSE Mismatch
    IN  result
-----------------------------------------------------------------------------
(* Decisions.                                                              *)

hardInvariantViolations(in) ==
    {v \in {"NO_DIRECT_AUTHORITY_WRITE", "R4_REQUIRES_VERIFIED_CONTROL",
            "NO_SECRET_OUTBOUND"} :
        CASE v = "NO_DIRECT_AUTHORITY_WRITE" -> in.authorityMutation.content
          [] v = "R4_REQUIRES_VERIFIED_CONTROL" ->
               in.riskClass.content = "R4" /\ ~in.controlVerified.content
          [] v = "NO_SECRET_OUTBOUND" ->
               /\ in.dataClassification.content = "SECRET"
               /\ in.direction.content = "OUTBOUND"}

\* Two different levels above the weakest one conflict, and stay in conflict.
MergeIsolation(level, candidate) ==
    IF candidate = None THEN level
    ELSE IF level \in {None, "PROCESS_RESTRICTED"} THEN candidate
    ELSE IF candidate \in {level, "PROCESS_RESTRICTED"} THEN level
    ELSE "CONFLICT"
\* Mutant of MergeBound: the most generous bound wins.
MergeBoundMax(bound, n) ==
    IF n = None \/ (bound # None /\ bound > n) THEN bound ELSE n
MergeBound(bound, n) ==
    IF n = None \/ (bound # None /\ bound < n) THEN bound ELSE n
ScopesOf(r) == IF r.permissionScopes = None THEN {} ELSE ToSet(r.permissionScopes)

NothingMerged == [scopes |-> {}, level |-> None, timeoutMs |-> None,
                  maxConcurrency |-> None, verify |-> FALSE]
MergeOne(m, r) ==
    [scopes |-> m.scopes \cup ScopesOf(r),
     level |-> MergeIsolation(m.level, r.minimumIsolationLevel),
     timeoutMs |-> MergeBound(m.timeoutMs, r.timeoutMs),
     maxConcurrency |-> MergeBound(m.maxConcurrency, r.maxConcurrency),
     verify |-> m.verify \/ r.postVerificationRequired = TRUE]
\* The requirements of those of the rules that allow, one after another.
MergedUpTo(rules, allowed) ==
    LET merged[n \in 0 .. Len(rules)] ==
            IF n = 0 THEN NothingMerged
            ELSE IF rules[n] \in allowed
            THEN MergeOne(merged[n - 1], rules[n].requirements)
            ELSE merged[n - 1]
    IN  merged
mergeRequirements(rules, allowed) ==
    LET m == MergedUpTo(rules, allowed)[Len(rules)]
    IN  [permissionScopes |-> IF m.scopes = {} THEN None ELSE Sorted(SetToSeq(m.scopes)),
         minimumIsolationLevel |-> m.level,
         timeoutMs |-> m.timeoutMs, maxConcurrency |-> m.maxConcurrency,
         postVerificationRequired |-> IF m.verify THEN TRUE ELSE None]

\* createDecision; ids and reasons are sorted and without duplicates.
Decision(outcome, rules, invariants, requirements, reasons) ==
    [outcome |-> outcome, matchedRuleIds |-> {r.ruleId : r \in rules},
     hardInvariantIds |-> invariants, requirements |-> requirements,
     reasonCodes |-> reasons]
Indeterminate(rules, reason) ==
    Decision("INDETERMINATE", rules, {}, NoRequirements, {reason})
Deny(rules, invariants, reasons) ==
    Decision("DENY", rules, invariants, NoRequirements, reasons)

Applies(rule, in) ==
    /\ in.domain.content = <<rule.domain>> /\ in.action.content = <<rule.action>>
    /\ \E t \in ToSet(rule.subjectTypes) : in.subjectType.content = <<t>>
    /\ \E t \in ToSet(rule.resourceTypes) : in.resourceType.content = <<t>>

\* Every field is there and in its range, and no other field.
validateInput(in) == in.form = "ok"

\* A snapshot must carry the hash of what its policy set compiles to.
validateSnapshot(snap, in, policy) ==
    /\ snap.form = "ok" /\ snap.snapshotId = in.policySnapshotId
    /\ snap.policySetId = policy.value.policySetId
    /\ snap.policyVersion = policy.value.version
    /\ snap.policyHash = policy.sha256

\* The rules in their order, up to one whose condition is undefined.
Evaluate(set, in) ==
    LET rules == set.rules
        result == evaluateCondition(in, set.constants)
        applicable == {i \in DOMAIN rules : Applies(rules[i], in)}
        undefined == {i \in applicable : ~result[rules[i].when].ok}
        matching == {i \in applicable : /\ result[rules[i].when].matched
                                        /\ \A j \in undefined : i < j}
        matched == {rules[i] : i \in matching}
        denied == {r \in matched : r.ruleEffect = "DENY"}
        allowed == {r \in matched : r.ruleEffect = "ALLOW"}
        merged == mergeRequirements(rules, allowed)
    IN  IF undefined # {} THEN Indeterminate(matched, "CONDITION_TYPE_MISMATCH")
        ELSE IF denied # {}
        THEN Deny(matched, {}, {r.reasonCode : r \in denied})
        ELSE IF allowed = {} THEN Deny({}, {}, {"DEFAULT_DENY"})
        ELSE IF merged.minimumIsolationLevel = "CONFLICT"
        THEN Indeterminate(allowed, "REQUIREMENTS_CONFLICT")
        ELSE Decision(IF merged = NoRequirements THEN "ALLOW"
                      ELSE "ALLOW_WITH_REQUIREMENTS",
                      allowed, {}, merged, {})

\* The policy set of the snapshot is compiled again before it is used.
evaluatePolicy(snap, in) ==
    LET again == compilePolicySet(snap.compiledPolicySet) IN
    IF "INVALID_EVALUATION_VALUE" \in {snap.form, in.form}
    THEN Indeterminate({}, "INVALID_EVALUATION_VALUE")
    ELSE IF ~validateInput(in) THEN Indeterminate({}, "INVALID_EVALUATION_INPUT")
    ELSE IF ~again.ok THEN Indeterminate({}, "INVALID_POLICY_SNAPSHOT")
    ELSE IF ~validateSnapshot(snap, in, again)
    THEN Indeterminate({}, "INVALID_POLICY_SNAPSHOT")
    ELSE IF hardInvariantViolations(in) # {}
    THEN Deny({}, hardInvariantViolations(in), {"HARD_INVARIANT_VIOLATION"})
    ELSE Evaluate(again.value, in)
-----------------------------------------------------------------------------
(* The operations.                                                         *)

PolicyInit ==
    /\ source = None /\ compiled = None /\ snapshot = None
    /\ given = None /\ input = None /\ decision = None

Compile ==
    /\ source = None
    /\ source' \in Sources
    /\ compiled' = compilePolicySet(source')
    /\ UNCHANGED <<snapshot, given, input, decision>>

CreateSnapshot ==
    /\ compiled # None /\ snapshot = None
    /\ compiled.ok
    /\ \E id \in SnapshotIds :
        snapshot' = createPolicySnapshot(compiled.value, id)
    /\ UNCHANGED <<source, compiled, given, input, decision>>

\* What a snapshot that was stored may come back as.
Presented ==
    {snapshot, [snapshot EXCEPT !.compiledPolicySet.rules = Reverse(@)],
     [snapshot EXCEPT !.form = "INVALID_EVALUATION_VALUE"]}
    \cup {[snapshot EXCEPT !.compiledPolicySet = other] : other \in Replacements}

EvaluatePolicy ==
    /\ snapshot # None /\ decision = None
    /\ given' \in Presented /\ input' \in Inputs
    /\ decision' = evaluatePolicy(given', input')
    /\ UNCHANGED <<source, compiled, snapshot>>

PolicyNext == Compile \/ CreateSnapshot \/ EvaluatePolicy

PolicySpec == PolicyInit /\ [][PolicyNext]_policyVars
-----------------------------------------------------------------------------
(* What a decision should be, over sets of rules and leaves of conditions. *)

LeavesOf[c \in Conditions] ==
    IF Parts(c) = {} THEN {c} ELSE UNION {LeavesOf[part] : part \in Parts(c)}
Satisfied(in, constants) ==
    LET satisfied[c \in Conditions] ==
            IF c.operator = "all" THEN \A part \in Parts(c) : satisfied[part]
            ELSE IF c.operator = "any" THEN \E part \in Parts(c) : satisfied[part]
            ELSE IF c.operator = "not" THEN ~satisfied[c.condition]
            ELSE Holds(c.operator, referencedValue(c, in, constants), c.operand)
    IN  satisfied
Defined(c, in, constants) ==
    \A l \in LeavesOf[c] :
        Typed(l.operator, referencedValue(l, in, constants), l.operand)

Relevant == {r \in ToSet(given.compiledPolicySet.rules) : Applies(r, input)}
Matching(effect) ==
    {r \in Relevant : /\ r.ruleEffect = effect
                      /\ Satisfied(input, given.compiledPolicySet.constants)[r.when]}
Demands(field) == {r.requirements[field] : r \in Matching("ALLOW")} \ {None}
StrongLevels == Demands("minimumIsolationLevel") \ {"PROCESS_RESTRICTED"}

Trusted ==
    /\ given.form = "ok" /\ input.form = "ok"
    /\ input.policySnapshotId = given.snapshotId
    /\ compilePolicySet(given.compiledPolicySet) = compiled

\* The outcome is the one the rules give as a set: a hard invariant denies
\* whatever they say; a condition that is undefined anywhere, even under an
\* any or a not, and in a rule after one that denies, makes no decision; one
\* matching DENY denies; without a matching ALLOW the default denies; two
\* isolation levels that cannot both be met make no decision.
FailClosed ==
    decision # None =>
        decision.outcome =
            CASE ~Trusted -> "INDETERMINATE"
              [] Trusted /\ hardInvariantViolations(input) # {} -> "DENY"
              [] OTHER ->
                IF \E r \in Relevant : ~Defined(r.when, input,
                                         given.compiledPolicySet.constants)
                THEN "INDETERMINATE"
                ELSE IF Matching("DENY") # {} \/ Matching("ALLOW") = {}
                THEN "DENY"
                ELSE IF Cardinality(StrongLevels) > 1 THEN "INDETERMINATE"
                ELSE IF \E r \in Matching("ALLOW") :
                           r.requirements \notin
                               {[NoRequirements EXCEPT
                                     !.permissionScopes = scopes,
                                     !.postVerificationRequired = flag] :
                                scopes \in {None, <<>>}, flag \in {None, FALSE}}
                THEN "ALLOW_WITH_REQUIREMENTS" ELSE "ALLOW"

\* The ways to list the same rules.
Orders(rules) == {[i \in DOMAIN rules |-> rules[p[i]]] :
                     p \in Injection(DOMAIN rules, DOMAIN rules)}

\* The order in which a source lists its rules changes neither what it compiles
\* to and hence its hash, nor any part of a decision.
OrderIrrelevant ==
    /\ source # None /\ compiled.ok =>
          \A order \in Orders(source.rules) :
              compilePolicySet([source EXCEPT !.rules = order]) = compiled
    /\ decision # None =>
          \A order \in Orders(given.compiledPolicySet.rules) :
              evaluatePolicy([given EXCEPT !.compiledPolicySet.rules = order],
                             input) = decision

\* Who is allowed meets the requirements of every rule that allowed it, and no
\* more than those: all scopes, the shortest timeout, the least concurrency,
\* the strongest isolation, and a verification if any rule asks for one.
RequirementsStrict ==
    decision # None /\ decision.outcome \in {"ALLOW", "ALLOW_WITH_REQUIREMENTS"} =>
        LET merged == decision.requirements
            Least(field) == IF Demands(field) = {} THEN merged[field] = None
                            ELSE merged[field] = Min(Demands(field))
        IN  /\ ToSet(IF merged.permissionScopes = None THEN <<>>
                     ELSE merged.permissionScopes)
                = UNION {ToSet(s) : s \in Demands("permissionScopes")}
            /\ Least("timeoutMs") /\ Least("maxConcurrency")
            /\ merged.minimumIsolationLevel \in
                 IF StrongLevels # {} THEN StrongLevels
                 ELSE IF Demands("minimumIsolationLevel") # {}
                 THEN {"PROCESS_RESTRICTED"} ELSE {None}
            /\ merged.postVerificationRequired = TRUE
                 <=> TRUE \in Demands("postVerificationRequired")
=============================================================================
