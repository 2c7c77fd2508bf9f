--------------------------- MODULE RestrictedYaml ---------------------------
(***************************************************************************)
(* The restricted YAML reader of packages/policy: one value per document,  *)
(* two spaces per level, block sequences and mappings only.  A line is its *)
(* indentation, whether it starts with "-", and the key and the scalar     *)
(* after that.  What a scalar's text means is abstracted.                  *)
(***************************************************************************)
EXTENDS Integers, Sequences, FiniteSets, SequencesExt

CONSTANTS Documents,     \* the documents that are read
          Keys, Scalars, \* the keys and the scalars of the documents
          Unreadable, \* the scalars that are no JSON scalar or too long
          MaxLines, MaxDepth, MaxNodes, \* the limits of the same names
          NoText       \* the key or the scalar that a line has not

VARIABLES document, parsed \* the document that was read, and its value

yamlVars == <<document, parsed>>

Line == [indent : Nat, dash : BOOLEAN,
         key : Keys \cup {NoText}, scalar : Scalars \cup {NoText}]

\* A document is a sequence, a mapping or (within one of them) a scalar.
Scalar(s) == [kind |-> "scalar", of |-> s]
Sequence(items) == [kind |-> "sequence", of |-> items]
Mapping(entries) == [kind |-> "mapping", of |-> entries]
EmptyMapping == [k \in {} |-> NoText]

Fail(code) == [fault |-> code, value |-> NoText, next |-> 0, nodes |-> 0]
Parsed(value, next, nodes) ==
    [fault |-> "ok", value |-> value, next |-> next, nodes |-> nodes]

\* Whether line i of ls stands at this level and is, or is not, an item.
At(ls, i, indent) == i <= Len(ls) /\ ls[i].indent = indent
ItemAt(ls, i, indent) == At(ls, i, indent) /\ ls[i].dash
EntryAt(ls, i, indent) == At(ls, i, indent) /\ ~ls[i].dash

RECURSIVE parseYamlNode(_, _, _, _, _), Items(_, _, _, _, _, _),
          Entries(_, _, _, _, _, _)

\* Below a line without a scalar the next line must be further in.
Child(ls, i, indent, depth, nodes) ==
    IF At(ls, i, indent) THEN parseYamlNode(ls, i, indent, depth, nodes)
    ELSE Fail("INVALID_YAML")

\* parseScalar.
ScalarAt(ls, i, nodes) ==
    IF ls[i].scalar \in Unreadable THEN Fail("INVALID_YAML")
    ELSE Parsed(Scalar(ls[i].scalar), i + 1, nodes)

\* The node at line i; a level below it ends where the indentation does.
parseYamlNode(ls, i, indent, depth, nodes) ==
    CASE depth > MaxDepth -> Fail("YAML_LIMIT_EXCEEDED")
      [] depth <= MaxDepth /\ ~At(ls, i, indent) -> Fail("INVALID_YAML")
      [] depth <= MaxDepth /\ ItemAt(ls, i, indent) ->
           Items(ls, i, indent, depth, nodes, <<>>)
      [] depth <= MaxDepth /\ EntryAt(ls, i, indent) ->
           Entries(ls, i, indent, depth, nodes, EmptyMapping)

\* The entry of line i, whose child stands `below` and is `deeper`.
Entry(ls, i, below, deeper, nodes) ==
    IF ls[i].scalar # NoText THEN ScalarAt(ls, i, nodes)
    ELSE Child(ls, i + 1, below, deeper, nodes)

\* A mapping that began on the item's line goes on with the lines below it.
Joined(first, key, tail) ==
    IF tail.fault # "ok" THEN tail
    ELSE IF key \in DOMAIN tail.value.of THEN Fail("INVALID_YAML")
    ELSE [tail EXCEPT !.value = Mapping(
             [k \in DOMAIN tail.value.of \cup {key} |->
                 IF k = key THEN first.value ELSE tail.value.of[k]])]

\* One item: "-" with its child below, "- key: ..." or "- scalar".
Item(ls, i, indent, depth, nodes) ==
    LET key == ls[i].key
        first == Entry(ls, i, indent + 4, depth + 2, nodes)
    IN  IF key = NoText /\ ls[i].scalar = NoText
        THEN Child(ls, i + 1, indent + 2, depth + 1, nodes)
        ELSE IF key = NoText THEN ScalarAt(ls, i, nodes)
        ELSE IF first.fault = "ok" /\ EntryAt(ls, first.next, indent + 2)
        THEN Joined(first, key, parseYamlNode(ls, first.next, indent + 2,
                                              depth + 1, first.nodes))
        ELSE IF first.fault = "ok"
        THEN [first EXCEPT !.value = Mapping([k \in {key} |-> first.value])]
        ELSE first

Items(ls, i, indent, depth, nodes, items) ==
    LET item == Item(ls, i, indent, depth, nodes + 1)
    IN  IF ~ItemAt(ls, i, indent) THEN Parsed(Sequence(items), i, nodes)
        ELSE IF nodes + 1 > MaxNodes THEN Fail("YAML_LIMIT_EXCEEDED")
        ELSE IF item.fault # "ok" THEN item
        ELSE Items(ls, item.next, indent, depth, item.nodes,
                   Append(items, item.value))

Entries(ls, i, indent, depth, nodes, entries) ==
    LET key == ls[i].key
        entry == Entry(ls, i, indent + 2, depth + 1, nodes + 1)
    IN  IF ~EntryAt(ls, i, indent) THEN Parsed(Mapping(entries), i, nodes)
        ELSE IF nodes + 1 > MaxNodes THEN Fail("YAML_LIMIT_EXCEEDED")
        ELSE IF key = NoText \/ key \in DOMAIN entries
        THEN Fail("INVALID_YAML")
        ELSE IF entry.fault # "ok" THEN entry
        ELSE Entries(ls, entry.next, indent, depth, entry.nodes,
                     [k \in DOMAIN entries \cup {key} |->
                         IF k = key THEN entry.value ELSE entries[k]])

\* Mutant of parseRestrictedPolicyYaml: what follows the root is not looked at.
ParsePrefix(ls) ==
    IF ls = <<>> \/ ls[1].indent # 0 THEN Fail("INVALID_YAML")
    ELSE parseYamlNode(ls, 1, 0, 0, 0)
\* Blank lines and comments are not among ls.
parseRestrictedPolicyYaml(ls) ==
    LET root == parseYamlNode(ls, 1, 0, 0, 0)
    IN  IF Len(ls) > MaxLines THEN Fail("YAML_LIMIT_EXCEEDED")
        ELSE IF \/ ls = <<>> \/ ls[1].indent # 0
                \/ \E i \in DOMAIN ls : ls[i].indent % 2 # 0
        THEN Fail("INVALID_YAML")
        ELSE IF root.fault = "ok" /\ root.next # Len(ls) + 1
        THEN Fail("INVALID_YAML")
        ELSE root
-----------------------------------------------------------------------------
(* A reference: how a value is written, and how much a value holds.        *)

RECURSIVE Written(_, _, _), Leaves(_)

\* The lines of a value at a level; a mapping that is an item begins on the
\* item's line or, if not inline, on a line of its own.
Written(v, indent, inline) ==
    LET line(dash, key, scalar, at) == [indent |-> at, dash |-> dash,
                                        key |-> key, scalar |-> scalar]
        entry(key) == LET child == v.of[key] IN
            IF child.kind = "scalar" THEN <<line(FALSE, key, child.of, indent)>>
            ELSE <<line(FALSE, key, NoText, indent)>>
                     \o Written(child, indent + 2, inline)
        item(child) == LET below == Written(child, indent + 2, inline) IN
            IF child.kind = "scalar" THEN <<line(TRUE, NoText, child.of, indent)>>
            ELSE IF inline /\ child.kind = "mapping"
            THEN <<[below[1] EXCEPT !.indent = indent, !.dash = TRUE]>>
                     \o Tail(below)
            ELSE <<line(TRUE, NoText, NoText, indent)>> \o below
    IN  CASE v.kind = "scalar" -> <<>>
          [] v.kind = "sequence" ->
               FlattenSeq([i \in DOMAIN v.of |-> item(v.of[i])])
          [] v.kind = "mapping" -> LET keys == SetToSeq(DOMAIN v.of) IN
               FlattenSeq([i \in DOMAIN keys |-> entry(keys[i])])

\* How many scalars a value holds.
Leaves(v) ==
    LET sum(f) == FoldFunction(LAMBDA n, m : n + m, 0, f)
    IN  IF v.kind = "scalar" THEN 1
        ELSE sum([i \in DOMAIN v.of |-> Leaves(v.of[i])])
-----------------------------------------------------------------------------
(* The operation: a document is read.                                      *)

YamlInit == document = NoText /\ parsed = NoText

ParseDocument ==
    /\ document = NoText
    /\ document' \in Documents
    /\ parsed' = parseRestrictedPolicyYaml(document')

\* A document that is read loses no scalar, and is read the same however its
\* value is laid out: items on a line of their own or on the line of their "-".
YamlFaithful ==
    parsed # NoText /\ parsed.fault = "ok" =>
        /\ Leaves(parsed.value) =
             Cardinality({i \in DOMAIN document : document[i].scalar # NoText})
        /\ \A inline \in BOOLEAN :
             LET again == parseRestrictedPolicyYaml(
                              Written(parsed.value, 0, inline))
             IN  \/ again.fault = "ok" /\ again.value = parsed.value
                 \/ again.fault = "YAML_LIMIT_EXCEEDED"
=============================================================================
