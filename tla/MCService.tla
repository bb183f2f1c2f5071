----------------------------- MODULE MCService -----------------------------
(***************************************************************************)
(* Configuration files that are served, files that are refused, and the    *)
(* requests that tell the schemas and projections of the former apart.     *)
(***************************************************************************)
EXTENDS Nesting

CONSTANT Half   \* a number that is not whole

\* Key values that read like a segment of a route, like the text of a JSON
\* value, and some that are refused: a digit first, or too long.
MCKeyValues == {"a", "true", "_item", "_items", "_index", "_swagger", "_openapi", "data", "kind"}
MCUrlValues == {"a", "true", "1x", "toolong"}
MCUrlKeyPattern == "idRule"
MCMatches == ("" :> MCKeyValues \cup MCUrlValues) @@
             [any |-> MCKeyValues \cup MCUrlValues, idRule |-> MCKeyValues \cup {"toolong"},
              onlyA |-> {"a"}]
MCTableNames == {"t", "v1", "data", "kind", "by"}
MCFieldNames == {"id", "r", "s", "v", "n", "flag", "x", "y", "q"}
MCJsonKeys == MCFieldNames

\* Bounds of each kind, and the dialect that is the default.
Length(s) == IF s = "true" THEN 4 ELSE 1
MCSatisfies(v, keyword, argument) ==
    CASE keyword = "maximum"   -> v.n <= argument.n
      [] keyword = "maxLength" -> Length(v.s) <= argument.n
      [] keyword = "minItems"  -> Len(v.q) >= argument.n
MCArguments ==
    [k \in {"maximum", "maxLength", "minItems"} |-> {Num(1)}] @@ ("$schema" :> {Str("2020-12")})

Key(field, pattern) == [field |-> field, pattern |-> pattern]
Closed(props, required) ==
    Obj([type |-> Str("object"), additionalProperties |-> Bool(FALSE),
         properties |-> Obj(props), required |-> Arr(required)])
OfType(type) == Obj([type |-> Str(type)])
KeySchema == Obj([type |-> Str("string"), pattern |-> Str("any")])

\* A nested object, an enumerated string, a boolean and a node without a type.
Nested == Closed([x |-> OfType("number"), y |-> OfType("string")], <<>>)
Enumerated == Obj([type |-> Str("string"), enum |-> Arr(<<Str("a"), Str("true")>>)])

Index(name, pk, rk, projection, scan) ==
    [name |-> name, pk |-> pk, rk |-> rk, projection |-> projection, scan |-> scan]
Projection(type, attributes) == [type |-> type, attributes |-> attributes]
TableOf(name, rk, schema, indexes) ==
    [name |-> name, pk |-> Key("id", "any"), rk |-> rk, scan |-> TRUE,
     schema |-> schema, indexes |-> indexes]
File(tables, jwt) == [tables |-> tables, jwt |-> jwt, jwksUrl |-> jwt, swagger |-> TRUE]

\* Every node is typed; an index without a pattern, and one of the nested
\* schema's table that includes a member.
Typed ==
    TableOf("t", NoKey,
            Closed([id |-> KeySchema, v |-> Nested, s |-> Enumerated], <<Str("v")>>),
            <<Index("kind", Key("s", ""), NoKey, Projection("INCLUDE", {"v"}), TRUE)>>)
\* A node without a type, bounds, an empty pattern, and an index by a boolean; its
\* keys only.
Untyped ==
    TableOf("data", NoKey,
            Closed([id |-> KeySchema, n |-> Obj([minItems |-> Num(1)]),
                    s |-> Obj([type |-> Str("string"), pattern |-> Str(""), maxLength |-> Num(1)]),
                    flag |-> OfType("boolean")], <<>>),
            <<Index("data", Key("flag", "any"), Key("s", ""), Projection("KEYS_ONLY", {}), TRUE)>>)
\* A range key, a key that is enumerated, and every member required.
Composite ==
    TableOf("v1", Key("r", "onlyA"),
            Closed([id |-> Enumerated, r |-> KeySchema, v |-> Nested],
                   <<Str("id"), Str("r"), Str("v")>>),
            <<Index("by", Key("v", ""), NoKey, NoKey, FALSE)>>)
EnumWithPattern == Obj(Over([pattern |-> Str("any")], Enumerated.m))
Ranged ==
    [Composite EXCEPT !.schema =
        Closed([id |-> EnumWithPattern, r |-> KeySchema, v |-> Nested],
               <<Str("id"), Str("r"), Str("v")>>)]

\* Schemas of whole documents: one of two, a single one, and all of two members,
\* an integer and a constant among them.
Whole(keywords, fields) == TableOf("t", NoKey, Obj(Over(keywords, Closed(fields, <<>>).m)), <<>>)
Document(x) == Obj([id |-> Str("a"), v |-> Obj([x |-> x, y |-> Str("a")])])
DocumentFields == [id |-> KeySchema, v |-> Nested]
Enumerating ==
    Whole([enum |-> Arr(<<Document(Num(1)), Obj([id |-> Str("a")])>>)], DocumentFields)
Fixed == Whole([const |-> Document(Num(1)), title |-> Str("a")], DocumentFields)
Counted ==
    Whole([minProperties |-> Num(2), maxProperties |-> Num(2)] @@ ("$schema" :> Str("2020-12")),
          [id |-> KeySchema, y |-> Obj([type |-> Str("integer"), maximum |-> Num(1)]),
           s |-> Obj([const |-> Str("a")])])

Served == {File(<<Typed>>, TRUE), File(<<Untyped, Typed>>, FALSE), File(<<Ranged>>, FALSE)}
          \cup {File(<<t>>, FALSE) : t \in {Enumerating, Fixed, Counted}}

Twice == <<Typed.indexes[1], Typed.indexes[1]>>
Open == Obj([n |-> Obj([properties |-> Obj(<<>>)])])
WithSchema(schema) == [Typed EXCEPT !.schema = schema]
Refused ==
    {File(<<>>, FALSE),
     File(<<Typed, Typed>>, FALSE),
     File(<<Composite>>, FALSE),
     File(<<[Typed EXCEPT !.indexes = Twice]>>, FALSE),
     File(<<[Typed EXCEPT !.indexes[1].projection = Projection("ALL", {"v"})]>>, FALSE),
     File(<<[Typed EXCEPT !.indexes[1].pk.field = "id"]>>, FALSE),
     File(<<WithSchema(OfType("object"))>>, FALSE),
     File(<<WithSchema(Closed([id |-> KeySchema, n |-> OfType("strange")], <<>>))>>, FALSE),
     File(<<WithSchema(Closed([id |-> KeySchema], <<Str("id"), Str("id")>>))>>, FALSE),
     File(<<Whole([minProperties |-> Num(Half)], DocumentFields)>>, FALSE),
     File(<<Whole("$schema" :> Str("unknown"), DocumentFields)>>, FALSE),
     File(<<Whole([contains |-> Obj(<<>>)], DocumentFields)>>, FALSE),
     [File(<<Typed>>, TRUE) EXCEPT !.jwksUrl = FALSE]}
MCFiles == Served \cup Refused

X == Num(1)
TooLong == Document(Num(2))
LongPatch == Obj([id |-> Str("a"), v |-> Obj([x |-> Num(2)])])
MCUnread == {TooLong, LongPatch}
MCPutBodies ==
    {Str("a"), TooLong,
     Obj([id |-> Str("a"), y |-> X]),
     Obj([id |-> Str("a"), y |-> Num(Half)]),
     Obj([v |-> Obj([x |-> X])]),
     Obj([id |-> Str("a"), v |-> Obj([x |-> X, y |-> Str("a")])]),
     Obj([id |-> Str("a"), v |-> Obj([x |-> X, y |-> Str("a")]), s |-> Str("a")]),
     Obj([n |-> Obj([q |-> Obj([x |-> X])]), flag |-> Bool(TRUE), s |-> Str("a")]),
     Obj([id |-> Str("a"), n |-> Arr(<<Obj([_x |-> X])>>)]),
     Obj([id |-> Str("a"), r |-> Str("a"), v |-> Obj([y |-> Str("a")])]),
     Obj([id |-> Str("true"), r |-> Str("a"), v |-> Obj(<<>>)])}
Patch1(m) == Obj(Over([id |-> Str("a")], m))
Patch2(m) == Patch1(Over([r |-> Str("a")], m))
MCPatchBodies ==
    {Obj([v |-> Obj(<<>>)]),
     LongPatch,
     Patch1(<<>>),
     Patch1([y |-> Null, s |-> Str("a")]),
     Patch1([v |-> Obj([x |-> Null, y |-> Str("b")])]),
     Patch1([v |-> Obj([q |-> X])]),
     Patch1([v |-> X]),
     Patch1([v |-> Null]),
     Patch1([s |-> Null]),
     Patch1([s |-> Str("true"), q |-> Null]),
     Patch1([n |-> Null]),
     Patch1([n |-> Obj([q |-> Null])]),
     Patch1([n |-> Obj([_x |-> X])]),
     Patch2([v |-> Obj([x |-> X, y |-> Null])]),
     Patch2([v |-> Null])}
MCFieldSets == {{}, {"n", "s"}}

\* What the proofs suppose of the functions below the outermost level, for
\* every document that a body holds and every node of a schema that is served.
RECURSIVE Within(_)
Within(v) ==
    {v} \cup CASE IsObj(v)      -> UNION {Within(v.m[k]) : k \in DOMAIN v.m}
              [] v.t = "array" -> UNION {Within(v.q[i]) : i \in DOMAIN v.q}
              [] OTHER         -> {}
MCDocuments == UNION {Within(v) : v \in MCPutBodies \cup MCPatchBodies}
MCObjects == {v \in MCDocuments : IsObj(v)}
RECURSIVE Nodes(_)
Nodes(n) == {n} \cup UNION {Nodes(Properties(n)[p].m) : p \in DOMAIN Properties(n)}
MCNodes == UNION {Nodes(f.tables[1].schema.m) : f \in Served}

ASSUME NamesAgreeAtEveryDepth ==
    /\ \A v \in MCDocuments : NestedLegal(v) <=> NestedNames(v) \subseteq MCJsonKeys
    /\ \A v, w \in MCObjects :
          NestedNames(Obj(NestedMerge(v.m, w.m))) \subseteq NestedNames(v) \cup NestedNames(w)
ASSUME NothingUnsaidAtEveryDepth ==
    \A n \in MCNodes, v \in MCDocuments :
        NestedValid(n) /\ NestedTyped(n) /\ NestedAccepts(n, v) => ~NestedUndeclared(n, v)
ASSUME MergesAgreeAtEveryDepth ==
    \A target, patch \in MCDocuments :
        /\ NestedJson(patch)
        /\ ~IsObj(patch) => NestedRfc(target, patch) = patch
        /\ IsObj(patch) /\ ~IsObj(target) /\ ~NestedHoldsNull(patch) =>
              NestedRfc(target, patch) = patch
        /\ IsObj(patch) /\ IsObj(target) /\ ~NestedNullsMeet(target.m, patch.m) =>
              NestedRfc(target, patch) = Obj(NestedMerge(target.m, patch.m))
=============================================================================
