------------------------------ MODULE OpenApi ------------------------------
(***************************************************************************)
(* The OpenAPI document of a table (internal/swagger/openapi.go): its       *)
(* paths, the schemas of path parameters, request and response bodies, and *)
(* the status codes of each operation.                                     *)
(***************************************************************************)
EXTENDS Configuration

CONSTANT UrlKeyPattern   \* keyValuePathPattern

\* buildPaths: the parameters of a path have the names of the key fields.  An
\* index is told by its place.
Operation(method, op, index, path) ==
    [method |-> method, op |-> op, index |-> index, path |-> path]
TableOperations(t) ==
    LET item == IF HasRK(t)
                THEN <<Lit("v1"), Lit(t.name), Lit("data"), Wild(t.pk.field), Wild(t.rk.field),
                       Lit("_item")>>
                ELSE <<Lit("v1"), Lit(t.name), Lit("data"), Wild(t.pk.field), Lit("_item")>>
    IN  {Operation(m, m, 0, item) : m \in {"PUT", "GET", "PATCH", "DELETE"}}
        \cup {Operation("GET", "list", 0,
                        <<Lit("v1"), Lit(t.name), Lit("data"), Wild(t.pk.field), Lit("_items")>>)}
        \cup (IF t.scan THEN {Operation("GET", "scan", 0, <<Lit("v1"), Lit(t.name), Lit("_items")>>)}
                        ELSE {})
IndexOperations(t, j) ==
    LET i == t.indexes[j] IN
    {Operation("GET", "query", j, <<Lit("v1"), Lit(t.name), Lit("_index"), Lit(i.name),
                                    Wild(i.pk.field), Lit("_items")>>)}
    \cup (IF i.scan THEN {Operation("GET", "scanIndex", j,
                                    <<Lit("v1"), Lit(t.name), Lit("_index"), Lit(i.name),
                                      Lit("_items")>>)}
                    ELSE {})
    \cup (IF HasRK(i) THEN {Operation("GET", "getIndex", j,
                                      <<Lit("v1"), Lit(t.name), Lit("_index"), Lit(i.name),
                                        Wild(i.pk.field), Wild(i.rk.field), Lit("_item")>>)}
                      ELSE {})
Operations(t) ==
    TableOperations(t) \cup UNION {IndexOperations(t, j) : j \in DOMAIN t.indexes}

PropertyOf(t, field) ==
    IF HasObj(Properties(t.schema.m), field) THEN Properties(t.schema.m)[field].m ELSE <<>>

\* keyPathSchema of a key field of the table or of one of its indexes.
KeyPathSchema(t, key) ==
    LET p == PropertyOf(t, key.field)
        strings == Has(p, "enum") /\ p.enum.q # <<>>
                   /\ \A v \in Range(p.enum.q) : v.t = "string"
    IN  IF strings THEN [type |-> Str("string"), enum |-> p.enum]
        ELSE [type |-> Str("string"),
              pattern |-> IF key.pattern # "" THEN Str(key.pattern)
                          ELSE IF Has(p, "pattern") /\ p.pattern # Str("") THEN p.pattern
                          ELSE Str(UrlKeyPattern)]

\* The schemas of the document.
ItemSchema(t) == t.schema.m

TypeOf(name) == Obj([type |-> Str("string"), enum |-> Arr(<<Str(name)>>)])
ItemResponse(t) ==
    Over([properties |-> Obj(Over([_type |-> TypeOf("item")], Properties(t.schema.m))),
          required |-> Arr((IF Has(t.schema.m, "required") THEN t.schema.m.required.q ELSE <<>>)
                           \o <<Str("_type")>>)],
         t.schema.m)

\* The properties of a patch: all but the keys may be null.
PatchProperties(t) ==
    [p \in DOMAIN Properties(t.schema.m) |->
        IF p \in KeyFieldsOf(t) THEN Properties(t.schema.m)[p]
        ELSE Obj(Over([nullable |-> Bool(TRUE)], Properties(t.schema.m)[p].m))]

\* Mutant: what the schema requires is required of a patch too.
PatchKeepsRequired(t) == Over([properties |-> Obj(PatchProperties(t))], t.schema.m)
\* Only the keys are required.
PatchItem(t) ==
    Over([properties |-> Obj(PatchProperties(t)),
          required |-> Arr(IF HasRK(t) THEN <<Str(t.pk.field), Str(t.rk.field)>>
                                       ELSE <<Str(t.pk.field)>>)],
         t.schema.m)

\* getItemResponses and its like, with the 401 that withAuthError adds.
DocumentedCodes(op, jwt) ==
    {400, 500} \cup (IF jwt THEN {401} ELSE {})
    \cup CASE op \in {"GET", "getIndex"} -> {200, 404}
           [] op = "PATCH"  -> {200, 404, 409}
           [] op = "DELETE" -> {204}
           [] OTHER         -> {200}
=============================================================================
