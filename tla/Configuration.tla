--------------------------- MODULE Configuration ---------------------------
(***************************************************************************)
(* What a configuration file makes of the service: whether it is accepted  *)
(* (internal/config), the routes it registers and the mux that serves them *)
(* (internal/handler/handler.go), and which requests need a token          *)
(* (main.go, internal/handler/swagger.go).                                 *)
(*                                                                         *)
(* Names and patterns are opaque strings; which of them a regular          *)
(* expression matches is given.                                            *)
(***************************************************************************)
EXTENDS Documents

CONSTANTS
    TableNames,   \* the strings nameRegexp matches
    FieldNames,   \* the strings keyFieldRegexp matches
    NoKey         \* no range key

\* A table has a name, a primary key and a range key or NoKey, each with a
\* field and a pattern ("" when left out), a schema, indexes and whether it may
\* be scanned; an index has a projection as well.
HasRK(t) == t.rk # NoKey
KeyFieldsOf(t) == {t.pk.field} \cup (IF HasRK(t) THEN {t.rk.field} ELSE {})

-----------------------------------------------------------------------------
(* config.Validate.                                                        *)

\* Mutant: index names may repeat.
AnyIndexNames(t) == TRUE
DistinctIndexNames(t) == IsInjective([j \in DOMAIN t.indexes |-> t.indexes[j].name])

ValidateProjection(p) ==
    CASE p.type \in {"ALL", "KEYS_ONLY"} -> p.attributes = {}
      [] p.type = "INCLUDE"              -> p.attributes # {}
      [] OTHER                           -> FALSE

ValidateIndex(t, i) ==
    /\ i.name \in TableNames
    /\ i.pk.field \in FieldNames \ KeyFieldsOf(t)
    /\ HasRK(i) => i.rk.field \in FieldNames \ (KeyFieldsOf(t) \cup {i.pk.field})
    /\ i.projection # NoKey => ValidateProjection(i.projection)

ValidateSchemaKeyField(props, field) ==
    /\ HasObj(props, field)
    /\ LET p == props[field].m IN
       /\ Has(p, "type") /\ p.type = Str("string")
       /\ Has(p, "pattern") /\ p.pattern.t = "string" /\ p.pattern.s \in DOMAIN Matches

\* A schema without properties is not looked at further.
ValidateSchemaKeys(t) ==
    HasObj(t.schema.m, "properties") =>
        \A f \in KeyFieldsOf(t) : ValidateSchemaKeyField(t.schema.m.properties.m, f)

ValidateTable(t) ==
    /\ t.name \in TableNames
    /\ t.pk.field \in FieldNames /\ t.pk.pattern # ""
    /\ HasRK(t) => /\ t.rk.field \in FieldNames \ {t.pk.field}
                  /\ t.rk.pattern # ""
    /\ ValidateDefinition(t.schema)
    /\ ValidateSchemaKeys(t)
    /\ DistinctIndexNames(t)
    /\ \A j \in DOMAIN t.indexes : ValidateIndex(t, t.indexes[j])

Validate(cfg) ==
    /\ cfg.tables # <<>>
    /\ \A i \in DOMAIN cfg.tables : ValidateTable(cfg.tables[i])
    /\ IsInjective([i \in DOMAIN cfg.tables |-> cfg.tables[i].name])

\* The validate command: it compiles the schemas too.
RunValidate(cfg) == Validate(cfg) /\ \A t \in Range(cfg.tables) : Compile(t.schema)

-----------------------------------------------------------------------------
(* Routes.  A path is a sequence of segments; those of a pattern are        *)
(* literals and wildcards.                                                  *)

Lit(s) == [lit |-> s]
Wild(name) == [wild |-> name]
IsWild(seg) == DOMAIN seg = {"wild"}
Route(method, path, op, t, index) ==
    [method |-> method, path |-> path, op |-> op, table |-> t.name, index |-> index]

\* Mutant: the range key is left out of the path of an item.
PartitionKeyOnly(t) == <<Lit("v1"), Lit(t.name), Lit("data"), Wild("pk"), Lit("_item")>>
ItemPath(t) ==
    IF HasRK(t)
    THEN <<Lit("v1"), Lit(t.name), Lit("data"), Wild("pk"), Wild("rk"), Lit("_item")>>
    ELSE <<Lit("v1"), Lit(t.name), Lit("data"), Wild("pk"), Lit("_item")>>

\* registerTableRoutes: the operations on a table and its indexes, and the
\* public pages.
ItemMethods == {"GET", "PUT", "PATCH", "DELETE"}
TableRoutes(t) ==
    {Route(m, ItemPath(t), m, t, 0) : m \in ItemMethods}
    \cup {Route("GET", <<Lit("v1"), Lit(t.name), Lit("data"), Wild("pk"), Lit("_items")>>,
                 "list", t, 0)}
    \cup (IF t.scan THEN {Route("GET", <<Lit("v1"), Lit(t.name), Lit("_items")>>, "scan", t, 0)}
                    ELSE {})
IndexRoutes(t, j) ==
    LET i == t.indexes[j] IN
    {Route("GET", <<Lit("v1"), Lit(t.name), Lit("_index"), Lit(i.name), Wild("indexPk"),
                    Lit("_items")>>, "query", t, j)}
    \cup (IF i.scan THEN {Route("GET", <<Lit("v1"), Lit(t.name), Lit("_index"), Lit(i.name),
                                         Lit("_items")>>, "scanIndex", t, j)}
                    ELSE {})
    \cup (IF HasRK(i) THEN {Route("GET", <<Lit("v1"), Lit(t.name), Lit("_index"), Lit(i.name),
                                           Wild("indexPk"), Wild("indexRk"), Lit("_item")>>,
                                  "getIndex", t, j)}
                      ELSE {})
DataRoutes(t) == TableRoutes(t) \cup UNION {IndexRoutes(t, j) : j \in DOMAIN t.indexes}
PageRoutes(t) ==
    {Route("GET", <<Lit("v1"), Lit(t.name), Lit(page)>>, page, t, 0)
        : page \in {"_swagger", "_openapi"}}
Routes(cfg) ==
    UNION {DataRoutes(t) \cup (IF cfg.swagger THEN PageRoutes(t) ELSE {})
            : t \in Range(cfg.tables)}

\* http.ServeMux: a request goes to the most specific of the patterns that
\* match it, and registering two of which neither is more specific panics.
Covers(general, special) ==
    /\ Len(general) = Len(special)
    /\ \A n \in DOMAIN general : IsWild(general[n]) \/ general[n] = special[n]
Overlap(p, q) ==
    /\ Len(p) = Len(q)
    /\ \A n \in DOMAIN p : IsWild(p[n]) \/ IsWild(q[n]) \/ p[n] = q[n]
Conflict(r, s) ==
    /\ r.method = s.method /\ Overlap(r.path, s.path)
    /\ Covers(r.path, s.path) <=> Covers(s.path, r.path)

Registers(cfg) == \A r, s \in Routes(cfg) : r # s => ~Conflict(r, s)

Dispatch(cfg, method, path) ==
    {r \in Routes(cfg) :
        /\ r.method = method /\ Covers(r.path, path)
        /\ \A s \in Routes(cfg) :
              s.method = method /\ Covers(s.path, path) => Covers(s.path, r.path)}

\* The wildcards of a path up to place n, and the path of a request that has
\* values in their place.
WildsTo(path, n) == Cardinality({m \in 1..n : IsWild(path[m])})
Wilds(path) == WildsTo(path, Len(path))
Fill(path, values) ==
    [n \in DOMAIN path |->
        IF IsWild(path[n]) THEN Lit(values[WildsTo(path, n)]) ELSE path[n]]

\* Mutant: the marker may be anywhere in the path.
HoldsSwaggerMarker(path) ==
    /\ path[1] = Lit("v1")
    /\ \E n \in DOMAIN path : path[n] \in {Lit("_swagger"), Lit("_openapi")}
IsSwaggerRequestPath(path) ==
    /\ path[1] = Lit("v1") /\ Len(path) > 1
    /\ path[Len(path)] \in {Lit("_swagger"), Lit("_openapi")}

\* A request needs a token unless JWTs are disabled or it is for the public
\* pages.
Protected(cfg, path) ==
    cfg.jwt /\ ~(cfg.swagger /\ IsSwaggerRequestPath(path))

\* The api command gets as far as listening.
Starts(cfg) ==
    /\ RunValidate(cfg)
    /\ cfg.jwt => cfg.jwksUrl
    /\ Registers(cfg)
=============================================================================
