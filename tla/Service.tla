------------------------------ MODULE Service ------------------------------
(***************************************************************************)
(* The api command from its configuration file to its answers: it accepts  *)
(* or refuses the configuration, registers the routes, and answers one     *)
(* request after the other on its first table (internal/handler, and what   *)
(* it calls).  ItemStore has the same item handlers with requests that     *)
(* overlap; here documents have their full depth, and requests and answers *)
(* are compared with the OpenAPI document of the table.                    *)
(***************************************************************************)
EXTENDS OpenApi

CONSTANTS
    Files,        \* configuration files
    KeyValues,    \* the strings ValidateKeyValue lets pass
    UrlValues,    \* what a client puts into the URL for a key
    PutBodies, PatchBodies,   \* bodies of requests
    Unread,       \* those that do not end within 1 MB, or break off before
    FieldSets,    \* values of the ?fields= parameter, {} when not given
    NoBody,       \* no body
    None          \* no request yet

\* keyFieldRegexp asks for a letter first.
ASSUME NamesAssumption == "_type" \notin FieldNames
\* Whatever is wrong with a file, what is read from it has lists where it wants
\* lists, and primary keys, which are no pointers.
ASSUME FilesAssumption ==
    \A cfg \in Files :
        /\ cfg.tables \in Seq(Range(cfg.tables))
        /\ \A t \in Range(cfg.tables) :
              /\ t.indexes \in Seq(Range(t.indexes))
              /\ \A i \in Range(t.indexes) : i.pk # NoKey
              /\ Has(t.schema.m, "required") /\ t.schema.m.required.t = "array" =>
                    t.schema.m.required.q \in Seq(Range(t.schema.m.required.q))
\* A body is read from JSON.
ASSUME BodiesAssumption == \A v \in PatchBodies : IsJson(v)

VARIABLES
    config,    \* the configuration file
    server,    \* "down", "up" or "refused"
    rows,      \* the table: the keys of its rows -> members of the data column
    exchange   \* the last request and its answer

vars == <<config, server, rows, exchange>>

Table == config.tables[1]
KeyFields == KeyFieldsOf(Table)

Init ==
    /\ config \in Files
    /\ server = "down"
    /\ rows = <<>>
    /\ exchange = None

Start ==
    /\ server = "down"
    /\ server' = IF Starts(config) THEN "up" ELSE "refused"
    /\ UNCHANGED <<config, rows, exchange>>

-----------------------------------------------------------------------------
(* Keys and documents.                                                     *)

\* ValidateKeyValue and ValidateKeyPattern; a pattern that does not compile
\* refuses every value.  Only an index may have none.
KeyAccepted(v, key) ==
    /\ v \in KeyValues
    /\ key.pattern # "" => key.pattern \in DOMAIN Matches /\ v \in Matches[key.pattern]
KeysAccepted(keys, of) ==
    /\ KeyAccepted(keys[1], of.pk)
    /\ Len(keys) > 1 => KeyAccepted(keys[2], of.rk)

KeyMembers(keys) ==
    [f \in KeyFields |-> Str(IF f = Table.pk.field THEN keys[1] ELSE keys[2])]
\* Mutant: the keys stay in the data column.
KeepKeys(m) == m
StripKeys(m) == Without(m, KeyFields)
InjectKeys(m, keys) == Over(KeyMembers(keys), m)

ProjectFields(m, fields) == Only(m, fields \cup KeyFields)
ApplyProjection(m, fields) == IF fields = {} THEN m ELSE ProjectFields(m, fields)

\* Mutant: ?fields= takes the place of the index's projection.
FieldsOrIndex(m, i, fields) ==
    IF fields # {} \/ i.projection = NoKey \/ i.projection.type = "ALL"
    THEN ApplyProjection(m, fields)
    ELSE ProjectFields(m, KeyFieldsOf(i) \cup i.projection.attributes)
ApplyIndexProjection(m, i, fields) ==
    IF i.projection = NoKey \/ i.projection.type = "ALL" THEN ApplyProjection(m, fields)
    ELSE ApplyProjection(ProjectFields(m, KeyFieldsOf(i) \cup i.projection.attributes), fields)

\* Mutant: the type is left out.
BareItem(m) == Obj(m)
ItemPayload(m) == Obj(Over([_type |-> Str("item")], m))
ErrorBody == Obj([_type |-> Str("error"), _error |-> Str("message")])
ListBody(items) == [items |-> items]

Answer(code, body) == [code |-> code, body |-> body]
Refuse(code) == Answer(code, ErrorBody)

-----------------------------------------------------------------------------
(* The handlers, for a request r: what they answer and leave in the table. *)

Get(r) ==
    IF r.keys \notin DOMAIN rows THEN Refuse(404)
    ELSE Answer(200, ItemPayload(ApplyProjection(InjectKeys(rows[r.keys], r.keys), r.fields)))

\* Mutant: the key has to be in the body of a PUT as well.
KeyInPutBody(m, keys) == \A f \in KeyFields : Has(m, f) /\ m[f] = KeyMembers(keys)[f]
KeysAgree(m, keys) == \A f \in DOMAIN m \cap KeyFields : m[f] = KeyMembers(keys)[f]

\* MaxBytesReader and ReadAll fail on a body that is not all there.
AcceptedPut(r) ==
    /\ r.body \notin Unread
    /\ IsObj(r.body) /\ ValidateJSONKeys(r.body)
    /\ KeysAgree(r.body.m, r.keys)
    /\ Accepts(Table.schema.m, r.body)

AcceptedPatch(r) ==
    /\ r.body \notin Unread
    /\ IsObj(r.body) /\ ValidateJSONKeys(r.body)
    /\ KeyFields \subseteq DOMAIN r.body.m
    /\ KeysAgree(r.body.m, r.keys)

Merged(r, m) == InjectKeys(MergePatch(m, r.body.m), r.keys)

\* Mutant: the merged document is not validated.
AcceptedAnyMerge(m) == TRUE
AcceptedMerge(m) == Accepts(Table.schema.m, Obj(m))

Store(keys, m) == rows' = Over([k \in {keys} |-> StripKeys(m)], rows)

IndexOf(r) == Table.indexes[r.index]
\* data->>'field': NULL when it is null or missing, a string as it is, and other
\* values as JSON, of which only true and false can be a key value.
HasText(k, field) == Has(rows[k], field) /\ rows[k][field] # Null
TextIs(k, field, text) ==
    /\ HasText(k, field)
    /\ \/ rows[k][field] = Str(text)
       \/ rows[k][field] = Bool(TRUE) /\ text = "true"
       \/ rows[k][field] = Bool(FALSE) /\ text = "false"

\* The rows that a listing, or an index get, selects.
Selected(r) ==
    {k \in DOMAIN rows :
        CASE r.op = "list" -> k[1] = r.keys[1]
          [] r.op = "scan" -> TRUE
          [] r.op = "query" -> TextIs(k, IndexOf(r).pk.field, r.keys[1])
          [] r.op = "scanIndex" -> \A f \in KeyFieldsOf(IndexOf(r)) : HasText(k, f)
          [] r.op = "getIndex" -> /\ TextIs(k, IndexOf(r).pk.field, r.keys[1])
                                  /\ TextIs(k, IndexOf(r).rk.field, r.keys[2])}

Project(r, m) ==
    IF r.index = 0 THEN ApplyProjection(m, r.fields)
    ELSE ApplyIndexProjection(m, IndexOf(r), r.fields)

\* GetItemByIndex has no ORDER BY: any of the rows is taken.
GetIndex(r) ==
    IF Selected(r) = {} THEN {Refuse(404)}
    ELSE {Answer(200, ItemPayload(Project(r, InjectKeys(rows[k], k)))) : k \in Selected(r)}

\* All that is selected fits on one page.
List(r) == Answer(200, ListBody({Obj(Project(r, InjectKeys(rows[k], k))) : k \in Selected(r)}))

-----------------------------------------------------------------------------
(* Requests, each at a path of the table.                                  *)

Values(route) == [1..Wilds(route.path) -> UrlValues]
Bodies(op) == CASE op = "PUT" -> PutBodies [] op = "PATCH" -> PatchBodies [] OTHER -> {NoBody}
Fields(op) == IF op \in {"PUT", "PATCH", "DELETE"} THEN {{}} ELSE FieldSets

\* Only a request that needs a token is told apart by whether it has one.
Tokens(route, keys) ==
    IF Protected(config, Fill(route.path, keys)) THEN {"good", "bad"} ELSE {"none"}
Request(route, keys, body, fields, token) ==
    [op |-> route.op, index |-> route.index, keys |-> keys, body |-> body,
     fields |-> fields, token |-> token]

Reply(r, answer) == exchange' = [request |-> r, answer |-> answer]

\* The key is checked against the table's or the index's.
Of(r) == IF r.index = 0 THEN Table ELSE Table.indexes[r.index]

\* The middleware's answer, the key check of every handler, and a statement
\* that fails.
Unauthorized(r) == r.token = "bad" /\ Reply(r, Refuse(401)) /\ UNCHANGED rows
KeysFine(r) == r.keys # <<>> => KeysAccepted(r.keys, Of(r))
BadKey(r) ==
    /\ r.token # "bad" /\ ~KeysFine(r)
    /\ Reply(r, Refuse(400)) /\ UNCHANGED rows
Handled(r) == r.token # "bad" /\ KeysFine(r)

Fails(r) ==
    /\ Handled(r)
    /\ r.op = "PUT" => AcceptedPut(r)
    /\ r.op = "PATCH" => AcceptedPatch(r)
    /\ Reply(r, Refuse(500))
    /\ UNCHANGED rows

Reads(r) ==
    /\ Handled(r)
    /\ \/ r.op = "GET" /\ Reply(r, Get(r))
       \/ r.op = "getIndex" /\ \E a \in GetIndex(r) : Reply(r, a)
       \/ r.op \in {"list", "scan", "query", "scanIndex"} /\ Reply(r, List(r))
    /\ UNCHANGED rows

Put(r) ==
    /\ r.op = "PUT" /\ Handled(r)
    /\ \/ ~AcceptedPut(r) /\ Reply(r, Refuse(400)) /\ UNCHANGED rows
       \/ /\ AcceptedPut(r)
          /\ Store(r.keys, r.body.m)
          /\ Reply(r, Answer(200, ItemPayload(InjectKeys(StripKeys(r.body.m), r.keys))))

Patch(r) ==
    /\ r.op = "PATCH" /\ Handled(r)
    /\ \/ ~AcceptedPatch(r) /\ Reply(r, Refuse(400)) /\ UNCHANGED rows
       \/ AcceptedPatch(r) /\ r.keys \notin DOMAIN rows /\ Reply(r, Refuse(404)) /\ UNCHANGED rows
       \/ /\ AcceptedPatch(r) /\ r.keys \in DOMAIN rows
          /\ LET m == Merged(r, rows[r.keys]) IN
             \/ ~AcceptedMerge(m) /\ Reply(r, Refuse(400)) /\ UNCHANGED rows
             \/ AcceptedMerge(m) /\ Store(r.keys, m) /\ Reply(r, Answer(200, ItemPayload(m)))

Delete(r) ==
    /\ r.op = "DELETE" /\ Handled(r)
    /\ rows' = Without(rows, {r.keys})
    /\ Reply(r, Answer(204, NoBody))

Serve ==
    /\ server = "up"
    /\ \E route \in DataRoutes(Table) : \E keys \in Values(route), body \in Bodies(route.op),
          fields \in Fields(route.op) : \E token \in Tokens(route, keys) :
        LET r == Request(route, keys, body, fields, token) IN
        \/ Unauthorized(r) \/ BadKey(r) \/ Fails(r)
        \/ Reads(r) \/ Put(r) \/ Patch(r) \/ Delete(r)
    /\ UNCHANGED <<config, server>>

Next == Start \/ Serve
Spec == Init /\ [][Next]_vars

-----------------------------------------------------------------------------
(* Properties of the configuration that was started.                       *)

TypeOK ==
    /\ config \in Files
    /\ server \in {"down", "up", "refused"}
    /\ server # "up" => rows = <<>> /\ exchange = None
    /\ \A k \in DOMAIN rows : KeysAccepted(k, Table) /\ DOMAIN rows[k] \cap KeyFields = {}
    /\ exchange # None => exchange.answer.code \in {200, 204, 400, 401, 404, 500}

\* What the validate command accepts, the api command serves: two routes never
\* conflict in the mux, where registering them would panic.  Only a missing
\* jwksUrl is found no sooner than at the start.
ValidatedStarts ==
    server = "refused" => ~RunValidate(config) \/ (config.jwt /\ ~config.jwksUrl)

\* Every operation of the OpenAPI documents, at a path filled with any legal
\* keys - among them keys that read like a segment of another route - goes to
\* the handler of that very operation, table and index, with every key in the
\* place the handler takes it from.
DocumentsReachHandlers ==
    server = "up" /\ exchange = None =>
        \A t \in Range(config.tables) : \A o \in Operations(t) :
            \A values \in [1..Wilds(o.path) -> KeyValues] :
                LET found == Dispatch(config, o.method, Fill(o.path, values)) IN
                /\ {<<r.op, r.table, r.index>> : r \in found} = {<<o.op, t.name, o.index>>}
                /\ \A r \in found, n \in DOMAIN o.path : IsWild(r.path[n]) <=> IsWild(o.path[n])

\* With JWTs enabled no request for data gets past the middleware without a
\* token, whatever its keys read like, and the public pages need none.
OnlyPagesArePublic ==
    server = "up" /\ exchange = None =>
        \A r \in Routes(config) :
            \A values \in [1..Wilds(r.path) -> KeyValues] :
                Protected(config, Fill(r.path, values))
                    <=> config.jwt /\ r.op \notin {"_swagger", "_openapi"}

-----------------------------------------------------------------------------
(* Properties of what is stored.                                           *)

\* No stored document has a name that the service keeps for itself (API.md:5),
\* at any depth, so that _type and _error never hide a member.
StoredNamesLegal == \A k \in DOMAIN rows : NamesIn(Obj(rows[k])) \subseteq JsonKeys

\* When every node of the schema has a type, nothing that the schema does not
\* declare is stored, at any depth, by a PUT or by a PATCH of several levels.
StoredDeclared ==
    server = "up" /\ EveryNodeTyped(Table.schema.m) =>
        \A k \in DOMAIN rows : ~Undeclared(Table.schema.m, Obj(rows[k]))

\* A document but for its keys is as the schema wants it.  That is what the
\* validator leaves, because a PUT may leave the keys out of the body that is
\* validated.
TableSchema == Table.schema.m
Declared == Properties(TableSchema)
Sound(d) ==
    /\ Required(TableSchema) \subseteq DOMAIN d \cup KeyFields
    /\ \A p \in DOMAIN d \ KeyFields :
          p \in DOMAIN Declared /\ AcceptsMember(Declared[p].m, d[p])
RowsSound == \A k \in DOMAIN rows : Sound(rows[k])

\* The inductive invariant: a server that is up has accepted its configuration,
\* and after any PUTs and PATCHes every row is sound.
Started ==
    /\ server = "up" => Starts(config)
    /\ server = "refused" => ~Starts(config)
IInv == TypeOK /\ Started /\ RowsSound

-----------------------------------------------------------------------------
(* Properties of the exchanges, against the OpenAPI document.              *)

\* The parameters and the body of a request are as documented.
DocumentedKeys(r) ==
    \A n \in DOMAIN r.keys :
        Accepts(KeyPathSchema(Table, IF n = 1 THEN Of(r).pk ELSE Of(r).rk), Str(r.keys[n]))
DocumentedBody(r) ==
    CASE r.op = "PUT"   -> Accepts(ItemSchema(Table), r.body)
      [] r.op = "PATCH" -> Accepts(PatchItem(Table), r.body)
      [] OTHER          -> TRUE
EnumeratedKey(r) ==
    \E n \in DOMAIN r.keys :
        Has(KeyPathSchema(Table, IF n = 1 THEN Of(r).pk ELSE Of(r).rk), "enum")

\* A documented request is refused with 400 only for a key value outside the
\* id rule or an enumerated one that the pattern refuses, a body that could not
\* be read to its end, a reserved name, keys in the body other than those in the
\* URL, or a merge the schema refuses.  (A listing takes its other parameters as
\* they come, or fails with 500.)
DocumentedRequestsAnswered ==
    exchange # None /\ exchange.answer.code = 400 =>
        LET r == exchange.request
            url == KeyMembers(r.keys)
        IN  \/ ~DocumentedKeys(r) \/ ~DocumentedBody(r)
            \/ ~(Range(r.keys) \subseteq KeyValues) \/ EnumeratedKey(r)
            \/ r.body \in Unread
            \/ ~(NamesIn(r.body) \subseteq JsonKeys)
            \/ \E f \in KeyFields \cap DOMAIN r.body.m : r.body.m[f] # url[f]
            \/ /\ r.op = "PATCH" /\ r.keys \in DOMAIN rows
               /\ ~Accepts(Table.schema.m, Obj(Over(url, MergePatch(rows[r.keys], r.body.m))))

\* The members of a patch that its document can describe: no objects, and no
\* nulls for what the schema does not declare, enumerates or fixes.
Describable(m) ==
    {k \in DOMAIN m :
        /\ ~IsObj(m[k])
        /\ m[k] = Null => /\ k \in DOMAIN Properties(Table.schema.m)
                          /\ DOMAIN PropertyOf(Table, k) \cap {"enum", "const"} = {}}

\* A request that succeeds is a documented one: its keys, unless they are
\* enumerated or those of an index without a pattern, and its body, in a patch
\* as far as the document describes patches.  What the table's schema says of
\* whole documents (WholeKeywords) is taken over into that of patches, which are
\* none: a patch has fewer members, and with nulls it may have more.
AppliedRequestsDocumented ==
    exchange # None /\ exchange.answer.code \in {200, 204} =>
        LET r == exchange.request IN
        /\ \/ DocumentedKeys(r) \/ EnumeratedKey(r)
           \/ r.index > 0 /\ \E key \in {Of(r).pk, Of(r).rk} \ {NoKey} : key.pattern = ""
        /\ r.op = "PUT" => DocumentedBody(r)
        /\ r.op = "PATCH" => Accepts(Without(PatchItem(Table), WholeKeywords),
                                     Obj(Only(r.body.m, Describable(r.body.m))))

IndexProjects(r) ==
    r.index > 0 /\ Of(r).projection # NoKey /\ Of(r).projection.type # "ALL"
Projected(r) == r.fields # {} \/ IndexProjects(r)

\* Every answer has a documented status, and a single item in it is as
\* documented, though fields may be left out when a projection asks for it, and
\* the table's schema of whole documents, which are without the type, is not
\* that of an answer (WholeKeywords).  A schema that refuses the keys of a row
\* that left them out of its body is an exception.
ResponsesDocumented ==
    exchange # None =>
        LET r == exchange.request
            freed == IF Projected(r) THEN {"required"} ELSE {}
        IN  /\ exchange.answer.code \in DocumentedCodes(r.op, config.jwt)
            /\ exchange.answer.code = 200 /\ "t" \in DOMAIN exchange.answer.body =>
                  \/ Accepts(Without(ItemResponse(Table), WholeKeywords \cup freed),
                             exchange.answer.body)
                  \/ ~Accepts(Without(Table.schema.m, WholeKeywords \cup {"required"}),
                              Obj(Only(exchange.answer.body.m, KeyFields)))

\* The fields of an item that API.md:217-230 has a read return: its keys, and what
\* both ?fields= and the projection of the index name.  Of an index that
\* INCLUDEs attributes its keys are returned too, of which API.md:228 says nothing.
IndexFields(i) ==
    IF i.projection.type = "INCLUDE" THEN i.projection.attributes \cup KeyFieldsOf(i)
    ELSE KeyFieldsOf(i)
ShownField(r, f) ==
    \/ f \in KeyFields
    \/ /\ r.fields # {} => f \in r.fields
       /\ IndexProjects(r) => f \in IndexFields(Of(r))
Shown(r, k) ==
    LET item == InjectKeys(rows[k], k)
    IN  [f \in {g \in DOMAIN item : ShownField(r, g)} |-> item[f]]

\* A read returns every row it selects, with the fields that are documented and no
\* others, unchanged; of one item that is one of those rows, and 404 says
\* that there is none.
Reading == {"GET", "getIndex", "list", "scan", "query", "scanIndex"}
ProjectionsKeep ==
    exchange # None /\ exchange.request.op \in Reading =>
        LET r == exchange.request
            a == exchange.answer
            matching == IF r.op = "GET" THEN {r.keys} \cap DOMAIN rows ELSE Selected(r)
        IN  /\ a.code = 404 => matching = {}
            /\ a.code = 200 =>
                  IF r.op \in {"GET", "getIndex"}
                  THEN \E k \in matching : a.body = ItemPayload(Shown(r, k))
                  ELSE a.body = ListBody({Obj(Shown(r, k)) : k \in matching})

-----------------------------------------------------------------------------
(* Merges against the standard.                                            *)

Patched(r) == r.op = "PATCH" /\ exchange'.answer.code = 200
RfcResult(r) == StripKeys(Rfc7396(Obj(rows[r.keys]), r.body).m)

\* A PATCH that is applied leaves what RFC 7396 says, except where an object of
\* the patch with nulls meets a member that is missing or no object.
PatchDiffersByNulls ==
    [][exchange' # None =>
        LET r == exchange'.request IN
        Patched(r) => \/ NullsMeetNoObject(rows[r.keys], r.body.m)
                      \/ rows'[r.keys] = RfcResult(r)]_vars

\* "Applies RFC 7396 JSON Merge Patch" (internal/swagger/openapi.go:422).
PatchAppliesRfc7396 ==
    [][exchange' # None =>
        LET r == exchange'.request IN Patched(r) => rows'[r.keys] = RfcResult(r)]_vars
=============================================================================
