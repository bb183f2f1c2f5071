---------------------------- MODULE ServiceProofs ----------------------------
(***************************************************************************)
(* Proofs about Service, for any configuration files, key values and       *)
(* bodies, and whatever the functions on documents do below the outermost  *)
(* levels of a document.                                                   *)
(***************************************************************************)
EXTENDS Service, RoutesProofs, FiniteSetTheorems

-----------------------------------------------------------------------------
(* Requests.                                                               *)

\* The keys in the path of an operation on table t.
KeyCount(t, op) ==
    IF op \in ItemMethods THEN IF HasRK(t) THEN 2 ELSE 1
    ELSE IF op \in {"list", "query"} THEN 1 ELSE IF op = "getIndex" THEN 2 ELSE 0

LEMMA Count ==
    /\ Cardinality({}) = 0
    /\ \A a \in Int : Cardinality({a}) = 1
    /\ \A a, b \in Int : a # b => Cardinality({a, b}) = 2
<1>1. ASSUME NEW a \in Int PROVE IsFiniteSet({a}) /\ Cardinality({a}) = 1
    BY FS_Singleton
<1>2. ASSUME NEW a \in Int, NEW b \in Int, a # b PROVE Cardinality({a, b}) = 2
    <2>1. {a, b} = {a} \cup {b} /\ b \notin {a}
        BY <1>2
    <2>2. Cardinality({a} \cup {b}) = Cardinality({a}) + 1
        BY <1>1, <2>1, FS_AddElement
    <2> QED
        BY <1>1, <2>1, <2>2
<1> QED
    BY <1>1, <1>2, FS_EmptySet

LEMMA TableWilds ==
    ASSUME NEW t, NEW r \in TableRoutes(t)
    PROVE  Wilds(r.path) = KeyCount(t, r.op)
<1>1. CASE \E m \in ItemMethods : r = Route(m, ItemPath(t), m, t, 0)
    <2>1. r.op \in ItemMethods /\ r.path = ItemPath(t)
        BY <1>1 DEF Route
    <2>2. CASE HasRK(t)
        <3>1. {m \in 1..Len(r.path) : IsWild(r.path[m])} = {4, 5}
            <4>1. r.path = <<Lit("v1"), Lit(t.name), Lit("data"), Wild("pk"), Wild("rk"), Lit("_item")>>
                BY <2>1, <2>2 DEF ItemPath
            <4> QED
                BY <4>1, Segments
        <3> QED
            BY <2>1, <2>2, <3>1, Count DEF Wilds, WildsTo, KeyCount
    <2>3. CASE ~HasRK(t)
        <3>1. {m \in 1..Len(r.path) : IsWild(r.path[m])} = {4}
            <4>1. r.path = <<Lit("v1"), Lit(t.name), Lit("data"), Wild("pk"), Lit("_item")>>
                BY <2>1, <2>3 DEF ItemPath
            <4> QED
                BY <4>1, Segments
        <3> QED
            BY <2>1, <2>3, <3>1, Count DEF Wilds, WildsTo, KeyCount
    <2> QED
        BY <2>2, <2>3
<1>2. CASE r = Route("GET", <<Lit("v1"), Lit(t.name), Lit("data"), Wild("pk"), Lit("_items")>>,
                     "list", t, 0)
    <2>1. {m \in 1..Len(r.path) : IsWild(r.path[m])} = {4}
        BY <1>2, Segments DEF Route
    <2> QED
        BY <1>2, <2>1, Count DEF Wilds, WildsTo, KeyCount, Route, ItemMethods
<1>3. CASE r = Route("GET", <<Lit("v1"), Lit(t.name), Lit("_items")>>, "scan", t, 0)
    <2>1. {m \in 1..Len(r.path) : IsWild(r.path[m])} = {}
        BY <1>3, Segments DEF Route
    <2> QED
        BY <1>3, <2>1, Count DEF Wilds, WildsTo, KeyCount, Route, ItemMethods
<1> QED
    BY <1>1, <1>2, <1>3 DEF TableRoutes

LEMMA IndexWilds ==
    ASSUME NEW t, NEW j \in DOMAIN t.indexes, NEW r \in IndexRoutes(t, j)
    PROVE  /\ Wilds(r.path) = KeyCount(t, r.op)
           /\ r.op = "getIndex" => HasRK(t.indexes[j])
<1> DEFINE i == t.indexes[j]
<1>1. CASE r = Route("GET", <<Lit("v1"), Lit(t.name), Lit("_index"), Lit(i.name), Wild("indexPk"),
                              Lit("_items")>>, "query", t, j)
    <2>1. {m \in 1..Len(r.path) : IsWild(r.path[m])} = {5}
        BY <1>1, Segments DEF Route
    <2> QED
        BY <1>1, <2>1, Count DEF Wilds, WildsTo, KeyCount, Route, ItemMethods
<1>2. CASE r = Route("GET", <<Lit("v1"), Lit(t.name), Lit("_index"), Lit(i.name), Lit("_items")>>,
                     "scanIndex", t, j)
    <2>1. {m \in 1..Len(r.path) : IsWild(r.path[m])} = {}
        BY <1>2, Segments DEF Route
    <2> QED
        BY <1>2, <2>1, Count DEF Wilds, WildsTo, KeyCount, Route, ItemMethods
<1>3. CASE HasRK(i) /\ r = Route("GET", <<Lit("v1"), Lit(t.name), Lit("_index"), Lit(i.name),
                                         Wild("indexPk"), Wild("indexRk"), Lit("_item")>>,
                                 "getIndex", t, j)
    <2>1. {m \in 1..Len(r.path) : IsWild(r.path[m])} = {5, 6}
        BY <1>3, Segments DEF Route
    <2> QED
        BY <1>3, <2>1, Count DEF Wilds, WildsTo, KeyCount, Route, ItemMethods
<1> QED
    BY <1>1, <1>2, <1>3 DEF IndexRoutes

\* What Serve makes of its choices.
IsRequest(r) ==
    \E route \in DataRoutes(Table) : \E keys \in Values(route), body \in Bodies(route.op),
        fields \in Fields(route.op) : \E token \in Tokens(route, keys) :
            r = Request(route, keys, body, fields, token)
Handles(r) ==
    Unauthorized(r) \/ BadKey(r) \/ Fails(r) \/ Reads(r) \/ Put(r) \/ Patch(r) \/ Delete(r)

LEMMA ServeHandles ==
    ASSUME Serve
    PROVE  /\ server = "up" /\ UNCHANGED <<config, server>>
           /\ \E r : IsRequest(r) /\ Handles(r)
BY DEF Serve, IsRequest, Handles

\* The operation, the keys and the token of a request.
LEMMA Requested ==
    ASSUME NEW r, IsRequest(r)
    PROVE  /\ r.op \in ItemMethods \cup {"list", "scan"} \cup IndexOps
           /\ IF r.op \in IndexOps THEN r.index \in DOMAIN Table.indexes ELSE r.index = 0
           /\ KeyCount(Table, r.op) \in 0..2
           /\ r.keys \in [1..KeyCount(Table, r.op) -> UrlValues]
           /\ r.op = "getIndex" => HasRK(Table.indexes[r.index])
           /\ r.token = "bad" => config.jwt
           /\ r.op \in {"PUT", "PATCH", "DELETE"} => r.fields = {}
<1>0. PICK route \in DataRoutes(Table) :
          \E keys \in Values(route), body \in Bodies(route.op), fields \in Fields(route.op) :
              \E token \in Tokens(route, keys) : r = Request(route, keys, body, fields, token)
    BY DEF IsRequest
<1>1. PICK keys \in Values(route), body \in Bodies(route.op), fields \in Fields(route.op) :
          \E token \in Tokens(route, keys) : r = Request(route, keys, body, fields, token)
    BY <1>0
<1>2. /\ r.op = route.op /\ r.index = route.index /\ r.keys = keys
      /\ r.token \in Tokens(route, keys) /\ r.fields \in Fields(route.op)
    BY <1>1 DEF Request
<1>3. CASE route \in TableRoutes(Table)
    <2>1. RouteOf(Table, route) /\ route.op \in ItemMethods \cup {"list", "scan"}
        BY <1>3, TableRoutesAt
    <2>2. Wilds(route.path) = KeyCount(Table, route.op)
        BY <1>3, TableWilds
    <2> QED
        BY <1>2, <2>1, <2>2
           DEF RouteOf, Values, KeyCount, Tokens, Protected, Fields, ItemMethods, IndexOps
<1>4. CASE \E j \in DOMAIN Table.indexes : route \in IndexRoutes(Table, j)
    <2>0. PICK j \in DOMAIN Table.indexes : route \in IndexRoutes(Table, j)
        BY <1>4
    <2>1. route.op \in IndexOps /\ route.index = j
        BY <2>0, IndexRoutesAt
    <2>2. /\ Wilds(route.path) = KeyCount(Table, route.op)
          /\ route.op = "getIndex" => HasRK(Table.indexes[j])
        BY <2>0, IndexWilds
    <2> QED
        BY <1>2, <2>1, <2>2 DEF Values, KeyCount, Tokens, Protected, Fields, ItemMethods, IndexOps
<1> QED
    BY <1>3, <1>4 DEF DataRoutes

\* A request on an item names it by the keys of the table.
LEMMA ItemKeys ==
    ASSUME NEW r, IsRequest(r), r.op \in ItemMethods, KeysFine(r)
    PROVE  r.index = 0 /\ KeysAccepted(r.keys, Table)
<1>1. r.index = 0 /\ 1 \in DOMAIN r.keys
    BY Requested DEF KeyCount, ItemMethods, IndexOps
<1>2. r.keys # <<>>
    BY <1>1
<1> QED
    BY <1>1, <1>2 DEF KeysFine, Of

-----------------------------------------------------------------------------
(* Types, and the configuration that was started.                          *)

\* The members of a document, as the functions on them leave them.
LEMMA MembersAre ==
    ASSUME NEW m, NEW names
    PROVE  /\ DOMAIN Without(m, names) = DOMAIN m \ names
           /\ \A k \in DOMAIN m \ names : Without(m, names)[k] = m[k]
           /\ DOMAIN Only(m, names) = DOMAIN m \cap names
           /\ \A k \in DOMAIN m \cap names : Only(m, names)[k] = m[k]
BY DEF Without, Only, Restrict

LEMMA HandlesType ==
    ASSUME TypeOK, server = "up", UNCHANGED <<config, server>>, NEW r, IsRequest(r), Handles(r)
    PROVE  TypeOK'
<1> USE DEF TypeOK
<1>0. Table' = Table /\ KeyFields' = KeyFields
    BY DEF Table, KeyFields
<1>1. ASSUME NEW c \in {400, 401, 404, 500}, Reply(r, Refuse(c)), UNCHANGED rows
      PROVE  TypeOK'
    BY <1>0, <1>1 DEF Reply, Refuse, Answer
<1>2. ASSUME NEW b, Reply(r, Answer(200, b)), UNCHANGED rows
      PROVE  TypeOK'
    BY <1>0, <1>2 DEF Reply, Answer
<1>3. ASSUME NEW b, NEW m, r.op \in ItemMethods, KeysFine(r), Reply(r, Answer(200, b)),
             Store(r.keys, m)
      PROVE  TypeOK'
    <2>1. \A k \in DOMAIN rows' : KeysAccepted(k, Table) /\ DOMAIN rows'[k] \cap KeyFields = {}
        <3>1. KeysAccepted(r.keys, Table)
            BY <1>3, ItemKeys
        <3>2. /\ DOMAIN rows' = {r.keys} \cup DOMAIN rows
              /\ rows'[r.keys] = StripKeys(m)
              /\ \A k \in DOMAIN rows \ {r.keys} : rows'[k] = rows[k]
            BY <1>3 DEF Store, Over
        <3>3. DOMAIN StripKeys(m) \cap KeyFields = {}
            <4>1. DOMAIN StripKeys(m) = DOMAIN m \ KeyFields
                BY MembersAre DEF StripKeys
            <4> QED
                BY <4>1
        <3> QED
            BY <3>1, <3>2, <3>3
    <2> QED
        BY <1>0, <1>3, <2>1 DEF Reply, Answer
<1>4. CASE Unauthorized(r) \/ BadKey(r) \/ Fails(r)
    BY <1>1, <1>4 DEF Unauthorized, BadKey, Fails
<1>5. CASE Reads(r)
    <2>1. CASE r.op = "GET" /\ Reply(r, Get(r))
        BY <1>1, <1>2, <1>5, <2>1 DEF Reads, Get
    <2>2. CASE \E a \in GetIndex(r) : Reply(r, a)
        BY <1>1, <1>2, <1>5, <2>2 DEF Reads, GetIndex
    <2>3. CASE Reply(r, List(r))
        BY <1>2, <1>5, <2>3 DEF Reads, List
    <2> QED
        BY <1>5, <2>1, <2>2, <2>3 DEF Reads
<1>6. CASE Put(r)
    BY <1>1, <1>3, <1>6 DEF Put, Handled, ItemMethods
<1>7. CASE Patch(r)
    BY <1>1, <1>3, <1>7 DEF Patch, Handled, ItemMethods
<1>8. CASE Delete(r)
    <2>1. \A k \in DOMAIN rows' : KeysAccepted(k, Table) /\ DOMAIN rows'[k] \cap KeyFields = {}
        <3>1. DOMAIN rows' = DOMAIN rows \ {r.keys} /\ \A k \in DOMAIN rows' : rows'[k] = rows[k]
            BY <1>8 DEF Delete, Without, Restrict
        <3> QED
            BY <3>1
    <2> QED
        BY <1>0, <1>8, <2>1 DEF Delete, Reply, Answer
<1> QED
    BY <1>4, <1>5, <1>6, <1>7, <1>8 DEF Handles

LEMMA NextType ==
    ASSUME TypeOK, Started, [Next]_vars
    PROVE  TypeOK' /\ Started'
<1>1. CASE Start
    BY <1>1 DEF Start, TypeOK, Started
<1>2. CASE Serve
    <2>1. TypeOK'
        BY <1>2, ServeHandles, HandlesType
    <2>2. Started'
        BY <1>2 DEF Serve, Started
    <2> QED
        BY <2>1, <2>2
<1>3. CASE UNCHANGED vars
    BY <1>3 DEF vars, TypeOK, Started, Table, KeyFields
<1> QED
    BY <1>1, <1>2, <1>3 DEF Next

LEMMA Initially == Init => TypeOK /\ Started
BY DEF Init, TypeOK, Started

LEMMA Typed == Spec => [](TypeOK /\ Started)
<1>1. Init => TypeOK /\ Started
    BY Initially
<1>2. TypeOK /\ Started /\ [Next]_vars => (TypeOK /\ Started)'
    BY NextType
<1> QED
    BY <1>1, <1>2, PTL DEF Spec

\* The table holds its rows under keys that the table accepts, and their data
\* without the key fields; every answer has a status of the handlers (StripKeys,
\* ValidateKeyValue).
THEOREM TypeCorrect == Spec => []TypeOK
BY Typed, PTL

\* The api command serves every configuration that the validate command accepts,
\* but for a missing jwksUrl.
THEOREM ServesWhatValidates == Spec => []ValidatedStarts
<1>1. ASSUME TypeOK, Started PROVE ValidatedStarts
    <2> SUFFICES ASSUME server = "refused", RunValidate(config)
                 PROVE  config.jwt /\ ~config.jwksUrl
        BY DEF ValidatedStarts
    <2>1. Registers(config)
        BY ValidatedRegisters DEF RunValidate
    <2> QED
        BY <1>1, <2>1 DEF Started, Starts
<1> QED
    BY <1>1, Typed, PTL

\* Every documented operation reaches its own handler, whatever the keys in the URL
\* read like (registerTableRoutes, buildPaths).
THEOREM DocumentsRouted == Spec => []DocumentsReachHandlers
<1>1. ASSUME TypeOK, Started PROVE DocumentsReachHandlers
    <2>1. server = "up" => Validate(config)
        BY <1>1 DEF Started, Starts, RunValidate
    <2> QED
        BY <2>1, OperationsReached DEF DocumentsReachHandlers
<1> QED
    BY <1>1, Typed, PTL

\* The middleware asks for a token on every route but those of the public pages,
\* whatever the keys in the URL read like (isSwaggerRequestPath).
THEOREM DataProtected == Spec => []OnlyPagesArePublic
<1>1. OnlyPagesArePublic
    BY PagesPublic DEF OnlyPagesArePublic, Pages
<1> QED
    BY <1>1, PTL

-----------------------------------------------------------------------------
(* Projections.                                                            *)

\* The table that is served is one of the file, which was accepted.
LEMMA ServedTable ==
    ASSUME TypeOK, Started, server = "up"
    PROVE  /\ Table \in Range(config.tables) /\ ValidateTable(Table)
           /\ Compile(Table.schema)
           /\ Table.indexes \in Seq(Range(Table.indexes))
           /\ \A i \in Range(Table.indexes) : i.pk # NoKey
           /\ "_type" \notin KeyFields
<1>1. RunValidate(config) /\ Validate(config)
    BY DEF Started, Starts, RunValidate
<1>2. config.tables \in Seq(Range(config.tables)) /\ config.tables # <<>>
    BY <1>1, FilesAssumption DEF TypeOK, Validate
<1>3. 1 \in DOMAIN config.tables
    BY <1>2
<1>4. Table \in Range(config.tables) /\ ValidateTable(Table)
    BY <1>1, <1>3 DEF Table, Range, Validate
<1>5. /\ Compile(Table.schema) /\ Table.indexes \in Seq(Range(Table.indexes))
      /\ \A i \in Range(Table.indexes) : i.pk # NoKey
    BY <1>1, <1>4, FilesAssumption DEF RunValidate, TypeOK
<1>6. "_type" \notin KeyFields
    BY <1>4, NamesAssumption DEF ValidateTable, KeyFields, KeyFieldsOf
<1> QED
    BY <1>4, <1>5, <1>6

\* Some members of a document, among them its keys.
PartOf(p, document) == p = Only(document, DOMAIN p) /\ KeyFields \subseteq DOMAIN p

\* Members of an object, and those of them that ?fields= leaves.
Members(m) == m = [x \in DOMAIN m |-> m[x]]
Left(p, m, fields) ==
    /\ DOMAIN p = {f \in DOMAIN m : f \in KeyFields \/ (fields # {} => f \in fields)}
    /\ p = [f \in DOMAIN p |-> m[f]]

LEMMA Projects ==
    ASSUME NEW d, Members(d), NEW fields
    PROVE  Left(ApplyProjection(d, fields), d, fields)
<1> DEFINE p == ApplyProjection(d, fields)
<1>1. CASE fields = {}
    <2>1. p = d
        BY <1>1 DEF ApplyProjection
    <2> QED
        BY <1>1, <2>1 DEF Left, Members
<1>2. CASE fields # {}
    <2>1. p = [x \in DOMAIN d \cap (fields \cup KeyFields) |-> d[x]]
        BY <1>2 DEF ApplyProjection, ProjectFields, Only, Restrict
    <2> HIDE DEF p
    <2>2. Left(p, d, fields)
        BY <1>2, <2>1 DEF Left
    <2> QED
        BY <2>2 DEF p
<1> QED
    BY <1>1, <1>2

\* What the handlers return of a row is what is documented.
LEMMA ProjectShows ==
    ASSUME TypeOK, Started, server = "up", NEW r, IsRequest(r), NEW k
    PROVE  Project(r, InjectKeys(rows[k], k)) = Shown(r, k)
<1>1. PICK d : d = InjectKeys(rows[k], k)
    OBVIOUS
<1>2. KeyFields \subseteq DOMAIN d /\ d = [x \in DOMAIN d |-> d[x]]
    BY <1>1 DEF InjectKeys, KeyMembers, Over
<1>3. r.index = 0 \/ (r.index > 0 /\ r.index # 0 /\ r.index \in DOMAIN Table.indexes)
    BY Requested, ServedTable
<1>4. ASSUME NEW p, p = [f \in DOMAIN p |-> d[f]],
             \A f : f \in DOMAIN p <=> f \in DOMAIN d /\ ShownField(r, f)
      PROVE  p = Shown(r, k)
    <2>1. DOMAIN p = {g \in DOMAIN d : ShownField(r, g)}
        BY <1>4
    <2>2. Shown(r, k) = [f \in {g \in DOMAIN d : ShownField(r, g)} |-> d[f]]
        BY <1>1 DEF Shown
    <2> QED
        BY <1>4, <2>1, <2>2
<1>5. PICK all : all = ApplyProjection(d, r.fields)
    OBVIOUS
<1>6. /\ DOMAIN all = {f \in DOMAIN d : f \in KeyFields \/ (r.fields # {} => f \in r.fields)}
      /\ all = [f \in DOMAIN all |-> d[f]]
    <2>1. Left(all, d, r.fields)
        BY <1>2, <1>5, Projects DEF Members
    <2> QED
        BY <2>1 DEF Left
<1>7. ASSUME ~IndexProjects(r) PROVE all = Shown(r, k)
    <2>1. \A f : ShownField(r, f) <=> f \in KeyFields \/ (r.fields # {} => f \in r.fields)
        BY <1>7 DEF ShownField
    <2>2. \A f : f \in DOMAIN all <=> f \in DOMAIN d /\ ShownField(r, f)
        BY <1>6, <2>1
    <2> QED
        BY <1>4, <1>6, <2>2
<1>8. CASE r.index = 0
    <2>1. Project(r, d) = all
        BY <1>5, <1>8 DEF Project
    <2>2. all = Shown(r, k)
        BY <1>7, <1>8 DEF IndexProjects
    <2> QED
        BY <1>1, <2>1, <2>2
<1>9. CASE /\ r.index > 0 /\ r.index # 0
           /\ IndexOf(r).projection = NoKey \/ IndexOf(r).projection.type = "ALL"
    <2>1. Project(r, d) = all
        BY <1>5, <1>9 DEF Project, ApplyIndexProjection
    <2>2. all = Shown(r, k)
        BY <1>7, <1>9 DEF IndexProjects, Of, IndexOf
    <2> QED
        BY <1>1, <2>1, <2>2
<1>10. CASE /\ r.index > 0 /\ r.index # 0 /\ r.index \in DOMAIN Table.indexes
            /\ ~(IndexOf(r).projection = NoKey \/ IndexOf(r).projection.type = "ALL")
    <2> DEFINE names == KeyFieldsOf(IndexOf(r)) \cup IndexOf(r).projection.attributes
    <2>1. names = IndexFields(Of(r)) /\ Of(r) = IndexOf(r)
        <3>1. ValidateProjection(IndexOf(r).projection)
            BY <1>10, ServedTable DEF ValidateTable, ValidateIndex, IndexOf
        <3> QED
            BY <1>10, <3>1 DEF ValidateProjection, IndexFields, IndexOf, Of
    <2>2. PICK m : m = ProjectFields(d, names)
        OBVIOUS
    <2>3. /\ DOMAIN m = DOMAIN d \cap (names \cup KeyFields)
          /\ m = [x \in DOMAIN m |-> d[x]]
        BY <2>2 DEF ProjectFields, Only, Restrict
    <2>4. PICK p : p = ApplyProjection(m, r.fields)
        OBVIOUS
    <2>5. m = [x \in DOMAIN m |-> m[x]]
        BY <2>3
    <2>6. /\ DOMAIN p = {f \in DOMAIN m : f \in KeyFields \/ (r.fields # {} => f \in r.fields)}
          /\ p = [f \in DOMAIN p |-> m[f]]
        <3>1. Left(p, m, r.fields)
            BY <2>4, <2>5, Projects DEF Members
        <3> QED
            BY <3>1 DEF Left
    <2>7. Project(r, d) = p
        BY <1>10, <2>2, <2>4 DEF Project, ApplyIndexProjection
    <2>8. p = [f \in DOMAIN p |-> d[f]]
        BY <2>3, <2>6
    <2>9. \A f : ShownField(r, f) <=> \/ f \in KeyFields
                                     \/ /\ r.fields # {} => f \in r.fields
                                        /\ f \in names
        BY <1>10, <2>1 DEF ShownField, IndexProjects
    <2>10. \A f : f \in DOMAIN p <=> f \in DOMAIN d /\ ShownField(r, f)
        BY <2>3, <2>6, <2>9
    <2>11. p = Shown(r, k)
        BY <1>4, <2>8, <2>10
    <2> QED
        BY <1>1, <2>7, <2>11
<1> QED
    BY <1>3, <1>8, <1>9, <1>10

\* ProjectionsKeep of one exchange.
ReadShows(r, a) ==
    LET matching == IF r.op = "GET" THEN {r.keys} \cap DOMAIN rows ELSE Selected(r) IN
    /\ a.code = 404 => matching = {}
    /\ a.code = 200 =>
          IF r.op \in {"GET", "getIndex"}
          THEN \E k \in matching : a.body = ItemPayload(Shown(r, k))
          ELSE a.body = ListBody({Obj(Shown(r, k)) : k \in matching})

LEMMA ReadsShow ==
    ASSUME TypeOK, Started, server = "up", NEW r, IsRequest(r), Handles(r), r.op \in Reading
    PROVE  exchange'.request = r /\ ReadShows(r, exchange'.answer) /\ rows' = rows
<1> DEFINE Right == exchange'.request = r /\ ReadShows(r, exchange'.answer)
<1>1. ASSUME NEW c \in {400, 401, 500}, Reply(r, Refuse(c))
      PROVE  Right
    BY <1>1 DEF Reply, Refuse, Answer, ReadShows
<1>2. Unauthorized(r) \/ BadKey(r) \/ Fails(r) => Right
    BY <1>1 DEF Unauthorized, BadKey, Fails
<1>3. ASSUME r.op = "GET", Reply(r, Get(r)) PROVE Right
    <2>1. r.index = 0
        BY <1>3, Requested DEF IndexOps
    <2>2. r.keys \in DOMAIN rows => Get(r) = Answer(200, ItemPayload(Shown(r, r.keys)))
        BY <2>1, ProjectShows DEF Get, Project
    <2>3. CASE r.keys \in DOMAIN rows
        BY <1>3, <2>2, <2>3 DEF Reply, Answer, ReadShows
    <2>4. CASE r.keys \notin DOMAIN rows
        BY <1>3, <2>4 DEF Get, Reply, Refuse, Answer, ReadShows
    <2> QED
        BY <2>3, <2>4
<1>4. ASSUME r.op = "getIndex", \E a \in GetIndex(r) : Reply(r, a) PROVE Right
    <2>1. CASE Selected(r) = {}
        BY <1>4, <2>1 DEF GetIndex, Reply, Refuse, Answer, ReadShows
    <2>2. CASE Selected(r) # {}
        <3>1. PICK k \in Selected(r) :
                  Reply(r, Answer(200, ItemPayload(Project(r, InjectKeys(rows[k], k)))))
            BY <1>4, <2>2 DEF GetIndex
        <3>2. Reply(r, Answer(200, ItemPayload(Shown(r, k))))
            BY <3>1, ProjectShows
        <3> QED
            BY <1>4, <3>1, <3>2 DEF Reply, Answer, ReadShows
    <2> QED
        BY <2>1, <2>2
<1>5. ASSUME r.op \in {"list", "scan", "query", "scanIndex"}, Reply(r, List(r)) PROVE Right
    <2>1. {Obj(Project(r, InjectKeys(rows[k], k))) : k \in Selected(r)}
              = {Obj(Shown(r, k)) : k \in Selected(r)}
        BY ProjectShows
    <2>2. Reply(r, Answer(200, ListBody({Obj(Shown(r, k)) : k \in Selected(r)})))
        BY <1>5, <2>1 DEF List
    <2> QED
        BY <1>5, <2>2 DEF Reply, Answer, ReadShows
<1>6. Reads(r) => Right
    BY <1>3, <1>4, <1>5 DEF Reads
<1> HIDE DEF Right
<1>7. Unauthorized(r) \/ BadKey(r) \/ Fails(r) \/ Reads(r)
    BY DEF Handles, Put, Patch, Delete, Reading
<1>8. rows' = rows
    BY <1>7 DEF Unauthorized, BadKey, Fails, Reads
<1>9. Right
    BY <1>2, <1>6, <1>7
<1> QED
    BY <1>8, <1>9 DEF Right

LEMMA NextKeeps ==
    ASSUME TypeOK, Started, ProjectionsKeep, [Next]_vars
    PROVE  ProjectionsKeep'
<1>0. ASSUME config' = config, rows' = rows, NEW r
      PROVE  \A a : ReadShows(r, a)' <=> ReadShows(r, a)
    <2>1. /\ Table' = Table /\ KeyFields' = KeyFields /\ Of(r)' = Of(r)
          /\ IndexOf(r)' = IndexOf(r)
        BY <1>0 DEF Table, KeyFields, Of, IndexOf
    <2>2. \A k : InjectKeys(rows[k], k)' = InjectKeys(rows[k], k)
        BY <1>0, <2>1 DEF InjectKeys, KeyMembers
    <2>3. \A f : ShownField(r, f)' <=> ShownField(r, f)
        BY <2>1 DEF ShownField, IndexProjects, IndexFields
    <2>5. \A k : Shown(r, k)' = Shown(r, k)
        BY <2>2, <2>3 DEF Shown
    <2>4. Selected(r)' = Selected(r)
        BY <1>0, <2>1 DEF Selected, TextIs, HasText
    <2> QED
        BY <1>0, <2>4, <2>5 DEF ReadShows
<1>1. CASE Start
    BY <1>1 DEF Start, TypeOK, ProjectionsKeep
<1>2. CASE Serve
    <2>1. PICK r : IsRequest(r) /\ Handles(r)
        BY <1>2, ServeHandles
    <2>2. server = "up" /\ config' = config
        BY <1>2, ServeHandles
    <2>3. CASE r.op \notin Reading
        <3>1. exchange'.request = r
            BY <2>1 DEF Handles, Unauthorized, BadKey, Fails, Reads, Put, Patch, Delete, Reply
        <3> QED
            BY <2>3, <3>1 DEF ProjectionsKeep
    <2>4. CASE r.op \in Reading
        <3>1. exchange'.request = r /\ ReadShows(r, exchange'.answer) /\ rows' = rows
            BY <2>1, <2>2, <2>4, ReadsShow
        <3>2. PICK a : a = exchange'.answer
            OBVIOUS
        <3>3. ReadShows(r, a)'
            BY <1>0, <2>2, <3>1, <3>2
        <3> QED
            BY <3>1, <3>2, <3>3 DEF ProjectionsKeep, ReadShows
    <2> QED
        BY <2>3, <2>4
<1>3. CASE UNCHANGED vars
    <2>1. config' = config /\ rows' = rows /\ exchange' = exchange
        BY <1>3 DEF vars
    <2> SUFFICES ASSUME exchange # None, exchange.request.op \in Reading
                 PROVE  ReadShows(exchange.request, exchange.answer)'
        BY <2>1 DEF ProjectionsKeep, ReadShows
    <2>2. PICK r : r = exchange.request
        OBVIOUS
    <2>3. PICK a : a = exchange.answer
        OBVIOUS
    <2>4. ReadShows(r, a)
        BY <2>2, <2>3 DEF ProjectionsKeep, ReadShows
    <2>5. ReadShows(r, a)'
        BY <1>0, <2>1, <2>4
    <2> QED
        BY <2>1, <2>2, <2>3, <2>5 DEF ReadShows
<1> QED
    BY <1>1, <1>2, <1>3 DEF Next

\* A read returns the rows it selects, each with exactly the members that ?fields= and
\* the projection of the index leave of it (ApplyIndexProjection).
THEOREM ReadsProject == Spec => []ProjectionsKeep
<1>1. Init => ProjectionsKeep
    BY DEF Init, ProjectionsKeep
<1>2. TypeOK /\ Started /\ ProjectionsKeep /\ [Next]_vars => ProjectionsKeep'
    BY NextKeeps
<1> QED
    BY <1>1, <1>2, Typed, PTL DEF Spec

-----------------------------------------------------------------------------
(* What is stored, and what is answered, against the schema.               *)

\* A schema of an object with no other members than it declares.
ClosedObject(n) ==
    /\ Has(n, "type") /\ n.type = Str("object")
    /\ Has(n, "additionalProperties") /\ n.additionalProperties = Bool(FALSE)

\* The members m are those that such a schema wants.
Fits(n, m) ==
    /\ Required(n) \subseteq DOMAIN m
    /\ DOMAIN m \subseteq DOMAIN Properties(n)
    /\ \A p \in DOMAIN m : AcceptsMember(Properties(n)[p].m, m[p])

LEMMA ValueAccepted ==
    ASSUME NEW n, ClosedObject(n), NEW v, IsObj(v)
    PROVE  /\ Accepts(n, v) => Fits(n, v.m)
           /\ Fits(n, v.m) /\ DOMAIN n \cap WholeKeywords = {} => Accepts(n, v)
<1>1. v.t = "object" /\ Str("object").s = "object" /\ v.t \notin DOMAIN ValueKeywords
    BY DEF IsObj, Str, ValueKeywords
<1> QED
    BY <1>1 DEF ClosedObject, Accepts, AcceptsLevel, HasType, Fits, WholeKeywords, Has

LEMMA ObjectAccepted ==
    ASSUME NEW n, ClosedObject(n), NEW m
    PROVE  /\ Accepts(n, Obj(m)) => Fits(n, m)
           /\ Fits(n, m) /\ DOMAIN n \cap WholeKeywords = {} => Accepts(n, Obj(m))
<1>1. PICK v : v = Obj(m)
    OBVIOUS
<1>2. IsObj(v) /\ v.m = m
    BY <1>1 DEF Obj, IsObj
<1> QED
    BY <1>1, <1>2, ValueAccepted

LEMMA RangeOfOne == ASSUME NEW x PROVE Range(<<x>>) = {x}
<1>1. DOMAIN <<x>> = {1} /\ <<x>>[1] = x
    OBVIOUS
<1> QED
    BY <1>1 DEF Range

LEMMA RangeAppended ==
    ASSUME NEW S, NEW s \in Seq(S), NEW x
    PROVE  Range(s \o <<x>>) = Range(s) \cup {x}
<1> DEFINE q == s \o <<x>>
<1>1. DOMAIN s = 1..Len(s) /\ Len(s) \in Nat
    OBVIOUS
<1>2. /\ DOMAIN q = 1..(Len(s) + 1) /\ q[Len(s) + 1] = x
      /\ \A i \in 1..Len(s) : q[i] = s[i]
    OBVIOUS
<1> HIDE DEF q
<1>3. \A i \in DOMAIN q : i \in DOMAIN s \/ i = Len(s) + 1
    BY <1>1, <1>2
<1>4. Range(q) = Range(s) \cup {x}
    BY <1>1, <1>2, <1>3 DEF Range
<1> QED
    BY <1>4 DEF q

LEMMA SchemaClosed ==
    ASSUME TypeOK, Started, server = "up"
    PROVE  /\ ClosedObject(TableSchema)
           /\ ~Has(TableSchema, "nullable")
           /\ Has(TableSchema, "required") =>
                 TableSchema.required.q \in Seq(Range(TableSchema.required.q))
           /\ \A p \in DOMAIN Declared : IsObj(Declared[p])
<1>1. Compile(Table.schema) /\ Table \in Range(config.tables) /\ config \in Files
    BY ServedTable DEF TypeOK
<1>2. ValidateSchemaNode(TableSchema) /\ Has(TableSchema, "type") /\ TableSchema.type = Str("object")
    BY <1>1 DEF Compile, ValidateDefinition, TableSchema
<1>3. ClosedObject(TableSchema) /\ DOMAIN TableSchema \subseteq AllowedKeywords
    <2>1. TableSchema.type.t = "string" /\ TableSchema.type.s = "object"
        BY <1>2 DEF Str
    <2> QED
        BY <1>2, <2>1 DEF ClosedObject, ValidateSchemaNode, ValidLevel, RequiresClosedObject
<1>4. Has(TableSchema, "required") => TableSchema.required.q \in Seq(Range(TableSchema.required.q))
    BY <1>1, FilesAssumption DEF Compile, Compiles, CompilesLevel, TableSchema
<1>6. ~Has(TableSchema, "nullable")
    <2> DEFINE ofNodes == {"type", "properties", "required", "additionalProperties", "items", "pattern"}
               ofValues == UNION Range(ValueKeywords)
    <2>1. Range(ValueKeywords) = {ValueKeywords[t] : t \in {"string", "number", "array"}}
        BY DEF Range, ValueKeywords
    <2>2. \A t \in {"string", "number", "array"} : "nullable" \notin ValueKeywords[t]
        BY DEF ValueKeywords
    <2>3. "nullable" \notin ofValues
        BY <2>1, <2>2
    <2>4. "nullable" \notin WholeKeywords /\ "nullable" \notin Annotations
        BY DEF WholeKeywords, Annotations
    <2>5. "nullable" \notin ofNodes
        OBVIOUS
    <2>6. AllowedKeywords = ofNodes \cup ofValues \cup WholeKeywords \cup Annotations
        BY DEF AllowedKeywords
    <2> HIDE DEF ofNodes, ofValues
    <2>7. "nullable" \notin AllowedKeywords
        BY <2>3, <2>4, <2>5, <2>6
    <2> QED
        BY <1>3, <2>7 DEF Has
<1>5. \A p \in DOMAIN Declared : IsObj(Declared[p])
    BY <1>2 DEF ValidateSchemaNode, ValidLevel, Declared, Properties, HasObj
<1> QED
    BY <1>3, <1>4, <1>5, <1>6

\* The schemas of the OpenAPI document for what is answered, without the keywords
\* of whole documents: of an item, and of a projection.
LEMMA ResponseSchema ==
    ASSUME TypeOK, Started, server = "up"
    PROVE  LET item == Without(ItemResponse(Table), WholeKeywords \cup {})
               part == Without(ItemResponse(Table), WholeKeywords \cup {"required"})
           IN  /\ ClosedObject(item) /\ ClosedObject(part)
               /\ DOMAIN item \cap WholeKeywords = {} /\ DOMAIN part \cap WholeKeywords = {}
               /\ Properties(item) = Over([_type |-> TypeOf("item")], Declared)
               /\ Properties(part) = Over([_type |-> TypeOf("item")], Declared)
               /\ Required(item) = Required(TableSchema) \cup {"_type"}
               /\ Required(part) = {}
<1> DEFINE n == ItemResponse(Table)
           item == Without(n, WholeKeywords \cup {})
           part == Without(n, WholeKeywords \cup {"required"})
           q == (IF Has(TableSchema, "required") THEN TableSchema.required.q ELSE <<>>)
                \o <<Str("_type")>>
           props == Over([_type |-> TypeOf("item")], Declared)
<1>1. /\ DOMAIN n = {"properties", "required"} \cup DOMAIN TableSchema
      /\ n.properties = Obj(props) /\ n.required = Arr(q)
      /\ \A k \in DOMAIN TableSchema \ {"properties", "required"} : n[k] = TableSchema[k]
    BY DEF ItemResponse, TableSchema, Declared, Over
<1>7. /\ DOMAIN item = DOMAIN n \ WholeKeywords
      /\ DOMAIN part = DOMAIN n \ (WholeKeywords \cup {"required"})
      /\ \A k \in DOMAIN item : item[k] = n[k]
      /\ \A k \in DOMAIN part : part[k] = n[k]
    BY DEF Without, Restrict
<1> HIDE DEF n, props, item, part
<1>8. {"type", "additionalProperties", "properties"} \cap (WholeKeywords \cup {"required"}) = {}
      /\ "required" \notin WholeKeywords
    BY DEF WholeKeywords
<1>2. ClosedObject(item) /\ ClosedObject(part)
    BY <1>1, <1>7, <1>8, SchemaClosed DEF ClosedObject, Has
<1>6. DOMAIN item \cap WholeKeywords = {} /\ DOMAIN part \cap WholeKeywords = {}
    BY <1>7
<1>3. Properties(item) = props /\ Properties(part) = props
    BY <1>1, <1>7, <1>8 DEF Properties, HasObj, Has, IsObj, Obj
<1>4. Required(part) = {}
    BY <1>7 DEF Required, Has
<1>5. Required(item) = Required(TableSchema) \cup {"_type"}
    <2>0. "required" \in DOMAIN item /\ item.required = Arr(q)
        BY <1>1, <1>7, <1>8
    <2>1. Required(item) = {v.s : v \in Range(q)}
        BY <2>0 DEF Required, Has, Arr
    <2>2. CASE Has(TableSchema, "required")
        <3>1. PICK s : s = TableSchema.required.q
            OBVIOUS
        <3>2. s \in Seq(Range(s)) /\ q = s \o <<Str("_type")>>
            BY <2>2, <3>1, SchemaClosed
        <3>3. Range(q) = Range(s) \cup {Str("_type")}
            BY <3>2, RangeAppended
        <3> QED
            BY <2>1, <2>2, <3>1, <3>3 DEF Required, Str
    <2>3. CASE ~Has(TableSchema, "required")
        <3>1. q = <<Str("_type")>>
            BY <2>3
        <3>2. Range(q) = {Str("_type")}
            BY <3>1, RangeOfOne
        <3> QED
            BY <2>1, <2>3, <3>2 DEF Required, Str
    <2> QED
        BY <2>2, <2>3
<1> QED
    BY <1>2, <1>3, <1>4, <1>5, <1>6 DEF n, props, item, part

LEMMA AcceptedSound ==
    ASSUME TypeOK, Started, server = "up", NEW v, IsObj(v), Accepts(TableSchema, v)
    PROVE  Sound(v.m)
BY SchemaClosed, ValueAccepted DEF Sound, Declared, Fits

LEMMA SoundKept ==
    ASSUME NEW d, Sound(d), NEW keys
    PROVE  Sound(StripKeys(d)) /\ Sound(InjectKeys(d, keys))
<1>1. Sound(StripKeys(d))
    <2>1. /\ DOMAIN StripKeys(d) = DOMAIN d \ KeyFields
          /\ \A k \in DOMAIN d \ KeyFields : StripKeys(d)[k] = d[k]
        BY DEF StripKeys, Without, Restrict
    <2> QED
        BY <2>1 DEF Sound
<1>2. Sound(InjectKeys(d, keys))
    <2>1. /\ DOMAIN InjectKeys(d, keys) = KeyFields \cup DOMAIN d
          /\ \A k \in DOMAIN d \ KeyFields : InjectKeys(d, keys)[k] = d[k]
        BY DEF InjectKeys, KeyMembers, Over
    <2> QED
        BY <2>1 DEF Sound
<1> QED
    BY <1>1, <1>2

\* An item p of a sound document d is as the OpenAPI document says, but for some
\* keywords.
ItemDocumented(p, freed) ==
    \/ Accepts(Without(ItemResponse(Table), WholeKeywords \cup freed), ItemPayload(p))
    \/ ~Accepts(Without(TableSchema, WholeKeywords \cup {"required"}),
                Obj(Only(ItemPayload(p).m, KeyFields)))

LEMMA SoundAnswer ==
    ASSUME TypeOK, Started, server = "up", NEW d, Sound(d), NEW p, PartOf(p, d)
    PROVE  /\ ItemDocumented(p, {"required"})
           /\ DOMAIN p = DOMAIN d => ItemDocumented(p, {})
<1> DEFINE m == Over([_type |-> Str("item")], p)
           keys == Only(m, KeyFields)
           props == Over([_type |-> TypeOf("item")], Declared)
<1>1. /\ DOMAIN m = {"_type"} \cup DOMAIN p /\ m["_type"] = Str("item")
      /\ \A k \in DOMAIN p \ {"_type"} : m[k] = p[k]
    BY DEF Over
<1>2. DOMAIN p \subseteq DOMAIN d /\ \A k \in DOMAIN p : p[k] = d[k]
    BY DEF PartOf, Only, Restrict
<1>3. DOMAIN keys = KeyFields /\ \A k \in KeyFields : keys[k] = p[k]
    BY <1>1, ServedTable DEF PartOf, Only, Restrict
<1>4. /\ DOMAIN props = {"_type"} \cup DOMAIN Declared /\ props["_type"] = TypeOf("item")
      /\ \A k \in DOMAIN Declared \ {"_type"} : props[k] = Declared[k]
    BY DEF Over
<1>5. ItemPayload(p) = Obj(m) /\ ItemPayload(p).m = m
    BY DEF ItemPayload, Obj
<1> HIDE DEF m, keys, props
<1>6. AcceptsMember(TypeOf("item").m, Str("item"))
    <2>1. PICK n : n = TypeOf("item").m
        OBVIOUS
    <2>2. PICK v : v = Str("item")
        OBVIOUS
    <2>3. /\ DOMAIN n = {"type", "enum"} /\ n.type.s = "string" /\ Range(n.enum.q) = {v}
          /\ v.t = "string" /\ ~IsObj(v)
        BY <2>1, <2>2, RangeOfOne DEF TypeOf, Obj, Str, Arr, IsObj
    <2>4. ValueKeywords[v.t] \cap DOMAIN n = {}
        BY <2>3 DEF ValueKeywords
    <2>5. AcceptsMember(n, v)
        BY <2>3, <2>4 DEF AcceptsMember, AcceptsLevel, HasType, Has
    <2> QED
        BY <2>1, <2>2, <2>5
<1> SUFFICES ASSUME Accepts(Without(TableSchema, WholeKeywords \cup {"required"}), Obj(keys))
             PROVE  /\ Accepts(Without(ItemResponse(Table), WholeKeywords \cup {"required"}),
                               Obj(m))
                    /\ DOMAIN p = DOMAIN d =>
                          Accepts(Without(ItemResponse(Table), WholeKeywords \cup {}), Obj(m))
    BY <1>5 DEF ItemDocumented, keys
<1>7. \A k \in KeyFields : k \in DOMAIN Declared /\ AcceptsMember(Declared[k].m, p[k])
    <2>1. PICK n : n = Without(TableSchema, WholeKeywords \cup {"required"})
        OBVIOUS
    <2>2. /\ DOMAIN n = DOMAIN TableSchema \ (WholeKeywords \cup {"required"})
          /\ \A k \in DOMAIN n : n[k] = TableSchema[k]
        BY <2>1 DEF Without, Restrict
    <2>3. {"type", "additionalProperties", "properties"} \cap (WholeKeywords \cup {"required"}) = {}
        BY DEF WholeKeywords
    <2>4. ClosedObject(n) /\ Properties(n) = Declared
        BY <2>2, <2>3, SchemaClosed DEF ClosedObject, Has, HasObj, Properties, Declared
    <2> QED
        BY <1>3, <2>1, <2>4, ObjectAccepted DEF Fits
<1>8. \A k \in DOMAIN m : k \in DOMAIN props /\ AcceptsMember(props[k].m, m[k])
    BY <1>1, <1>2, <1>4, <1>6, <1>7 DEF Sound
<1>9. DOMAIN p = DOMAIN d => Required(TableSchema) \cup {"_type"} \subseteq DOMAIN m
    BY <1>1 DEF Sound, PartOf
<1> QED
    BY <1>8, <1>9, ResponseSchema, ObjectAccepted DEF props, Fits

LEMMA SoundStored ==
    ASSUME RowsSound, NEW keys, NEW d, Sound(d), Store(keys, d), config' = config
    PROVE  RowsSound'
<1>1. /\ DOMAIN rows' = {keys} \cup DOMAIN rows
      /\ rows'[keys] = StripKeys(d)
      /\ \A k \in DOMAIN rows \ {keys} : rows'[k] = rows[k]
    BY DEF Store, Over
<1>2. \A k \in DOMAIN rows' : Sound(rows'[k])
    BY <1>1, SoundKept DEF RowsSound
<1> QED
    BY <1>2 DEF RowsSound, Sound, TableSchema, Declared, KeyFields, Table

\* What is stored is sound, and so is what an answer is made of.
LEMMA HandlesSound ==
    ASSUME TypeOK, Started, server = "up", config' = config, RowsSound,
           NEW r, IsRequest(r), Handles(r)
    PROVE  RowsSound'
<1>1. CASE UNCHANGED rows
    BY <1>1 DEF RowsSound, Sound, TableSchema, Declared, KeyFields, Table
<1>2. CASE Put(r) /\ ~UNCHANGED rows
    <2>1. AcceptedPut(r) /\ Store(r.keys, r.body.m)
        BY <1>2 DEF Put
    <2>2. Sound(r.body.m)
        BY <2>1, AcceptedSound DEF AcceptedPut, TableSchema
    <2> QED
        BY <2>1, <2>2, SoundStored
<1>3. CASE Patch(r) /\ ~UNCHANGED rows
    <2>1. PICK m : AcceptedMerge(m) /\ Store(r.keys, m)
        BY <1>3 DEF Patch
    <2> QED
        <3>1. PICK v : v = Obj(m)
            OBVIOUS
        <3>2. IsObj(v) /\ v.m = m /\ Accepts(TableSchema, v)
            BY <2>1, <3>1 DEF AcceptedMerge, TableSchema, Obj, IsObj
        <3>3. Sound(m)
            BY <3>2, AcceptedSound
        <3> QED
            BY <2>1, <3>3, SoundStored
<1>4. CASE Delete(r)
    <2>1. DOMAIN rows' = DOMAIN rows \ {r.keys} /\ \A k \in DOMAIN rows' : rows'[k] = rows[k]
        BY <1>4 DEF Delete, Without, Restrict
    <2> QED
        BY <2>1 DEF RowsSound, Sound, TableSchema, Declared, KeyFields, Table
<1> QED
    BY <1>1, <1>2, <1>3, <1>4 DEF Handles, Unauthorized, BadKey, Fails, Reads

\* ResponsesDocumented of one exchange.
AnswerDocumented(r, a) ==
    /\ a.code \in DocumentedCodes(r.op, config.jwt)
    /\ a.code = 200 /\ "t" \in DOMAIN a.body =>
          \/ Accepts(Without(ItemResponse(Table),
                             WholeKeywords \cup (IF Projected(r) THEN {"required"} ELSE {})),
                     a.body)
          \/ ~Accepts(Without(Table.schema.m, WholeKeywords \cup {"required"}),
                      Obj(Only(a.body.m, KeyFields)))

\* A whole document in an answer, and a projection of one.
LEMMA WholeAnswer ==
    ASSUME TypeOK, Started, server = "up", NEW r, NEW d, NEW keys, Sound(d),
           200 \in DocumentedCodes(r.op, config.jwt)
    PROVE  AnswerDocumented(r, Answer(200, ItemPayload(InjectKeys(d, keys))))
<1>1. PICK p : p = InjectKeys(d, keys)
    OBVIOUS
<1>2. Sound(p) /\ PartOf(p, p)
    <2>1. PartOf(p, p)
        BY <1>1 DEF PartOf, InjectKeys, KeyMembers, Over, Only, Restrict
    <2> QED
        BY <1>1, <2>1, SoundKept
<1>3. ItemDocumented(p, {"required"}) /\ ItemDocumented(p, {})
    BY <1>2, SoundAnswer
<1> QED
    BY <1>1, <1>3 DEF AnswerDocumented, Answer, ItemDocumented, TableSchema

LEMMA ProjectedAnswer ==
    ASSUME TypeOK, Started, server = "up", NEW r, IsRequest(r), NEW d, NEW keys, Sound(d),
           200 \in DocumentedCodes(r.op, config.jwt)
    PROVE  AnswerDocumented(r, Answer(200, ItemPayload(Project(r, InjectKeys(d, keys)))))
<1>1. PICK document : document = InjectKeys(d, keys)
    OBVIOUS
<1>2. PICK p : p = Project(r, document)
    OBVIOUS
<1>3. /\ Sound(document) /\ KeyFields \subseteq DOMAIN document
      /\ document = [k \in DOMAIN document |-> document[k]]
    <2>1. /\ KeyFields \subseteq DOMAIN document
          /\ document = [k \in DOMAIN document |-> document[k]]
        BY <1>1 DEF InjectKeys, KeyMembers, Over
    <2> QED
        BY <1>1, <2>1, SoundKept
<1>4. PartOf(p, document)
    <2>1. ASSUME NEW m, PartOf(m, document), NEW fields
          PROVE  PartOf(ApplyProjection(m, fields), document)
        BY <2>1 DEF PartOf, ApplyProjection, ProjectFields, Only, Restrict
    <2>2. PartOf(document, document)
        BY <1>3 DEF PartOf, Only, Restrict
    <2>3. ASSUME NEW names PROVE PartOf(ProjectFields(document, names), document)
        BY <1>3 DEF PartOf, ProjectFields, Only, Restrict
    <2> QED
        BY <1>2, <2>1, <2>2, <2>3 DEF Project, ApplyIndexProjection
<1>5. CASE Projected(r)
    <2>1. ItemDocumented(p, {"required"})
        BY <1>3, <1>4, SoundAnswer
    <2> QED
        BY <1>1, <1>2, <1>5, <2>1 DEF AnswerDocumented, Answer, ItemDocumented, TableSchema
<1>6. CASE ~Projected(r)
    <2>1. r.index = 0 \/ r.index > 0
        BY Requested, ServedTable
    <2>2. p = document
        BY <1>2, <1>6, <2>1
           DEF Projected, IndexProjects, Project, ApplyProjection, ApplyIndexProjection, IndexOf, Of
    <2>3. ItemDocumented(p, {})
        BY <1>3, <1>4, <2>2, SoundAnswer
    <2> QED
        BY <1>1, <1>2, <1>6, <2>3 DEF AnswerDocumented, Answer, ItemDocumented, TableSchema
<1> QED
    BY <1>5, <1>6

LEMMA HandlesDocumented ==
    ASSUME TypeOK, Started, server = "up", RowsSound, NEW r, IsRequest(r), Handles(r)
    PROVE  \E a : Reply(r, a) /\ AnswerDocumented(r, a)
<1>0. ASSUME NEW c, c # 200, c \in DocumentedCodes(r.op, config.jwt), NEW b, Reply(r, Answer(c, b))
      PROVE  \E a : Reply(r, a) /\ AnswerDocumented(r, a)
    BY <1>0 DEF AnswerDocumented, Answer
<1>1. CASE Unauthorized(r) \/ BadKey(r) \/ Fails(r)
    BY <1>0, <1>1, Requested DEF Unauthorized, BadKey, Fails, Refuse, DocumentedCodes
<1>2. CASE Reads(r)
    <2>1. CASE r.op = "GET" /\ Reply(r, Get(r))
        <3>1. CASE r.keys \notin DOMAIN rows
            BY <1>0, <2>1, <3>1 DEF Get, Refuse, DocumentedCodes
        <3>2. CASE r.keys \in DOMAIN rows
            <4>1. r.index = 0
                BY <2>1, Requested DEF IndexOps
            <4>2. Get(r) = Answer(200, ItemPayload(Project(r, InjectKeys(rows[r.keys], r.keys))))
                BY <3>2, <4>1 DEF Get, Project
            <4>3. AnswerDocumented(r, Get(r))
                BY <2>1, <3>2, <4>2, ProjectedAnswer DEF RowsSound, DocumentedCodes
            <4> QED
                BY <2>1, <4>3
        <3> QED
            BY <3>1, <3>2
    <2>2. CASE r.op = "getIndex" /\ \E a \in GetIndex(r) : Reply(r, a)
        <3>1. CASE Selected(r) = {}
            BY <1>0, <2>2, <3>1 DEF GetIndex, Refuse, DocumentedCodes
        <3>2. CASE Selected(r) # {}
            <4>1. PICK k \in Selected(r) :
                      Reply(r, Answer(200, ItemPayload(Project(r, InjectKeys(rows[k], k)))))
                BY <2>2, <3>2 DEF GetIndex
            <4>2. Sound(rows[k])
                BY <4>1 DEF Selected, RowsSound
            <4> QED
                BY <2>2, <4>1, <4>2, ProjectedAnswer DEF DocumentedCodes
        <3> QED
            BY <3>1, <3>2
    <2>3. CASE r.op \in {"list", "scan", "query", "scanIndex"} /\ Reply(r, List(r))
        BY <2>3 DEF List, ListBody, Answer, AnswerDocumented, DocumentedCodes
    <2> QED
        BY <1>2, <2>1, <2>2, <2>3 DEF Reads
<1>3. CASE Put(r)
    <2>1. CASE Reply(r, Refuse(400))
        BY <1>0, <2>1 DEF Refuse, DocumentedCodes
    <2>2. CASE /\ AcceptedPut(r)
               /\ Reply(r, Answer(200, ItemPayload(InjectKeys(StripKeys(r.body.m), r.keys))))
        <3>1. Sound(StripKeys(r.body.m))
            BY <2>2, AcceptedSound, SoundKept DEF AcceptedPut, TableSchema
        <3>2. 200 \in DocumentedCodes(r.op, config.jwt)
            BY <1>3 DEF Put, DocumentedCodes
        <3> QED
            BY <2>2, <3>1, <3>2, WholeAnswer
    <2> QED
        BY <1>3, <2>1, <2>2 DEF Put
<1>4. CASE Patch(r)
    <2>0. r.op = "PATCH"
        BY <1>4 DEF Patch
    <2>1. CASE Reply(r, Refuse(400)) \/ Reply(r, Refuse(404))
        BY <1>0, <2>0, <2>1 DEF Refuse, DocumentedCodes
    <2>2. ASSUME NEW m, m = Merged(r, rows[r.keys]), AcceptedMerge(m),
                 Reply(r, Answer(200, ItemPayload(m)))
          PROVE  \E a : Reply(r, a) /\ AnswerDocumented(r, a)
        <3>1. PICK v : v = Obj(m)
            OBVIOUS
        <3>2. IsObj(v) /\ v.m = m /\ Accepts(TableSchema, v)
            BY <2>2, <3>1 DEF AcceptedMerge, TableSchema, Obj, IsObj
        <3>3. Sound(m)
            BY <3>2, AcceptedSound
        <3>4. InjectKeys(m, r.keys) = m
            BY <2>2 DEF Merged, InjectKeys, KeyMembers, Over
        <3>5. AnswerDocumented(r, Answer(200, ItemPayload(InjectKeys(m, r.keys))))
            BY <2>0, <3>3, WholeAnswer DEF DocumentedCodes
        <3> QED
            BY <2>2, <3>4, <3>5
    <2> QED
        BY <1>4, <2>1, <2>2 DEF Patch
<1>5. CASE Delete(r)
    BY <1>0, <1>5 DEF Delete, DocumentedCodes
<1> QED
    BY <1>1, <1>2, <1>3, <1>4, <1>5 DEF Handles

LEMMA NextSound ==
    ASSUME TypeOK, Started, RowsSound, ResponsesDocumented, [Next]_vars
    PROVE  RowsSound' /\ ResponsesDocumented'
<1>1. CASE Start
    BY <1>1 DEF Start, TypeOK, RowsSound, ResponsesDocumented
<1>2. CASE Serve
    <2>1. PICK r : IsRequest(r) /\ Handles(r)
        BY <1>2, ServeHandles
    <2>2. server = "up" /\ config' = config
        BY <1>2, ServeHandles
    <2>3. RowsSound'
        BY <2>1, <2>2, HandlesSound
    <2>4. PICK a : Reply(r, a) /\ AnswerDocumented(r, a)
        BY <2>1, <2>2, HandlesDocumented
    <2>5. /\ exchange'.request = r /\ exchange'.answer = a
          /\ Table' = Table /\ KeyFields' = KeyFields /\ Projected(r)' = Projected(r)
        BY <2>2, <2>4 DEF Reply, Table, KeyFields, Projected, IndexProjects, Of
    <2>6. ResponsesDocumented'
        BY <2>2, <2>4, <2>5 DEF AnswerDocumented, ResponsesDocumented
    <2> QED
        BY <2>3, <2>6
<1>3. CASE UNCHANGED vars
    BY <1>3 DEF vars, RowsSound, Sound, TableSchema, Declared, ResponsesDocumented, Projected,
           IndexProjects, Of, KeyFields, Table
<1> QED
    BY <1>1, <1>2, <1>3 DEF Next

LEMMA SoundAlways == Spec => [](IInv /\ ResponsesDocumented)
<1>1. Init => IInv /\ ResponsesDocumented
    BY Initially DEF Init, IInv, RowsSound, ResponsesDocumented
<1>2. IInv /\ ResponsesDocumented /\ [Next]_vars => (IInv /\ ResponsesDocumented)'
    BY NextType, NextSound DEF IInv
<1> QED
    BY <1>1, <1>2, PTL DEF Spec

\* The inductive invariant: with any files, keys and bodies the rows hold what the
\* schema accepts, but for the keys (handlePutItem, handlePatchItem).
THEOREM Invariance == Spec => []IInv
BY SoundAlways, PTL

\* Every answer has a status that the OpenAPI document lists, and an item in it is
\* what the document says but for the keywords of whole documents (WholeKeywords),
\* unless the schema refuses the keys that it adds
\* (buildItemResponseSchema, withAuthError).
THEOREM AnswersDocumented == Spec => []ResponsesDocumented
BY SoundAlways, PTL

-----------------------------------------------------------------------------
(* Requests against the OpenAPI document.                                  *)

\* The key that the nth value in the URL is checked against.
KeyOf(r, n) == IF n = 1 THEN Of(r).pk ELSE Of(r).rk

LEMMA KeysOf ==
    ASSUME TypeOK, Started, server = "up", NEW r, IsRequest(r), NEW n \in DOMAIN r.keys
    PROVE  /\ n \in {1, 2}
           /\ r.index = 0 => KeyOf(r, n).pattern # ""
           /\ r.index # 0 => r.index > 0 /\ KeyOf(r, n) \in {Of(r).pk, Of(r).rk} \ {NoKey}
<1>1. n \in {1, 2} /\ (n = 2 => KeyCount(Table, r.op) = 2)
    BY Requested DEF KeyCount
<1>2. CASE r.op \in IndexOps
    <2>1. /\ r.index \in DOMAIN Table.indexes /\ r.index > 0 /\ r.index # 0
          /\ Of(r) = Table.indexes[r.index]
        BY <1>2, Requested, ServedTable DEF Of
    <2>2. Of(r).pk # NoKey
        BY <2>1, ServedTable DEF Range
    <2>3. n = 2 => Of(r).rk # NoKey
        BY <1>1, <1>2, <2>1, Requested DEF KeyCount, IndexOps, ItemMethods, HasRK
    <2> QED
        BY <1>1, <2>1, <2>2, <2>3 DEF KeyOf
<1>3. CASE r.op \notin IndexOps
    <2>1. r.index = 0 /\ Of(r) = Table
        BY <1>3, Requested DEF Of
    <2>2. n = 2 => HasRK(Table)
        BY <1>1, <1>3, Requested DEF KeyCount, IndexOps
    <2> QED
        BY <1>1, <2>1, <2>2, ServedTable DEF KeyOf, HasRK, ValidateTable
<1> QED
    BY <1>2, <1>3

LEMMA KeyList ==
    ASSUME NEW r, IsRequest(r), NEW n \in DOMAIN r.keys
    PROVE  r.keys # <<>> /\ (n = 2 => Len(r.keys) > 1)
<1>1. PICK c \in Nat : r.keys \in [1..c -> UrlValues]
    BY Requested
<1>2. PICK s : s = r.keys
    OBVIOUS
<1>3. s \in [1..c -> UrlValues] /\ n \in DOMAIN s
    BY <1>1, <1>2
<1>4. Len(s) = c /\ s # <<>>
    BY <1>3
<1> QED
    BY <1>2, <1>3, <1>4

\* A key that is not enumerated is documented by its pattern.
LEMMA KeyDocumented ==
    ASSUME NEW key, key.pattern # "", ~Has(KeyPathSchema(Table, key), "enum"), NEW v
    PROVE  Accepts(KeyPathSchema(Table, key), Str(v))
              <=> key.pattern \in DOMAIN Matches /\ v \in Matches[key.pattern]
<1>1. KeyPathSchema(Table, key) = [type |-> Str("string"), pattern |-> Str(key.pattern)]
    BY DEF KeyPathSchema, Has
<1>2. PICK n : n = [type |-> Str("string"), pattern |-> Str(key.pattern)]
    OBVIOUS
<1>3. PICK w : w = Str(v)
    OBVIOUS
<1>4. /\ w.t = "string" /\ w.s = v /\ ~IsObj(w)
      /\ DOMAIN n = {"type", "pattern"} /\ n.type.s = "string" /\ n.pattern.s = key.pattern
    BY <1>2, <1>3 DEF Str, IsObj
<1>5. Accepts(n, w) <=> key.pattern \in DOMAIN Matches /\ v \in Matches[key.pattern]
    <2>1. ValueKeywords["string"] = {"minLength", "maxLength"}
        BY DEF ValueKeywords
    <2>2. ValueKeywords[w.t] \cap DOMAIN n = {}
        BY <1>4, <2>1
    <2> QED
        BY <1>4, <2>2 DEF Accepts, AcceptsLevel, HasType, Has
<1> QED
    BY <1>1, <1>2, <1>3, <1>5

\* The values that pass are documented, as far as the document has the pattern.
LEMMA AcceptedKeysDocumented ==
    ASSUME TypeOK, Started, server = "up", NEW r, IsRequest(r), KeysFine(r)
    PROVE  \/ DocumentedKeys(r) \/ EnumeratedKey(r)
           \/ r.index > 0 /\ \E key \in {Of(r).pk, Of(r).rk} \ {NoKey} : key.pattern = ""
<1> SUFFICES ASSUME ~EnumeratedKey(r), \A n \in DOMAIN r.keys : KeyOf(r, n).pattern # "",
                    NEW n \in DOMAIN r.keys
             PROVE  Accepts(KeyPathSchema(Table, KeyOf(r, n)), Str(r.keys[n]))
    BY KeysOf DEF DocumentedKeys, KeyOf
<1>1. KeyAccepted(r.keys[n], KeyOf(r, n))
    <2>1. n \in {1, 2} /\ r.keys # <<>> /\ (n = 2 => Len(r.keys) > 1)
        BY KeysOf, KeyList
    <2> QED
        BY <2>1 DEF KeysFine, KeysAccepted, KeyOf
<1>2. ~Has(KeyPathSchema(Table, KeyOf(r, n)), "enum")
    BY DEF EnumeratedKey, KeyOf
<1> QED
    BY <1>1, <1>2, KeyDocumented DEF KeyAccepted

\* The document's schema of a patch, with and without the keywords of whole
\* documents: the schema of the table, but that only the keys are required and
\* everything else may be null.
LEMMA PatchSchema ==
    ASSUME TypeOK, Started, server = "up"
    PROVE  LET n == PatchItem(Table)
               freed == Without(n, WholeKeywords)
           IN  /\ ClosedObject(n) /\ ~Has(n, "nullable") /\ Required(n) = KeyFields
               /\ ClosedObject(freed) /\ DOMAIN freed \cap WholeKeywords = {}
               /\ Properties(freed) = PatchProperties(Table)
               /\ Required(freed) = KeyFields
<1> DEFINE n == PatchItem(Table)
           freed == Without(n, WholeKeywords)
           q == IF HasRK(Table) THEN <<Str(Table.pk.field), Str(Table.rk.field)>>
                                ELSE <<Str(Table.pk.field)>>
<1>1. /\ DOMAIN n = {"properties", "required"} \cup DOMAIN TableSchema
      /\ n.properties = Obj(PatchProperties(Table)) /\ n.required = Arr(q)
      /\ \A k \in DOMAIN TableSchema \ {"properties", "required"} : n[k] = TableSchema[k]
    BY DEF PatchItem, TableSchema, Over
<1>5. /\ DOMAIN freed = DOMAIN n \ WholeKeywords
      /\ \A k \in DOMAIN freed : freed[k] = n[k]
    BY DEF Without, Restrict
<1> HIDE DEF n, freed
<1>6. {"type", "additionalProperties", "properties", "required"} \cap WholeKeywords = {}
    BY DEF WholeKeywords
<1>2. ClosedObject(n) /\ ~Has(n, "nullable")
    BY <1>1, SchemaClosed DEF ClosedObject, Has
<1>8. ClosedObject(freed) /\ DOMAIN freed \cap WholeKeywords = {} /\ Required(freed) = Required(n)
    BY <1>1, <1>2, <1>5, <1>6 DEF ClosedObject, Required, Has
<1>3. Properties(freed) = PatchProperties(Table)
    BY <1>1, <1>5, <1>6 DEF Properties, HasObj, Has, IsObj, Obj
<1>4. Required(n) = KeyFields
    <2>1. Required(n) = {v.s : v \in Range(q)}
        BY <1>1 DEF Required, Has, Arr
    <2>2. CASE HasRK(Table)
        <3>1. /\ q = <<Str(Table.pk.field), Str(Table.rk.field)>>
              /\ DOMAIN q = {1, 2} /\ q[1] = Str(Table.pk.field) /\ q[2] = Str(Table.rk.field)
            BY <2>2
        <3>2. Range(q) = {Str(Table.pk.field), Str(Table.rk.field)}
            BY <3>1 DEF Range
        <3> QED
            BY <2>1, <2>2, <3>2 DEF KeyFields, KeyFieldsOf, Str
    <2>3. CASE ~HasRK(Table)
        <3>1. Range(q) = {Str(Table.pk.field)}
            BY <2>3, RangeOfOne
        <3> QED
            BY <2>1, <2>3, <3>1 DEF KeyFields, KeyFieldsOf, Str
    <2> QED
        BY <2>2, <2>3
<1> QED
    BY <1>2, <1>3, <1>4, <1>8 DEF n, freed

\* A member that may be null: it accepts null, and every other value as before.
LEMMA NullableAccepts ==
    ASSUME NEW n
    PROVE  LET nullable == Over([nullable |-> Bool(TRUE)], n) IN
           /\ DOMAIN n \cap {"enum", "const"} = {} => AcceptsMember(nullable, Null)
           /\ \A v : ~IsObj(v) /\ AcceptsMember(n, v) => AcceptsMember(nullable, v)
<1> DEFINE nullable == Over([nullable |-> Bool(TRUE)], n)
<1>1. /\ DOMAIN nullable = {"nullable"} \cup DOMAIN n
      /\ \A k \in DOMAIN n \ {"nullable"} : nullable[k] = n[k]
    BY DEF Over
<1> HIDE DEF nullable
<1>2. ASSUME DOMAIN n \cap {"enum", "const"} = {} PROVE AcceptsMember(nullable, Null)
    <2>1. ~IsObj(Null) /\ Null.t \notin DOMAIN ValueKeywords /\ Null.t \notin {"string", "array"}
        BY DEF Null, IsObj, ValueKeywords
    <2> QED
        BY <1>1, <1>2, <2>1 DEF AcceptsMember, AcceptsLevel, Has
<1>3. ASSUME NEW v, ~IsObj(v), AcceptsMember(n, v) PROVE AcceptsMember(nullable, v)
    <2>1. ASSUME v.t \in DOMAIN ValueKeywords
          PROVE  ValueKeywords[v.t] \cap DOMAIN nullable \subseteq DOMAIN n \ {"nullable"}
        BY <1>1, <2>1 DEF ValueKeywords
    <2> QED
        BY <1>1, <1>3, <2>1 DEF AcceptsMember, AcceptsLevel, Has
<1> QED
    BY <1>2, <1>3 DEF nullable

\* What a patch that was applied says, as far as the document can say it, is
\* documented.
LEMMA PatchDocumented ==
    ASSUME TypeOK, Started, server = "up", NEW r, AcceptedPatch(r), NEW target,
           AcceptedMerge(Merged(r, target))
    PROVE  Accepts(Without(PatchItem(Table), WholeKeywords),
                   Obj(Only(r.body.m, Describable(r.body.m))))
<1> DEFINE patch == r.body.m
           part  == Only(patch, Describable(patch))
<1>1. PICK m : m = Merged(r, target)
    OBVIOUS
<1>2. /\ DOMAIN m \subseteq DOMAIN Declared
      /\ \A p \in DOMAIN m : AcceptsMember(Declared[p].m, m[p])
    BY <1>1, SchemaClosed, ObjectAccepted DEF AcceptedMerge, TableSchema, Declared, Fits
<1>3. DOMAIN part = Describable(patch) /\ \A p \in Describable(patch) : part[p] = patch[p]
    BY DEF Only, Restrict, Describable
<1>4. ASSUME NEW p \in KeyFields
      PROVE  /\ p \in Describable(patch) /\ p \in DOMAIN m
             /\ m[p] = patch[p]
    <2>1. p \in DOMAIN patch /\ patch[p] = KeyMembers(r.keys)[p]
        BY DEF AcceptedPatch, KeysAgree
    <2>2. patch[p].t = "string"
        BY <2>1 DEF KeyMembers, Str
    <2>3. p \in Describable(patch)
        BY <2>1, <2>2 DEF Describable, IsObj, Null
    <2>4. p \in DOMAIN m /\ m[p] = KeyMembers(r.keys)[p]
        BY <1>1 DEF Merged, InjectKeys, KeyMembers, Over
    <2> QED
        BY <2>1, <2>3, <2>4
<1>5. ASSUME NEW p \in Describable(patch) \ KeyFields, patch[p] # Null
      PROVE  p \in DOMAIN m /\ m[p] = patch[p]
    <2>1. p \in DOMAIN patch \ Nulls(patch) /\ ~IsObj(patch[p])
        BY <1>5 DEF Describable, Nulls
    <2>2. /\ p \in DOMAIN MergePatch(target, patch)
          /\ MergePatch(target, patch)[p] = patch[p]
        BY <2>1 DEF MergePatch, MergeLevel, Over
    <2> QED
        BY <1>1, <2>2 DEF Merged, InjectKeys, KeyMembers, Over
<1>6. ASSUME NEW p \in Describable(patch)
      PROVE  p \in DOMAIN Declared
    BY <1>2, <1>4, <1>5 DEF Describable, Declared, TableSchema
<1>7. ASSUME NEW p \in Describable(patch)
      PROVE  AcceptsMember(PatchProperties(Table)[p].m, patch[p])
    <2>1. CASE p \in KeyFields
        <3>1. PatchProperties(Table)[p] = Declared[p]
            BY <1>6, <2>1 DEF PatchProperties, Declared, TableSchema, KeyFields
        <3> QED
            BY <1>2, <1>4, <2>1, <3>1
    <2>2. CASE p \notin KeyFields
        <3>1. PatchProperties(Table)[p].m = Over([nullable |-> Bool(TRUE)], Declared[p].m)
            BY <1>6, <2>2 DEF PatchProperties, Declared, TableSchema, KeyFields, Obj
        <3>2. CASE patch[p] = Null
            <4>1. PropertyOf(Table, p) = Declared[p].m
                BY <1>6, SchemaClosed DEF PropertyOf, HasObj, Has, Declared, TableSchema
            <4>2. DOMAIN Declared[p].m \cap {"enum", "const"} = {}
                BY <3>2, <4>1 DEF Describable
            <4> QED
                BY <3>1, <3>2, <4>2, NullableAccepts
        <3>3. CASE patch[p] # Null
            <4>1. ~IsObj(patch[p]) /\ AcceptsMember(Declared[p].m, patch[p])
                BY <1>2, <1>5, <2>2, <3>3 DEF Describable
            <4> QED
                BY <3>1, <4>1, NullableAccepts
        <3> QED
            BY <3>2, <3>3
    <2> QED
        BY <2>1, <2>2
<1>8. DOMAIN PatchProperties(Table) = DOMAIN Declared
    BY DEF PatchProperties, Declared, TableSchema
<1> HIDE DEF part
<1>9. Accepts(Without(PatchItem(Table), WholeKeywords), Obj(part))
    BY <1>3, <1>4, <1>6, <1>7, <1>8, PatchSchema, ObjectAccepted DEF Fits
<1> QED
    BY <1>9 DEF part

\* AppliedRequestsDocumented of one request.
RequestDocumented(r) ==
    /\ \/ DocumentedKeys(r) \/ EnumeratedKey(r)
       \/ r.index > 0 /\ \E key \in {Of(r).pk, Of(r).rk} \ {NoKey} : key.pattern = ""
    /\ r.op = "PUT" => DocumentedBody(r)
    /\ r.op = "PATCH" => Accepts(Without(PatchItem(Table), WholeKeywords),
                                 Obj(Only(r.body.m, Describable(r.body.m))))

LEMMA AppliedDocumented ==
    ASSUME TypeOK, Started, server = "up", NEW r, IsRequest(r), Handles(r)
    PROVE  exchange'.request = r /\ (exchange'.answer.code \in {200, 204} => RequestDocumented(r))
<1>0. exchange'.request = r
    BY DEF Handles, Unauthorized, BadKey, Fails, Reads, Put, Patch, Delete, Reply
<1> SUFFICES ASSUME exchange'.answer.code \in {200, 204} PROVE RequestDocumented(r)
    BY <1>0
<1>1. KeysFine(r) /\ (Reads(r) \/ Put(r) \/ Patch(r) \/ Delete(r))
    BY DEF Handles, Unauthorized, BadKey, Fails, Handled, Reads, Put, Patch, Delete, Reply, Refuse,
           Answer
<1>2. r.op = "PUT" => DocumentedBody(r)
    <2>1. r.op = "PUT" => AcceptedPut(r)
        BY <1>1 DEF Reads, Put, Patch, Delete, Reply, Refuse, Answer
    <2> QED
        BY <2>1 DEF AcceptedPut, DocumentedBody, ItemSchema
<1>3. r.op = "PATCH" => Accepts(Without(PatchItem(Table), WholeKeywords),
                                Obj(Only(r.body.m, Describable(r.body.m))))
    <2>1. r.op = "PATCH" => AcceptedPatch(r) /\ AcceptedMerge(Merged(r, rows[r.keys]))
        BY <1>1 DEF Reads, Put, Patch, Delete, Reply, Refuse, Answer
    <2> QED
        BY <2>1, PatchDocumented
<1> QED
    BY <1>1, <1>2, <1>3, AcceptedKeysDocumented DEF RequestDocumented

LEMMA NextApplied ==
    ASSUME TypeOK, Started, AppliedRequestsDocumented, [Next]_vars
    PROVE  AppliedRequestsDocumented'
<1>1. CASE Start
    BY <1>1 DEF Start, TypeOK, AppliedRequestsDocumented
<1>2. CASE Serve
    <2>1. PICK r : IsRequest(r) /\ Handles(r)
        BY <1>2, ServeHandles
    <2>2. server = "up" /\ config' = config
        BY <1>2, ServeHandles
    <2>3. exchange'.request = r /\ (exchange'.answer.code \in {200, 204} => RequestDocumented(r))
        BY <2>1, <2>2, AppliedDocumented
    <2>4. RequestDocumented(r)' <=> RequestDocumented(r)
        BY <2>2 DEF RequestDocumented, DocumentedKeys, DocumentedBody, EnumeratedKey, Describable,
               Of, Table
    <2> QED
        BY <2>3, <2>4 DEF AppliedRequestsDocumented, RequestDocumented
<1>3. CASE UNCHANGED vars
    <2>1. \A r : RequestDocumented(r)' <=> RequestDocumented(r)
        BY <1>3 DEF vars, RequestDocumented, DocumentedKeys, DocumentedBody, EnumeratedKey,
               Describable, Of, Table
    <2> QED
        BY <1>3, <2>1 DEF vars, AppliedRequestsDocumented, RequestDocumented
<1> QED
    BY <1>1, <1>2, <1>3 DEF Next

\* What succeeds is documented: the keys and the body of a PUT, and of a patch what
\* the document can describe, WholeKeywords aside (keyPathSchema, buildPatchItemSchema).
THEOREM AppliedAreDocumented == Spec => []AppliedRequestsDocumented
<1>1. Init => AppliedRequestsDocumented
    BY DEF Init, AppliedRequestsDocumented
<1>2. TypeOK /\ Started /\ AppliedRequestsDocumented /\ [Next]_vars => AppliedRequestsDocumented'
    BY NextApplied
<1> QED
    BY <1>1, <1>2, Typed, PTL DEF Spec

-----------------------------------------------------------------------------
(* Property names.  What LegalBelow, NamesBelow and MergeBelow have in      *)
(* common is a hypothesis, NamesAgreeBelow, that one level of each hands   *)
(* on to the next: that is the step of the induction on the depth of a     *)
(* document.  The induction itself is MCService's to check on its bodies.  *)

NamesAgree(Legal(_), Names(_), Merge(_, _)) ==
    /\ \A v : Legal(v) <=> Names(v) \subseteq JsonKeys
    /\ \A v, w : IsObj(v) /\ IsObj(w) =>
          Names(Obj(Merge(v.m, w.m))) \subseteq Names(v) \cup Names(w)
NamesAgreeBelow == NamesAgree(LegalBelow, NamesBelow, MergeBelow)

LEMMA LegalNames ==
    ASSUME NamesAgreeBelow, NEW v
    PROVE  ValidateJSONKeys(v) <=> NamesIn(v) \subseteq JsonKeys
<1>1. CASE v.t = "object"
    BY <1>1 DEF NamesAgreeBelow, NamesAgree, ValidateJSONKeys, LegalLevel, NamesIn, NamesLevel
<1>2. CASE v.t = "array"
    BY <1>2 DEF NamesAgreeBelow, NamesAgree, ValidateJSONKeys, LegalLevel, NamesIn, NamesLevel
<1>3. CASE v.t \notin {"object", "array"}
    BY <1>3 DEF ValidateJSONKeys, LegalLevel, NamesIn, NamesLevel
<1> QED
    BY <1>1, <1>2, <1>3

\* The names of an object's members, and of what they hold.
LEMMA NamesOfObject ==
    ASSUME NEW v, IsObj(v)
    PROVE  NamesIn(v) = DOMAIN v.m \cup UNION {NamesBelow(v.m[k]) : k \in DOMAIN v.m}
BY DEF NamesIn, NamesLevel, IsObj

LEMMA NamesOfMerge ==
    ASSUME NamesAgreeBelow, NEW target, NEW patch, NEW k \in DOMAIN MergePatch(target, patch)
    PROVE  LET below(m) == IF k \in DOMAIN m THEN NamesBelow(m[k]) ELSE {} IN
           /\ k \in DOMAIN target \cup DOMAIN patch
           /\ NamesBelow(MergePatch(target, patch)[k]) \subseteq below(target) \cup below(patch)
<1>1. CASE k \in DOMAIN patch \ Nulls(patch)
    <2>1. MergePatch(target, patch)[k] =
              IF IsObj(patch[k]) /\ HasObj(target, k)
              THEN Obj(MergeBelow(target[k].m, patch[k].m)) ELSE patch[k]
        BY <1>1 DEF MergePatch, MergeLevel, Over
    <2> QED
        BY <1>1, <2>1 DEF NamesAgreeBelow, NamesAgree, HasObj, Has
<1>2. CASE k \notin DOMAIN patch \ Nulls(patch)
    <2>1. /\ k \in DOMAIN target \ Nulls(patch)
          /\ MergePatch(target, patch)[k] = target[k]
        BY <1>2 DEF MergePatch, MergeLevel, Over, Without, Restrict
    <2> QED
        BY <2>1
<1> QED
    BY <1>1, <1>2

\* The step of the induction: what holds below the outermost level holds with it.
LEMMA NamesHandOn == NamesAgreeBelow => NamesAgree(ValidateJSONKeys, NamesIn, MergePatch)
<1> SUFFICES ASSUME NamesAgreeBelow, NEW v, NEW w, IsObj(v), IsObj(w)
             PROVE  NamesIn(Obj(MergePatch(v.m, w.m))) \subseteq NamesIn(v) \cup NamesIn(w)
    BY LegalNames DEF NamesAgree
<1>1. PICK u : u = Obj(MergePatch(v.m, w.m))
    OBVIOUS
<1>2. IsObj(u) /\ u.m = MergePatch(v.m, w.m)
    BY <1>1 DEF Obj, IsObj
<1>3. ASSUME NEW k \in DOMAIN u.m
      PROVE  /\ k \in NamesIn(v) \cup NamesIn(w)
             /\ NamesBelow(u.m[k]) \subseteq NamesIn(v) \cup NamesIn(w)
    BY <1>2, <1>3, NamesOfMerge, NamesOfObject
<1>4. NamesIn(u) = DOMAIN u.m \cup UNION {NamesBelow(u.m[k]) : k \in DOMAIN u.m}
    BY <1>2, NamesOfObject
<1> QED
    BY <1>1, <1>3, <1>4

\* DocumentedRequestsAnswered of one request that is refused.
Undocumented(r) ==
    \/ ~DocumentedKeys(r) \/ ~DocumentedBody(r)
    \/ ~(Range(r.keys) \subseteq KeyValues) \/ EnumeratedKey(r)
    \/ r.body \in Unread
    \/ ~(NamesIn(r.body) \subseteq JsonKeys)
    \/ \E f \in KeyFields \cap DOMAIN r.body.m : r.body.m[f] # KeyMembers(r.keys)[f]
    \/ /\ r.op = "PATCH" /\ r.keys \in DOMAIN rows
       /\ ~Accepts(Table.schema.m,
                   Obj(Over(KeyMembers(r.keys), MergePatch(rows[r.keys], r.body.m))))

LEMMA BadKeyUndocumented ==
    ASSUME TypeOK, Started, server = "up", NEW r, IsRequest(r), ~KeysFine(r)
    PROVE  Undocumented(r)
<1> SUFFICES ASSUME ~EnumeratedKey(r), Range(r.keys) \subseteq KeyValues
             PROVE  ~DocumentedKeys(r)
    BY DEF Undocumented
<1>1. PICK n \in DOMAIN r.keys : ~KeyAccepted(r.keys[n], KeyOf(r, n))
    <2>1. PICK c \in 0..2 : r.keys \in [1..c -> UrlValues]
        BY Requested
    <2>2. PICK s : s = r.keys
        OBVIOUS
    <2>3. c \in Nat /\ s \in [1..c -> UrlValues]
        BY <2>1, <2>2
    <2>4. Len(s) = c /\ DOMAIN s = 1..c /\ (c = 0 => s = <<>>)
        BY <2>3
    <2> QED
        BY <2>1, <2>2, <2>4 DEF KeysFine, KeysAccepted, KeyOf
<1>2. r.keys[n] \in KeyValues
    BY DEF Range
<1>3. ~Accepts(KeyPathSchema(Table, KeyOf(r, n)), Str(r.keys[n]))
    BY <1>1, <1>2, KeyDocumented DEF KeyAccepted, EnumeratedKey, KeyOf
<1> QED
    BY <1>3 DEF DocumentedKeys, KeyOf

\* No schema of an object accepts anything else.
LEMMA NoObjectRefused ==
    ASSUME NEW n, ClosedObject(n), ~Has(n, "nullable"), NEW v, ~IsObj(v)
    PROVE  ~Accepts(n, v)
<1>1. n.type.s = "object" /\ v.t # "object"
    BY DEF ClosedObject, Str, IsObj
<1> QED
    BY <1>1 DEF ClosedObject, Accepts, AcceptsLevel, HasType, Str

LEMMA RefusedUndocumented ==
    ASSUME NamesAgreeBelow, TypeOK, Started, server = "up", NEW r, IsRequest(r), Handles(r)
    PROVE  exchange'.answer.code = 400 => Undocumented(r) /\ rows' = rows
<1> SUFFICES ASSUME exchange'.answer.code = 400, KeysFine(r) PROVE Undocumented(r) /\ rows' = rows
    BY BadKeyUndocumented
       DEF Handles, Unauthorized, BadKey, Fails, Handled, Reads, Put, Patch, Delete
<1>1. ~Unauthorized(r) /\ ~BadKey(r) /\ ~Fails(r) /\ ~Delete(r)
    BY DEF Unauthorized, BadKey, Fails, Delete, Reply, Refuse, Answer
<1>2. CASE Reads(r)
    BY <1>2 DEF Reads, Get, GetIndex, List, Reply, Refuse, Answer
<1>3. CASE Put(r)
    <2>1. ~AcceptedPut(r) /\ r.op = "PUT" /\ rows' = rows
        BY <1>3 DEF Put, Reply, Answer
    <2>2. ~IsObj(r.body) => ~DocumentedBody(r)
        BY <2>1, SchemaClosed, NoObjectRefused DEF DocumentedBody, ItemSchema, TableSchema
    <2> QED
        BY <2>1, <2>2, LegalNames
           DEF Undocumented, AcceptedPut, KeysAgree, DocumentedBody, ItemSchema
<1>4. CASE Patch(r)
    <2>1. /\ r.op = "PATCH" /\ rows' = rows
          /\ ~AcceptedPatch(r) \/ (r.keys \in DOMAIN rows /\ ~AcceptedMerge(Merged(r, rows[r.keys])))
        BY <1>4 DEF Patch, Reply, Refuse, Answer
    <2>2. ~IsObj(r.body) => ~DocumentedBody(r)
        BY <2>1, PatchSchema, NoObjectRefused DEF DocumentedBody
    <2>3. IsObj(r.body) /\ ~(KeyFields \subseteq DOMAIN r.body.m) => ~DocumentedBody(r)
        BY <2>1, PatchSchema, ValueAccepted DEF DocumentedBody, Fits
    <2> QED
        BY <2>1, <2>2, <2>3, LegalNames
           DEF Undocumented, AcceptedPatch, KeysAgree, AcceptedMerge, Merged, InjectKeys
<1> QED
    BY <1>1, <1>2, <1>3, <1>4 DEF Handles

LEMMA NextRefused ==
    ASSUME NamesAgreeBelow, TypeOK, Started, DocumentedRequestsAnswered, [Next]_vars
    PROVE  DocumentedRequestsAnswered'
<1>0. ASSUME config' = config, rows' = rows
      PROVE  \A r : Undocumented(r)' <=> Undocumented(r)
    BY <1>0 DEF Undocumented, DocumentedKeys, DocumentedBody, EnumeratedKey, KeyMembers, KeyFields,
           Of, Table
<1>1. CASE Start
    BY <1>1 DEF Start, TypeOK, DocumentedRequestsAnswered
<1>2. CASE Serve
    <2>1. PICK r : IsRequest(r) /\ Handles(r)
        BY <1>2, ServeHandles
    <2>2. server = "up" /\ config' = config
        BY <1>2, ServeHandles
    <2>3. exchange'.request = r
        BY <2>1, <2>2, AppliedDocumented
    <2>4. exchange'.answer.code = 400 => Undocumented(r) /\ rows' = rows
        BY <2>1, <2>2, RefusedUndocumented
    <2> QED
        BY <1>0, <2>2, <2>3, <2>4 DEF DocumentedRequestsAnswered, Undocumented
<1>3. CASE UNCHANGED vars
    BY <1>0, <1>3 DEF vars, DocumentedRequestsAnswered, Undocumented
<1> QED
    BY <1>1, <1>2, <1>3 DEF Next

\* A request as the OpenAPI document describes it is refused only for what the
\* document cannot say (MaxBytesReader, ValidateKeyValue, ValidateJSONKeys, the keys in the body).
THEOREM DocumentedAreAnswered ==
    ASSUME NamesAgreeBelow
    PROVE  Spec => []DocumentedRequestsAnswered
<1>1. Init => DocumentedRequestsAnswered
    BY DEF Init, DocumentedRequestsAnswered
<1>2. TypeOK /\ Started /\ DocumentedRequestsAnswered /\ [Next]_vars => DocumentedRequestsAnswered'
    BY NextRefused
<1> QED
    BY <1>1, <1>2, Typed, PTL DEF Spec

\* The names of some members of an object are among those of the object, and the
\* keys are stripped before a document is stored.
LEMMA StrippedLegal ==
    ASSUME NEW m, NEW d, DOMAIN d \subseteq KeyFields \cup DOMAIN m,
           \A k \in DOMAIN d \ KeyFields : d[k] = m[k],
           NamesIn(Obj(m)) \subseteq JsonKeys
    PROVE  NamesIn(Obj(StripKeys(d))) \subseteq JsonKeys
<1>1. PICK u : u = Obj(StripKeys(d))
    OBVIOUS
<1>2. PICK v : v = Obj(m)
    OBVIOUS
<1>3. IsObj(u) /\ IsObj(v) /\ u.m = StripKeys(d) /\ v.m = m
    BY <1>1, <1>2 DEF Obj, IsObj
<1>4. DOMAIN u.m \subseteq DOMAIN v.m /\ \A k \in DOMAIN u.m : u.m[k] = v.m[k]
    BY <1>3 DEF StripKeys, Without, Restrict
<1> QED
    BY <1>1, <1>2, <1>3, <1>4, NamesOfObject

LEMMA HandlesLegal ==
    ASSUME NamesAgreeBelow, StoredNamesLegal, config' = config, NEW r, Handles(r)
    PROVE  StoredNamesLegal'
<1>1. CASE UNCHANGED rows
    BY <1>1 DEF StoredNamesLegal
<1>2. ASSUME NEW d, NamesIn(Obj(StripKeys(d))) \subseteq JsonKeys, Store(r.keys, d)
      PROVE  StoredNamesLegal'
    BY <1>2 DEF Store, Over, StoredNamesLegal
<1>3. ASSUME NEW v, IsObj(v), ValidateJSONKeys(v) PROVE NamesIn(Obj(v.m)) \subseteq JsonKeys
    <2>1. PICK u : u = Obj(v.m)
        OBVIOUS
    <2>2. IsObj(u) /\ u.m = v.m
        BY <2>1 DEF Obj, IsObj
    <2> QED
        BY <1>3, <2>1, <2>2, LegalNames, NamesOfObject
<1>4. CASE Put(r) /\ ~UNCHANGED rows
    <2>1. AcceptedPut(r) /\ Store(r.keys, r.body.m)
        BY <1>4 DEF Put
    <2>2. NamesIn(Obj(r.body.m)) \subseteq JsonKeys
        BY <1>3, <2>1 DEF AcceptedPut
    <2>3. NamesIn(Obj(StripKeys(r.body.m))) \subseteq JsonKeys
        BY <2>2, StrippedLegal
    <2> QED
        BY <1>2, <2>1, <2>3
<1>5. CASE Patch(r) /\ ~UNCHANGED rows
    <2>1. /\ AcceptedPatch(r) /\ r.keys \in DOMAIN rows
          /\ Store(r.keys, Merged(r, rows[r.keys]))
        BY <1>5 DEF Patch
    <2> DEFINE target == rows[r.keys]
               merge  == MergePatch(target, r.body.m)
    <2>2. /\ NamesIn(Obj(target)) \subseteq JsonKeys
          /\ NamesIn(Obj(r.body.m)) \subseteq JsonKeys
        BY <1>3, <2>1 DEF StoredNamesLegal, AcceptedPatch
    <2>3. NamesIn(Obj(merge)) \subseteq JsonKeys
        <3>1. PICK v : v = Obj(target)
            OBVIOUS
        <3>2. PICK w : w = Obj(r.body.m)
            OBVIOUS
        <3>3. IsObj(v) /\ IsObj(w) /\ v.m = target /\ w.m = r.body.m
            BY <3>1, <3>2 DEF Obj, IsObj
        <3>4. NamesIn(Obj(MergePatch(v.m, w.m))) \subseteq NamesIn(v) \cup NamesIn(w)
            BY <3>3, NamesHandOn DEF NamesAgree
        <3> QED
            BY <2>2, <3>1, <3>2, <3>3, <3>4
    <2>4. PICK d : d = Merged(r, target)
        OBVIOUS
    <2>5. /\ DOMAIN d \subseteq KeyFields \cup DOMAIN merge
          /\ \A k \in DOMAIN d \ KeyFields : d[k] = merge[k]
        BY <2>4 DEF Merged, InjectKeys, KeyMembers, Over
    <2>6. NamesIn(Obj(StripKeys(d))) \subseteq JsonKeys
        BY <2>3, <2>5, StrippedLegal
    <2> QED
        BY <1>2, <2>1, <2>4, <2>6
<1>6. CASE Delete(r)
    BY <1>6 DEF Delete, Without, Restrict, StoredNamesLegal
<1> QED
    BY <1>1, <1>4, <1>5, <1>6 DEF Handles, Unauthorized, BadKey, Fails, Reads

\* No name that the service keeps for itself is ever stored, at any depth
\* (ValidateJSONKeys, MergePatch).
THEOREM NamesStayLegal ==
    ASSUME NamesAgreeBelow
    PROVE  Spec => []StoredNamesLegal
<1>1. Init => StoredNamesLegal
    BY DEF Init, StoredNamesLegal
<1>2. StoredNamesLegal /\ [Next]_vars => StoredNamesLegal'
    <2>1. CASE Start
        BY <2>1 DEF Start, StoredNamesLegal
    <2>2. CASE Serve
        BY <2>2, ServeHandles, HandlesLegal
    <2>3. CASE UNCHANGED vars
        BY <2>3 DEF vars, StoredNamesLegal
    <2> QED
        BY <2>1, <2>2, <2>3 DEF Next
<1> QED
    BY <1>1, <1>2, PTL DEF Spec

-----------------------------------------------------------------------------
(* Undeclared members: again what holds below is a hypothesis, of the check *)
(* of definitions, the validator and what it leaves unsaid, and is handed   *)
(* on from one level to the next.                                          *)

NothingUnsaid(Valid(_), HasTypes(_), Accepting(_, _), Unsaid(_, _)) ==
    \A n, v : Valid(n) /\ HasTypes(n) /\ Accepting(n, v) => ~Unsaid(n, v)
NothingUnsaidBelow == NothingUnsaid(ValidBelow, TypedBelow, AcceptsMember, UndeclaredBelow)

LEMMA UnsaidHandOn ==
    NothingUnsaidBelow => NothingUnsaid(ValidateSchemaNode, EveryNodeTyped, Accepts, Undeclared)
<1> SUFFICES ASSUME NothingUnsaidBelow, NEW n, NEW v,
                    ValidateSchemaNode(n), EveryNodeTyped(n), Accepts(n, v)
             PROVE  ~Undeclared(n, v)
    BY DEF NothingUnsaid
<1>1. /\ Has(n, "type") /\ n.type.t = "string"
      /\ v.t = n.type.s \/ v.t = "number" \/ v = Null
    BY DEF EveryNodeTyped, TypedLevel, ValidateSchemaNode, ValidLevel, Accepts, AcceptsLevel, HasType
<1>2. CASE v.t = "object"
    <2>1. n.type.s = "object"
        BY <1>1, <1>2 DEF Null
    <2>2. DOMAIN v.m \subseteq DOMAIN Properties(n)
        BY <1>1, <1>2, <2>1 DEF ValidateSchemaNode, ValidLevel, RequiresClosedObject,
               Accepts, AcceptsLevel, IsObj
    <2>3. ASSUME NEW p \in DOMAIN v.m
          PROVE  ~UndeclaredBelow(Properties(n)[p].m, v.m[p])
        <3>1. AcceptsMember(Properties(n)[p].m, v.m[p])
            BY <1>2, <2>2 DEF Accepts, AcceptsLevel, IsObj
        <3>2. ValidBelow(Properties(n)[p].m) /\ TypedBelow(Properties(n)[p].m)
            BY <2>2 DEF ValidateSchemaNode, ValidLevel, EveryNodeTyped, TypedLevel,
                   Properties, HasObj
        <3> QED
            BY <3>1, <3>2 DEF NothingUnsaidBelow, NothingUnsaid
    <2> QED
        BY <1>2, <2>2, <2>3 DEF Undeclared, UndeclaredLevel
<1>3. CASE v.t = "array"
    <2>0. n.type.s = "array" /\ Has(n, "items")
        BY <1>1, <1>3 DEF Null, EveryNodeTyped, TypedLevel
    <2>1. ASSUME NEW i \in DOMAIN v.q
          PROVE  ~UndeclaredBelow(n.items.m, v.q[i])
        <3>1. AcceptsMember(n.items.m, v.q[i])
            BY <1>3, <2>0 DEF Accepts, AcceptsLevel
        <3>2. ValidBelow(n.items.m) /\ TypedBelow(n.items.m)
            BY <2>0 DEF ValidateSchemaNode, ValidLevel, EveryNodeTyped, TypedLevel
        <3> QED
            BY <3>1, <3>2 DEF NothingUnsaidBelow, NothingUnsaid
    <2> QED
        BY <1>3, <2>0, <2>1 DEF Undeclared, UndeclaredLevel
<1> QED
    BY <1>2, <1>3 DEF Undeclared, UndeclaredLevel

LEMMA SoundDeclared ==
    ASSUME NothingUnsaidBelow, TypeOK, Started, RowsSound
    PROVE  StoredDeclared
<1> SUFFICES ASSUME server = "up", EveryNodeTyped(TableSchema), NEW k \in DOMAIN rows
             PROVE  ~Undeclared(TableSchema, Obj(rows[k]))
    BY DEF StoredDeclared, TableSchema
<1>1. PICK v : v = Obj(rows[k])
    OBVIOUS
<1>2. v.t = "object" /\ v.m = rows[k]
    BY <1>1 DEF Obj
<1>3. ASSUME NEW p \in DOMAIN v.m
      PROVE  p \in DOMAIN Declared /\ ~UndeclaredBelow(Declared[p].m, v.m[p])
    <2>1. p \notin KeyFields
        BY <1>2 DEF TypeOK
    <2>2. p \in DOMAIN Declared /\ AcceptsMember(Declared[p].m, v.m[p])
        BY <1>2, <2>1 DEF RowsSound, Sound
    <2>3. ValidateSchemaNode(TableSchema)
        BY ServedTable DEF Compile, ValidateDefinition, TableSchema
    <2>4. ValidBelow(Declared[p].m) /\ TypedBelow(Declared[p].m)
        BY <2>2, <2>3 DEF ValidateSchemaNode, ValidLevel, EveryNodeTyped, TypedLevel,
               Declared, Properties, HasObj
    <2> QED
        BY <2>2, <2>4 DEF NothingUnsaidBelow, NothingUnsaid
<1> QED
    BY <1>1, <1>2, <1>3 DEF Undeclared, UndeclaredLevel, Declared

\* Where every node of the schema is typed, nothing that it does not declare is ever
\* stored, whatever is put and patched (validateSchemaNode, Validate, handlePatchItem).
THEOREM DeclaredStored ==
    ASSUME NothingUnsaidBelow
    PROVE  Spec => []StoredDeclared
<1>1. IInv => StoredDeclared
    BY SoundDeclared DEF IInv
<1> QED
    BY <1>1, Invariance, PTL

-----------------------------------------------------------------------------
(* Merges against RFC 7396, in the same way.                               *)

MergesAgree(Json(_), Merge(_, _), Rfc(_, _), Meet(_, _), Holds(_)) ==
    \A target, patch : Json(patch) =>
        /\ ~IsObj(patch) => Rfc(target, patch) = patch
        /\ IsObj(patch) /\ ~IsObj(target) /\ ~Holds(patch) => Rfc(target, patch) = patch
        /\ IsObj(patch) /\ IsObj(target) /\ ~Meet(target.m, patch.m) =>
              Rfc(target, patch) = Obj(Merge(target.m, patch.m))
MergesAgreeBelow == MergesAgree(JsonBelow, MergeBelow, RfcBelow, NullsMeetBelow, HoldsNullBelow)

LEMMA MergesHandOn ==
    MergesAgreeBelow =>
        MergesAgree(IsJson, MergePatch, Rfc7396, NullsMeetNoObject, HoldsNull)
<1> SUFFICES ASSUME MergesAgreeBelow, NEW target, NEW patch, IsJson(patch), IsObj(patch)
             PROVE  /\ ~IsObj(target) /\ ~HoldsNull(patch) => Rfc7396(target, patch) = patch
                    /\ IsObj(target) /\ ~NullsMeetNoObject(target.m, patch.m) =>
                          Rfc7396(target, patch) = Obj(MergePatch(target.m, patch.m))
    BY DEF MergesAgree, Rfc7396, RfcLevel
<1> DEFINE kept == DOMAIN patch.m \ Nulls(patch.m)
           merged(base) ==
               [k \in kept |-> RfcBelow(IF Has(base, k) THEN base[k] ELSE Null, patch.m[k])]
<1>1. /\ patch = Obj(patch.m) /\ patch.m = [k \in DOMAIN patch.m |-> patch.m[k]]
      /\ \A k \in DOMAIN patch.m : JsonBelow(patch.m[k])
    BY DEF IsJson, JsonLevel
<1>2. ASSUME NEW k \in DOMAIN patch.m, NEW v, ~IsObj(v),
             ~IsObj(patch.m[k]) \/ ~HoldsNullBelow(patch.m[k])
      PROVE  RfcBelow(v, patch.m[k]) = patch.m[k]
    BY <1>1, <1>2 DEF MergesAgreeBelow, MergesAgree
<1>3. CASE ~IsObj(target) /\ ~HoldsNull(patch)
    <2>1. Nulls(patch.m) = {} /\ \A k \in DOMAIN patch.m : ~HoldsNullBelow(patch.m[k])
        BY <1>3 DEF HoldsNull, HoldsNullLevel, Nulls
    <2>2. Rfc7396(target, patch) = Obj(Over(merged(<<>>), Without(<<>>, Nulls(patch.m))))
        BY <1>3 DEF Rfc7396, RfcLevel
    <2>3. ~IsObj(Null)
        BY DEF Null, IsObj
    <2>4. merged(<<>>) = patch.m
        BY <1>1, <1>2, <2>1, <2>3 DEF Has
    <2>5. Over(patch.m, Without(<<>>, Nulls(patch.m))) = patch.m
        BY <1>1 DEF Over, Without, Restrict
    <2> HIDE DEF merged
    <2>6. Rfc7396(target, patch) = Obj(patch.m)
        BY <2>2, <2>4, <2>5
    <2> QED
        BY <1>1, <1>3, <2>6
<1>4. CASE IsObj(target) /\ ~NullsMeetNoObject(target.m, patch.m)
    <2>1. ASSUME NEW k \in kept
          PROVE  RfcBelow(IF Has(target.m, k) THEN target.m[k] ELSE Null, patch.m[k]) =
                     IF IsObj(patch.m[k]) /\ HasObj(target.m, k)
                     THEN Obj(MergeBelow(target.m[k].m, patch.m[k].m))
                     ELSE patch.m[k]
        <3>1. CASE IsObj(patch.m[k]) /\ HasObj(target.m, k)
            <4>1. ~NullsMeetBelow(target.m[k].m, patch.m[k].m)
                BY <1>4, <3>1 DEF NullsMeetNoObject, NullsMeetLevel
            <4> QED
                BY <1>1, <3>1, <4>1 DEF MergesAgreeBelow, MergesAgree, HasObj
        <3>2. CASE IsObj(patch.m[k]) /\ ~HasObj(target.m, k)
            <4>1. ~HoldsNullBelow(patch.m[k])
                BY <1>4, <3>2 DEF NullsMeetNoObject, NullsMeetLevel
            <4>2. ~IsObj(IF Has(target.m, k) THEN target.m[k] ELSE Null)
                BY <3>2 DEF HasObj, Null, IsObj
            <4> QED
                BY <1>2, <3>2, <4>1, <4>2
        <3>3. CASE ~IsObj(patch.m[k])
            BY <1>1, <3>3 DEF MergesAgreeBelow, MergesAgree
        <3> QED
            BY <3>1, <3>2, <3>3
    <2> QED
        BY <1>4, <2>1 DEF Rfc7396, RfcLevel, MergePatch, MergeLevel
<1> QED
    BY <1>3, <1>4

\* The keys are in the stored document of no patch, whatever it merges them with.
LEMMA MergeStored ==
    ASSUME MergesAgreeBelow, NEW r, r.body \in PatchBodies, IsObj(r.body),
           ~NullsMeetNoObject(rows[r.keys], r.body.m)
    PROVE  StripKeys(Merged(r, rows[r.keys])) = RfcResult(r)
<1> DEFINE merge == MergePatch(rows[r.keys], r.body.m)
<1>1. PICK target : target = Obj(rows[r.keys])
    OBVIOUS
<1>2. IsObj(target) /\ target.m = rows[r.keys]
    BY <1>1 DEF Obj, IsObj
<1>3. Rfc7396(target, r.body) = Obj(merge)
    BY <1>2, MergesHandOn, BodiesAssumption DEF MergesAgree
<1>4. RfcResult(r) = StripKeys(merge)
    BY <1>1, <1>3 DEF RfcResult, Obj
<1>5. PICK m : m = Merged(r, rows[r.keys])
    OBVIOUS
<1>6. DOMAIN m = KeyFields \cup DOMAIN merge /\ \A k \in DOMAIN merge \ KeyFields : m[k] = merge[k]
    BY <1>5 DEF Merged, InjectKeys, KeyMembers, Over
<1>7. StripKeys(m) = StripKeys(merge)
    BY <1>6 DEF StripKeys, Without, Restrict
<1> QED
    BY <1>4, <1>5, <1>7

\* A patch is applied as RFC 7396 says unless an object of it brings a null to where
\* there is no object (MergePatch).
THEOREM PatchesByTheStandard ==
    ASSUME MergesAgreeBelow
    PROVE  Spec => PatchDiffersByNulls
<1> DEFINE Step ==
        exchange' # None =>
            LET r == exchange'.request IN
            Patched(r) => \/ NullsMeetNoObject(rows[r.keys], r.body.m)
                          \/ rows'[r.keys] = RfcResult(r)
<1>1. TypeOK /\ Started /\ [Next]_vars => [Step]_vars
    <2> SUFFICES ASSUME TypeOK, Started, Next, exchange' # None, Patched(exchange'.request)
                 PROVE  LET r == exchange'.request IN
                        \/ NullsMeetNoObject(rows[r.keys], r.body.m)
                        \/ rows'[r.keys] = RfcResult(r)
        OBVIOUS
    <2>1. CASE Start
        BY <2>1 DEF Start, TypeOK
    <2>2. CASE Serve
        <3>1. PICK r : IsRequest(r) /\ Handles(r)
            BY <2>2, ServeHandles
        <3>2. exchange'.request = r
            BY <2>2, <3>1, ServeHandles, AppliedDocumented
        <3>3. /\ r.op = "PATCH" /\ AcceptedPatch(r)
              /\ Store(r.keys, Merged(r, rows[r.keys]))
            BY <3>1, <3>2 DEF Patched, Handles, Unauthorized, BadKey, Fails, Reads, Put, Patch,
                   Delete, Reply, Refuse, Answer
        <3>4. rows'[r.keys] = StripKeys(Merged(r, rows[r.keys]))
            BY <3>3 DEF Store, Over
        <3>5. r.body \in PatchBodies /\ IsObj(r.body)
            <4>1. r.body \in Bodies(r.op)
                BY <3>1 DEF IsRequest, Request
            <4> QED
                BY <3>3, <4>1 DEF AcceptedPatch, Bodies
        <3> QED
            BY <3>2, <3>4, <3>5, MergeStored
    <2> QED
        BY <2>1, <2>2 DEF Next
<1> QED
    BY <1>1, Typed, PTL DEF Spec, PatchDiffersByNulls
=============================================================================
