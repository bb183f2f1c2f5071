---------------------------- MODULE RoutesProofs ----------------------------
(***************************************************************************)
(* No two routes of an accepted configuration overlap, and every operation *)
(* that is documented reaches its handler: proofs about Configuration and  *)
(* OpenApi, for any configuration.                                         *)
(***************************************************************************)
EXTENDS OpenApi, TLAPS

-----------------------------------------------------------------------------
(* Where the operations of a table sit.                                    *)

IndexOps == {"query", "scanIndex", "getIndex"}
Pages    == {"_swagger", "_openapi"}
Ops      == ItemMethods \cup {"list", "scan"} \cup IndexOps \cup Pages

Third(op) ==
    IF op \in ItemMethods \cup {"list"} THEN "data"
    ELSE IF op \in IndexOps THEN "_index" ELSE IF op = "scan" THEN "_items" ELSE op
Last(op) ==
    IF op \in ItemMethods \cup {"getIndex"} THEN "_item" ELSE IF op \in Pages THEN op ELSE "_items"
Length(t, op) ==
    IF op \in ItemMethods THEN IF HasRK(t) THEN 6 ELSE 5
    ELSE IF op = "getIndex" THEN 7 ELSE IF op = "query" THEN 6
    ELSE IF op \in {"list", "scanIndex"} THEN 5 ELSE 3

\* A path of an operation of table t, on its index j if it is on one, with or
\* without values in the place of its wildcards.
PathOf(t, op, j, p) ==
    /\ op \in Ops
    /\ Len(p) = Length(t, op) /\ DOMAIN p = 1..Len(p)
    /\ p[1] = Lit("v1") /\ p[2] = Lit(t.name)
    /\ p[3] = Lit(Third(op)) /\ p[Len(p)] = Lit(Last(op))
    /\ op \in IndexOps => p[4] = Lit(t.indexes[j].name)

MethodOf(op) == IF op \in ItemMethods THEN op ELSE "GET"

\* A route of table t, as Configuration makes it.
RouteOf(t, r) ==
    /\ PathOf(t, r.op, r.index, r.path)
    /\ r.table = t.name /\ r.method = MethodOf(r.op)
    /\ IF r.op \in IndexOps THEN r.index \in DOMAIN t.indexes ELSE r.index = 0

LEMMA Segments ==
    ASSUME NEW a, NEW b
    PROVE  /\ IsWild(Wild(a)) /\ ~IsWild(Lit(a)) /\ Wild(a) # Lit(b)
           /\ Lit(a) = Lit(b) => a = b
<1>1. DOMAIN Wild(a) = {"wild"} /\ DOMAIN Lit(b) = {"lit"} /\ DOMAIN Lit(a) = {"lit"}
    BY DEF Wild, Lit
<1>2. Lit(a) = Lit(b) => a = b
    BY DEF Lit
<1> QED
    BY <1>1, <1>2 DEF IsWild

\* Paths of two operations overlap only if these are on one table, on one index,
\* and the same but for the method.
LEMMA PathsApart ==
    ASSUME NEW t, NEW x, NEW j, NEW p, PathOf(t, x, j, p),
           NEW u, NEW y, NEW k, NEW q, PathOf(u, y, k, q),
           Overlap(p, q)
    PROVE  /\ t.name = u.name
           /\ x = y \/ {x, y} \subseteq ItemMethods
           /\ x \in IndexOps => t.indexes[j].name = u.indexes[k].name
<1>1. Len(p) = Len(q) /\ DOMAIN p = 1..Len(p) /\ Len(p) \in 3..7 /\ Length(t, x) = Length(u, y)
    BY DEF PathOf, Overlap, Length
<1>2. ASSUME NEW n \in DOMAIN p, NEW a, NEW b, p[n] = Lit(a), q[n] = Lit(b) PROVE a = b
    BY <1>2, Segments DEF Overlap
<1>3. t.name = u.name /\ Third(x) = Third(y) /\ Last(x) = Last(y)
    BY <1>1, <1>2 DEF PathOf
<1>4. x = y \/ {x, y} \subseteq ItemMethods
    BY <1>1, <1>3 DEF PathOf, Length, Third, Last, Ops, IndexOps, Pages, ItemMethods
<1>5. x \in IndexOps => t.indexes[j].name = u.indexes[k].name
    <2>1. x \in IndexOps => y \in IndexOps /\ 4 \in DOMAIN p
        BY <1>1, <1>4 DEF PathOf, Length, IndexOps, ItemMethods
    <2> QED
        BY <1>2, <2>1 DEF PathOf
<1> QED
    BY <1>3, <1>4, <1>5

-----------------------------------------------------------------------------
(* The routes of a table.                                                  *)

LEMMA TableRoutesAt ==
    ASSUME NEW t, NEW r \in TableRoutes(t)
    PROVE  RouteOf(t, r) /\ r.op \in ItemMethods \cup {"list", "scan"}
<1>1. CASE \E m \in ItemMethods : r = Route(m, ItemPath(t), m, t, 0)
    <2>1. PICK m \in ItemMethods : r = Route(m, ItemPath(t), m, t, 0)
        BY <1>1
    <2>2. r.op = m /\ r.method = m /\ r.table = t.name /\ r.index = 0 /\ r.path = ItemPath(t)
        BY <2>1 DEF Route
    <2>3. CASE HasRK(t)
        BY <2>2, <2>3 DEF ItemPath, RouteOf, PathOf, MethodOf, Length, Third, Last, Ops, IndexOps,
               ItemMethods
    <2>4. CASE ~HasRK(t)
        BY <2>2, <2>4 DEF ItemPath, RouteOf, PathOf, MethodOf, Length, Third, Last, Ops, IndexOps,
               ItemMethods
    <2> QED
        BY <2>3, <2>4
<1>2. CASE r = Route("GET", <<Lit("v1"), Lit(t.name), Lit("data"), Wild("pk"), Lit("_items")>>,
                     "list", t, 0)
    BY <1>2 DEF Route, RouteOf, PathOf, MethodOf, Length, Third, Last, Ops, IndexOps,
           Pages, ItemMethods
<1>3. CASE r = Route("GET", <<Lit("v1"), Lit(t.name), Lit("_items")>>, "scan", t, 0)
    BY <1>3 DEF Route, RouteOf, PathOf, MethodOf, Length, Third, Last, Ops, IndexOps,
           Pages, ItemMethods
<1> QED
    BY <1>1, <1>2, <1>3 DEF TableRoutes

LEMMA IndexRoutesAt ==
    ASSUME NEW t, NEW j \in DOMAIN t.indexes, NEW r \in IndexRoutes(t, j)
    PROVE  RouteOf(t, r) /\ r.op \in IndexOps /\ r.index = j
<1> DEFINE i == t.indexes[j]
<1>1. CASE r = Route("GET", <<Lit("v1"), Lit(t.name), Lit("_index"), Lit(i.name), Wild("indexPk"),
                              Lit("_items")>>, "query", t, j)
    BY <1>1 DEF Route, RouteOf, PathOf, MethodOf, Length, Third, Last, Ops, IndexOps,
           Pages, ItemMethods
<1>2. CASE r = Route("GET", <<Lit("v1"), Lit(t.name), Lit("_index"), Lit(i.name), Lit("_items")>>,
                     "scanIndex", t, j)
    BY <1>2 DEF Route, RouteOf, PathOf, MethodOf, Length, Third, Last, Ops, IndexOps,
           Pages, ItemMethods
<1>3. CASE r = Route("GET", <<Lit("v1"), Lit(t.name), Lit("_index"), Lit(i.name), Wild("indexPk"),
                              Wild("indexRk"), Lit("_item")>>, "getIndex", t, j)
    BY <1>3 DEF Route, RouteOf, PathOf, MethodOf, Length, Third, Last, Ops, IndexOps,
           Pages, ItemMethods
<1> QED
    BY <1>1, <1>2, <1>3 DEF IndexRoutes

LEMMA PageRoutesAt ==
    ASSUME NEW t, NEW r \in PageRoutes(t)
    PROVE  RouteOf(t, r) /\ r.op \in Pages
<1>1. PICK page \in Pages : r = Route("GET", <<Lit("v1"), Lit(t.name), Lit(page)>>, page, t, 0)
    BY DEF PageRoutes, Pages
<1> QED
    BY <1>1 DEF Route, RouteOf, PathOf, MethodOf, Length, Third, Last, Ops, IndexOps, Pages,
           ItemMethods

LEMMA RoutesAt ==
    ASSUME NEW cfg, NEW r \in Routes(cfg)
    PROVE  \E t \in Range(cfg.tables) : /\ r \in DataRoutes(t) \cup PageRoutes(t)
                                        /\ RouteOf(t, r)
<1>1. PICK t \in Range(cfg.tables) : r \in DataRoutes(t) \cup PageRoutes(t)
    BY DEF Routes
<1> QED
    BY <1>1, TableRoutesAt, IndexRoutesAt, PageRoutesAt DEF DataRoutes

\* An operation on a table has one route, of which it determines everything.
LEMMA OneRoute ==
    ASSUME NEW t, NEW r \in DataRoutes(t) \cup PageRoutes(t),
           NEW s \in DataRoutes(t) \cup PageRoutes(t), r.op = s.op, r.index = s.index
    PROVE  r = s
<1>1. CASE r.op \in ItemMethods \cup {"list", "scan"}
    <2>1. r \in TableRoutes(t) /\ s \in TableRoutes(t)
        BY <1>1, IndexRoutesAt, PageRoutesAt DEF DataRoutes, IndexOps, Pages, ItemMethods
    <2> QED
        BY <2>1 DEF TableRoutes, Route, ItemMethods
<1>2. CASE r.op \in IndexOps
    <2>1. PICK j \in DOMAIN t.indexes : r \in IndexRoutes(t, j) /\ s \in IndexRoutes(t, j)
        BY <1>2, TableRoutesAt, IndexRoutesAt, PageRoutesAt DEF DataRoutes, IndexOps, Pages, ItemMethods
    <2> QED
        BY <2>1 DEF IndexRoutes, Route
<1>3. CASE r.op \in Pages
    <2>1. r \in PageRoutes(t) /\ s \in PageRoutes(t)
        BY <1>3, TableRoutesAt, IndexRoutesAt DEF DataRoutes, IndexOps, Pages, ItemMethods
    <2> QED
        BY <2>1 DEF PageRoutes, Route
<1> QED
    BY <1>1, <1>2, <1>3, TableRoutesAt, IndexRoutesAt, PageRoutesAt DEF DataRoutes, RouteOf, PathOf, Ops

-----------------------------------------------------------------------------
(* The routes of an accepted configuration.                                *)

\* Names tell the tables of an accepted configuration apart, and the indexes of
\* a table.
LEMMA NamesTell ==
    ASSUME NEW cfg, Validate(cfg)
    PROVE  /\ \A t, u \in Range(cfg.tables) : t.name = u.name => t = u
           /\ \A t \in Range(cfg.tables) : \A j, k \in DOMAIN t.indexes :
                 t.indexes[j].name = t.indexes[k].name => j = k
<1>1. IsInjective([i \in DOMAIN cfg.tables |-> cfg.tables[i].name])
    BY DEF Validate
<1>2. \A t \in Range(cfg.tables) : IsInjective([j \in DOMAIN t.indexes |-> t.indexes[j].name])
    BY DEF Validate, ValidateTable, DistinctIndexNames, Range
<1> QED
    BY <1>1, <1>2 DEF IsInjective, Range

\* A route whose path overlaps one of an operation is the route of that operation,
\* or of another method on the same item.
LEMMA RouteTells ==
    ASSUME NEW cfg, Validate(cfg), NEW r \in Routes(cfg),
           NEW t \in Range(cfg.tables), NEW op, NEW j, NEW q, PathOf(t, op, j, q),
           IF op \in IndexOps THEN j \in DOMAIN t.indexes ELSE j = 0,
           Overlap(r.path, q), r.method = MethodOf(op)
    PROVE  r \in DataRoutes(t) \cup PageRoutes(t) /\ r.op = op /\ r.index = j
<1>1. PICK u \in Range(cfg.tables) : r \in DataRoutes(u) \cup PageRoutes(u) /\ RouteOf(u, r)
    BY RoutesAt
<1>2. /\ u.name = t.name
      /\ r.op = op \/ {r.op, op} \subseteq ItemMethods
      /\ r.op \in IndexOps => u.indexes[r.index].name = t.indexes[j].name
    BY <1>1, PathsApart DEF RouteOf
<1>3. u = t
    BY <1>2, NamesTell
<1>4. r.op = op
    BY <1>1, <1>2 DEF RouteOf, MethodOf
<1>5. r.index = j
    BY <1>1, <1>2, <1>3, <1>4, NamesTell DEF RouteOf
<1> QED
    BY <1>1, <1>3, <1>4, <1>5

\* The mux accepts the routes of every configuration that is accepted: two of them
\* never overlap, unless they are of two methods (registerTableRoutes).
THEOREM ValidatedRegisters == ASSUME NEW cfg, Validate(cfg) PROVE Registers(cfg)
<1> SUFFICES ASSUME NEW r \in Routes(cfg), NEW s \in Routes(cfg), Conflict(r, s)
             PROVE  r = s
    BY DEF Registers
<1>1. PICK t \in Range(cfg.tables) : s \in DataRoutes(t) \cup PageRoutes(t) /\ RouteOf(t, s)
    BY RoutesAt
<1>2. r.method = MethodOf(s.op) /\ Overlap(r.path, s.path)
    BY <1>1 DEF Conflict, RouteOf
<1>3. r \in DataRoutes(t) \cup PageRoutes(t) /\ r.op = s.op /\ r.index = s.index
    BY <1>1, <1>2, RouteTells DEF RouteOf
<1> QED
    BY <1>1, <1>3, OneRoute

-----------------------------------------------------------------------------
(* Requests.                                                               *)

LEMMA Filled ==
    ASSUME NEW p, NEW values, DOMAIN p = 1..Len(p), Len(p) \in Nat
    PROVE  /\ Len(Fill(p, values)) = Len(p) /\ DOMAIN Fill(p, values) = DOMAIN p
           /\ \A n \in DOMAIN p : IF IsWild(p[n]) THEN \E v : Fill(p, values)[n] = Lit(v)
                                  ELSE Fill(p, values)[n] = p[n]
BY DEF Fill

\* A route and an operation of the document say the same but for the names of
\* the wildcards.
Agree(t, r, o) ==
    /\ r.method = o.method /\ r.op = o.op /\ r.table = t.name /\ r.index = o.index
    /\ Len(r.path) = Len(o.path) /\ DOMAIN o.path = DOMAIN r.path
    /\ \A n \in DOMAIN o.path : \/ IsWild(r.path[n]) /\ IsWild(o.path[n])
                                \/ ~IsWild(o.path[n]) /\ r.path[n] = o.path[n]

LEMMA TableOperationsRouted ==
    ASSUME NEW t, NEW o \in TableOperations(t)
    PROVE  \E r \in TableRoutes(t) : Agree(t, r, o)
<1>1. CASE \E m \in ItemMethods :
               /\ o.method = m /\ o.op = m /\ o.index = 0
               /\ o.path = IF HasRK(t)
                           THEN <<Lit("v1"), Lit(t.name), Lit("data"), Wild(t.pk.field),
                                  Wild(t.rk.field), Lit("_item")>>
                           ELSE <<Lit("v1"), Lit(t.name), Lit("data"), Wild(t.pk.field), Lit("_item")>>
    <2>0. PICK m \in ItemMethods :
               /\ o.method = m /\ o.op = m /\ o.index = 0
               /\ o.path = IF HasRK(t)
                           THEN <<Lit("v1"), Lit(t.name), Lit("data"), Wild(t.pk.field),
                                  Wild(t.rk.field), Lit("_item")>>
                           ELSE <<Lit("v1"), Lit(t.name), Lit("data"), Wild(t.pk.field), Lit("_item")>>
        BY <1>1
    <2>1. PICK r \in TableRoutes(t) : r = Route(m, ItemPath(t), m, t, 0)
        BY DEF TableRoutes
    <2>2. /\ r.method = o.method /\ r.op = o.op /\ r.table = t.name /\ r.index = o.index
          /\ r.path = ItemPath(t)
        BY <2>0, <2>1 DEF Route
    <2>3. CASE HasRK(t)
        <3>1. /\ o.path = <<Lit("v1"), Lit(t.name), Lit("data"), Wild(t.pk.field),
                            Wild(t.rk.field), Lit("_item")>>
              /\ r.path = <<Lit("v1"), Lit(t.name), Lit("data"), Wild("pk"), Wild("rk"), Lit("_item")>>
            BY <2>0, <2>2, <2>3 DEF ItemPath
        <3>2. /\ Len(r.path) = 6 /\ Len(o.path) = 6
              /\ DOMAIN r.path = 1..6 /\ DOMAIN o.path = 1..6
            BY <3>1
        <3>3. \A n \in 1..6 : \/ IsWild(r.path[n]) /\ IsWild(o.path[n])
                              \/ ~IsWild(o.path[n]) /\ r.path[n] = o.path[n]
            BY <3>1, Segments
        <3> QED
            BY <2>2, <3>2, <3>3 DEF Agree
    <2>4. CASE ~HasRK(t)
        <3>1. /\ o.path = <<Lit("v1"), Lit(t.name), Lit("data"), Wild(t.pk.field), Lit("_item")>>
              /\ r.path = <<Lit("v1"), Lit(t.name), Lit("data"), Wild("pk"), Lit("_item")>>
            BY <2>0, <2>2, <2>4 DEF ItemPath
        <3>2. /\ Len(r.path) = 5 /\ Len(o.path) = 5
              /\ DOMAIN r.path = 1..5 /\ DOMAIN o.path = 1..5
            BY <3>1
        <3>3. \A n \in 1..5 : \/ IsWild(r.path[n]) /\ IsWild(o.path[n])
                              \/ ~IsWild(o.path[n]) /\ r.path[n] = o.path[n]
            BY <3>1, Segments
        <3> QED
            BY <2>2, <3>2, <3>3 DEF Agree
    <2> QED
        BY <2>3, <2>4
<1>2. CASE o = Operation("GET", "list", 0, <<Lit("v1"), Lit(t.name), Lit("data"), Wild(t.pk.field),
                                             Lit("_items")>>)
    <2> DEFINE r == Route("GET", <<Lit("v1"), Lit(t.name), Lit("data"), Wild("pk"), Lit("_items")>>,
                          "list", t, 0)
    <2>1. r \in TableRoutes(t)
        BY DEF TableRoutes
    <2>2. Agree(t, r, o)
        BY <1>2, Segments DEF Agree, Route, Operation
    <2> QED
        BY <2>1, <2>2
<1>3. CASE t.scan /\ o = Operation("GET", "scan", 0, <<Lit("v1"), Lit(t.name), Lit("_items")>>)
    <2> DEFINE r == Route("GET", <<Lit("v1"), Lit(t.name), Lit("_items")>>, "scan", t, 0)
    <2>1. r \in TableRoutes(t)
        BY <1>3 DEF TableRoutes
    <2>2. Agree(t, r, o)
        BY <1>3, Segments DEF Agree, Route, Operation
    <2> QED
        BY <2>1, <2>2
<1> QED
    BY <1>1, <1>2, <1>3 DEF TableOperations, Operation, ItemMethods

LEMMA IndexOperationsRouted ==
    ASSUME NEW t, NEW j \in DOMAIN t.indexes, NEW o \in IndexOperations(t, j)
    PROVE  \E r \in IndexRoutes(t, j) : Agree(t, r, o)
<1> DEFINE i == t.indexes[j]
<1>1. CASE o = Operation("GET", "query", j, <<Lit("v1"), Lit(t.name), Lit("_index"), Lit(i.name),
                                              Wild(i.pk.field), Lit("_items")>>)
    <2> DEFINE r == Route("GET", <<Lit("v1"), Lit(t.name), Lit("_index"), Lit(i.name),
                                   Wild("indexPk"), Lit("_items")>>, "query", t, j)
    <2>1. r \in IndexRoutes(t, j)
        BY DEF IndexRoutes
    <2>2. Agree(t, r, o)
        BY <1>1, Segments DEF Agree, Route, Operation
    <2> QED
        BY <2>1, <2>2
<1>2. CASE i.scan /\ o = Operation("GET", "scanIndex", j, <<Lit("v1"), Lit(t.name), Lit("_index"),
                                                           Lit(i.name), Lit("_items")>>)
    <2> DEFINE r == Route("GET", <<Lit("v1"), Lit(t.name), Lit("_index"), Lit(i.name),
                                   Lit("_items")>>, "scanIndex", t, j)
    <2>1. r \in IndexRoutes(t, j)
        BY <1>2 DEF IndexRoutes
    <2>2. Agree(t, r, o)
        BY <1>2, Segments DEF Agree, Route, Operation
    <2> QED
        BY <2>1, <2>2
<1>3. CASE HasRK(i) /\ o = Operation("GET", "getIndex", j,
                                <<Lit("v1"), Lit(t.name), Lit("_index"), Lit(i.name),
                                  Wild(i.pk.field), Wild(i.rk.field), Lit("_item")>>)
    <2> DEFINE r == Route("GET", <<Lit("v1"), Lit(t.name), Lit("_index"), Lit(i.name),
                                   Wild("indexPk"), Wild("indexRk"), Lit("_item")>>, "getIndex", t, j)
    <2>1. r \in IndexRoutes(t, j)
        BY <1>3 DEF IndexRoutes
    <2>2. Agree(t, r, o)
        BY <1>3, Segments DEF Agree, Route, Operation
    <2> QED
        BY <2>1, <2>2
<1> QED
    BY <1>1, <1>2, <1>3 DEF IndexOperations

\* Every operation of a document has a route, on the same places of the same path.
LEMMA OperationsRouted ==
    ASSUME NEW t, NEW o \in Operations(t)
    PROVE  \E r \in DataRoutes(t) : RouteOf(t, r) /\ Agree(t, r, o)
BY TableOperationsRouted, IndexOperationsRouted, TableRoutesAt, IndexRoutesAt
   DEF Operations, DataRoutes

\* A request for an operation of the document goes to the route of that operation,
\* whatever the values of its keys.
LEMMA OperationsReached ==
    ASSUME NEW cfg, Validate(cfg), NEW t \in Range(cfg.tables), NEW o \in Operations(t), NEW values
    PROVE  LET found == Dispatch(cfg, o.method, Fill(o.path, values)) IN
           /\ {<<r.op, r.table, r.index>> : r \in found} = {<<o.op, t.name, o.index>>}
           /\ \A r \in found, n \in DOMAIN o.path : IsWild(r.path[n]) <=> IsWild(o.path[n])
<1>1. PICK r \in DataRoutes(t) : RouteOf(t, r) /\ Agree(t, r, o)
    BY OperationsRouted
<1> DEFINE q == Fill(o.path, values)
<1>2. r \in Routes(cfg) /\ o.method = MethodOf(r.op)
    BY <1>1 DEF Routes, Agree, RouteOf
<1>3. Len(r.path) \in Nat /\ DOMAIN r.path = 1..Len(r.path)
    BY <1>1 DEF RouteOf, PathOf, Length
<1>4. /\ Len(q) = Len(r.path) /\ DOMAIN q = DOMAIN r.path
      /\ \A n \in DOMAIN q : IF IsWild(r.path[n]) THEN \E v : q[n] = Lit(v)
                                                  ELSE q[n] = r.path[n]
    BY <1>1, <1>3, Filled DEF Agree
<1> HIDE DEF q
<1>5. Covers(r.path, q)
    BY <1>4 DEF Covers
<1>6. PathOf(t, r.op, r.index, q)
    <2>1. /\ {1, 2, 3, Len(r.path)} \subseteq DOMAIN r.path
          /\ r.op \in IndexOps => 4 \in DOMAIN r.path
        BY <1>1, <1>3 DEF RouteOf, PathOf, Length, IndexOps, ItemMethods
    <2> QED
        BY <1>1, <1>4, <2>1, Segments DEF RouteOf, PathOf
<1>7. ASSUME NEW s \in Routes(cfg), s.method = o.method, Covers(s.path, q)
      PROVE  s = r
    <2>1. Overlap(s.path, q)
        BY <1>7 DEF Covers, Overlap
    <2>2. s \in DataRoutes(t) \cup PageRoutes(t) /\ s.op = r.op /\ s.index = r.index
        BY <1>1, <1>2, <1>6, <1>7, <2>1, RouteTells DEF RouteOf
    <2> QED
        BY <1>1, <2>2, OneRoute
<1>8. Dispatch(cfg, o.method, q) = {r}
    <2>1. Covers(r.path, r.path) /\ r.method = o.method
        BY <1>1, <1>2 DEF Covers, Agree
    <2> QED
        BY <1>2, <1>5, <1>7, <2>1 DEF Dispatch
<1>9. Dispatch(cfg, o.method, Fill(o.path, values)) = {r}
    BY <1>8 DEF q
<1> QED
    BY <1>1, <1>9 DEF Agree

\* The middleware lets a request pass without a token exactly for the routes of the
\* public pages.
LEMMA PagesPublic ==
    ASSUME NEW cfg, NEW r \in Routes(cfg), NEW values
    PROVE  Protected(cfg, Fill(r.path, values)) <=> cfg.jwt /\ r.op \notin Pages
<1>1. PICK t \in Range(cfg.tables) :
          /\ RouteOf(t, r)
          /\ r \in DataRoutes(t) \cup (IF cfg.swagger THEN PageRoutes(t) ELSE {})
    BY RoutesAt, TableRoutesAt, IndexRoutesAt, PageRoutesAt DEF Routes, DataRoutes
<1> DEFINE q == Fill(r.path, values)
<1>2. Len(r.path) \in {3, 5, 6, 7} /\ DOMAIN r.path = 1..Len(r.path)
    BY <1>1 DEF RouteOf, PathOf, Length
<1>3. Len(q) = Len(r.path) /\ q[1] = Lit("v1") /\ q[Len(q)] = Lit(Last(r.op))
    <2>1. 1 \in DOMAIN r.path /\ Len(r.path) \in DOMAIN r.path
        BY <1>2
    <2> QED
        BY <1>1, <1>2, <2>1, Filled, Segments DEF RouteOf, PathOf
<1>4. IsSwaggerRequestPath(q) <=> r.op \in Pages
    <2>1. IsSwaggerRequestPath(q) <=> Last(r.op) \in Pages
        BY <1>2, <1>3, Segments DEF IsSwaggerRequestPath, Pages
    <2> QED
        BY <1>1, <2>1 DEF Last, Pages, Ops, RouteOf, PathOf, IndexOps, ItemMethods
<1>5. r.op \in Pages => cfg.swagger
    BY <1>1, TableRoutesAt, IndexRoutesAt DEF DataRoutes, Pages, IndexOps, ItemMethods
<1> HIDE DEF q
<1> QED
    BY <1>4, <1>5 DEF Protected, q
=============================================================================
