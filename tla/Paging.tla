------------------------------- MODULE Paging -------------------------------
(***************************************************************************)
(* A client walks through the pages of one listing endpoint, passing each  *)
(* nextPageToken on, while other clients write the table                   *)
(* (internal/handler/list.go, queryItems and its callers in                *)
(* internal/database/store.go).  One action is one request: its SELECT     *)
(* reads one snapshot of the table.                                        *)
(*                                                                         *)
(* TEXT values are natural numbers in the order of the database's          *)
(* collation; 0 is the empty string, which is no key value but is what a   *)
(* parameter that was not given, and the range key of a table without      *)
(* one, read as.                                                           *)
(***************************************************************************)
EXTENDS Integers, FiniteSets

CONSTANTS
    Tables,          \* the tables there may be: whether there is a range key,
                     \* and the values of the columns and of the index's fields
    Missing,         \* a row's data has no such field
    Absent,          \* no row
    NoToken,         \* no pageToken was given, or none was returned
    BadToken,        \* a pageToken that is not one of the server's
    Walks,           \* the listings a client may ask for
    IntMax           \* largest int, a power of two minus one

Tokens == [pk : Nat, rk : Nat]

Kinds == {"list", "scan", "query", "scanIndex"}

\* The rk* parameters: 0, or no value for rkBeginsWith, when not given.  What
\* rkBeginsWith matches is given as a set of values.
Filters == [begins : SUBSET Nat, gt : Nat, gte : Nat, lt : Nat, lte : Nat]

ASSUME TablesAssumption ==
    \A t \in Tables : /\ t.hasRK \in BOOLEAN
                      /\ t.pks \subseteq Nat \ {0}
                      /\ t.rks \subseteq Nat
                      /\ ~t.hasRK => t.rks = {0}
                      /\ t.ipks \subseteq Nat
                      /\ t.irks \subseteq Nat
ASSUME MarkersAssumption == /\ NoToken \notin Tokens
                            /\ BadToken \notin Tokens
                            /\ NoToken # BadToken
                            /\ Missing \notin Nat
                            /\ Absent \notin [ipk : Nat \cup {Missing}, irk : Nat \cup {Missing}]
ASSUME WalksAssumption ==
    /\ Walks \subseteq [table : Tables,
                       kind : Kinds,
                       path : Nat,              \* {pk} or {indexPk} of the URL
                       indexRK : BOOLEAN,       \* the index has a range key
                       filter : Filters,
                       limit : Int,             \* 0: not given
                       token : {NoToken, BadToken}]   \* of the first request
    /\ IntMax \in Nat /\ IntMax >= 50

VARIABLES
    rows,      \* the table: key -> attributes, or Absent
    walk,      \* the listing the client asks for, of which table
    token,     \* the pageToken of its next request
    status,    \* "idle", "asked" (a request is under way), "complete" or "failed"
    page,      \* keys of the items of the page the client holds
    seen,      \* history: keys of all items returned so far
    always     \* history: keys that were to be listed all along

vars == <<rows, walk, token, status, page, seen, always>>

HasRK == walk.table.hasRK
Key == walk.table.pks \X walk.table.rks
TableTokens == [pk : walk.table.pks, rk : walk.table.rks]
Attributes == [ipk : walk.table.ipks \cup {Missing}, irk : walk.table.irks \cup {Missing}]

-----------------------------------------------------------------------------
(* The SELECT of queryItems.                                               *)

OnIndex == walk.kind \in {"query", "scanIndex"}
\* Mutant: the range key takes no part in the order.
NeverByRK == FALSE
ByRK == IF OnIndex THEN walk.indexRK ELSE HasRK

\* pkExpr and rkExpr of the ORDER BY.
PkExpr(k) == IF OnIndex THEN rows[k].ipk ELSE k[1]
RkExpr(k) == IF OnIndex THEN rows[k].irk ELSE k[2]

\* appendRKFilters and appendIndexRKFilters: every parameter that is given has
\* to hold, and no comparison with NULL does.
RKFilter(v) ==
    LET f == walk.filter
    IN  /\ f.begins # {} => v \in f.begins
        /\ f.gt # 0  => v # Missing /\ v > f.gt
        /\ f.gte # 0 => v # Missing /\ v >= f.gte
        /\ f.lt # 0  => v # Missing /\ v < f.lt
        /\ f.lte # 0 => v # Missing /\ v <= f.lte

Where(k) ==
    /\ rows[k] # Absent
    /\ CASE walk.kind = "list"  -> k[1] = walk.path /\ (HasRK => RKFilter(k[2]))
         [] walk.kind = "scan"  -> TRUE
         [] walk.kind = "query" -> /\ rows[k].ipk = walk.path
                                   /\ walk.indexRK => RKFilter(rows[k].irk)
         [] walk.kind = "scanIndex" -> /\ rows[k].ipk # Missing
                                       /\ walk.indexRK => rows[k].irk # Missing

\* Mutants: the page starts at the token's row; the pk alone is compared.
AtOrAfterCursor(k) ==
    \/ token \in {NoToken, BadToken}
    \/ k[1] > token.pk
    \/ k[1] = token.pk /\ (ByRK => RkExpr(k) # Missing /\ RkExpr(k) >= token.rk)
PkAfterCursor(k) == token \in {NoToken, BadToken} \/ k[1] > token.pk
\* appendCursorFilter: the row value that is compared always starts with the
\* pk column; a token that does not decode is ignored.
AfterCursor(k) ==
    \/ token \in {NoToken, BadToken}
    \/ k[1] > token.pk
    \/ ByRK /\ k[1] = token.pk /\ RkExpr(k) # Missing /\ RkExpr(k) > token.rk

\* ORDER BY, ascending and NULLS LAST; rows it does not tell apart come in
\* any order.
ColumnLess(x, y) == x # Missing /\ (y = Missing \/ x < y)
SortsBefore(j, k) ==
    \/ ColumnLess(PkExpr(j), PkExpr(k))
    \/ ByRK /\ PkExpr(j) = PkExpr(k) /\ ColumnLess(RkExpr(j), RkExpr(k))

Matching == {k \in Key : Where(k) /\ AfterCursor(k)}

\* parseListOptions takes a positive int and queryItems replaces what is not
\* positive; limit + 1 wraps around at the width of an int.
Limit == IF walk.limit \in 1..IntMax THEN walk.limit ELSE 50
FetchLimit == ((Limit + 1 + IntMax + 1) % (2 * (IntMax + 1))) - (IntMax + 1)

\* What a page of n of the matching rows can be.
IsPage(p, n) ==
    /\ p \subseteq Matching
    /\ Cardinality(p) = n
    /\ \A j \in p, k \in Matching \ p : ~SortsBefore(k, j)

\* Mutant: the columns are swapped.
EncodeSwapped(k) == [pk |-> k[2], rk |-> k[1]]
\* The token of a row: its key, by the base table's columns.
EncodeCursor(k) == [pk |-> k[1], rk |-> k[2]]

-----------------------------------------------------------------------------
(* What the API documents as the items of a listing (API.md: "Returns all  *)
(* items that share a Primary Key value", "Returns all items in a table",  *)
(* "Queries an index by index Primary Key", "Returns all items with the    *)
(* index Primary Key present").                                            *)

Listed(k) ==
    /\ rows[k] # Absent
    /\ CASE walk.kind = "list"  -> k[1] = walk.path /\ (HasRK => RKFilter(k[2]))
         [] walk.kind = "scan"  -> TRUE
         [] walk.kind = "query" ->
                /\ rows[k].ipk = walk.path
                /\ walk.indexRK => rows[k].irk # Missing /\ RKFilter(rows[k].irk)
         [] walk.kind = "scanIndex" -> rows[k].ipk # Missing

-----------------------------------------------------------------------------

Init ==
    /\ walk \in Walks
    /\ rows \in [Key -> Attributes \cup {Absent}]
    /\ token = walk.token
    /\ status = "idle"
    /\ page = {}
    /\ seen = {}
    /\ always = {k \in Key : Listed(k)}

\* The client is done with the last page and asks for the next one.
AskPage ==
    /\ status = "idle"
    /\ status' = "asked"
    /\ page' = {}
    /\ UNCHANGED <<rows, walk, token, seen, always>>

\* PostgreSQL refuses a negative LIMIT, and the client gets 500.
FailPage ==
    /\ status = "asked"
    /\ FetchLimit < 0
    /\ status' = "failed"
    /\ UNCHANGED <<rows, walk, token, page, seen, always>>

\* No more than limit rows match: they are the last page and there is no token.
LastPage ==
    /\ status = "asked"
    /\ FetchLimit >= 0
    /\ Cardinality(Matching) <= Limit
    /\ page' = Matching
    /\ seen' = seen \cup page'
    /\ token' = NoToken
    /\ status' = "complete"
    /\ UNCHANGED <<rows, walk, always>>

\* More rows match: the token is that of the last row of the page.
FullPage ==
    /\ status = "asked"
    /\ FetchLimit >= 0
    /\ Cardinality(Matching) > Limit
    /\ \E p \in SUBSET Matching :
        /\ IsPage(p, Limit)
        /\ page' = p
        /\ \E last \in p :
            /\ \A k \in p : ~SortsBefore(last, k)
            /\ token' = EncodeCursor(last)
    /\ seen' = seen \cup page'
    /\ status' = "idle"
    /\ UNCHANGED <<rows, walk, always>>

GetPage == LastPage \/ FullPage
FetchPage == FailPage \/ GetPage

\* Another client puts, patches or deletes an item.
Write ==
    /\ \E k \in Key, row \in Attributes \cup {Absent} :
        /\ row # rows[k]
        /\ rows' = [rows EXCEPT ![k] = row]
    /\ UNCHANGED <<walk, token, status, page, seen>>
    /\ always' = {k \in always : Listed(k)'}

Next == AskPage \/ FetchPage \/ Write

Spec == Init /\ [][Next]_vars

\* The client asks for the next page as long as there is one, and the server
\* answers.
Fairness == WF_vars(AskPage) /\ WF_vars(FetchPage)
FairSpec == Spec /\ Fairness

\* The same client alone with the table.
QuietSpec == Init /\ [][AskPage \/ FetchPage]_vars /\ Fairness

-----------------------------------------------------------------------------
(* Properties.                                                             *)

TypeOK ==
    /\ walk \in Walks
    /\ rows \in [Key -> Attributes \cup {Absent}]
    /\ token \in TableTokens \cup {NoToken, BadToken}
    /\ status \in {"idle", "asked", "complete", "failed"}
    /\ page \in SUBSET Key
    /\ seen \in SUBSET Key
    /\ always \in SUBSET Key

\* When the server returns no token the client has got every item that was to
\* be listed from its first request to its last one, whatever else was
\* inserted and deleted between the pages (API.md: "When _meta.nextPageToken
\* is absent, paging is complete").
Complete == status = "complete" => always \subseteq seen

\* Over the pages too the items come in the order of their keys, so none comes
\* twice, even one that is deleted and put again.
PagesAscend ==
    [][GetPage => \A j \in seen, k \in page' : SortsBefore(j, k)]_vars

\* The walk ends, however many items other clients write meanwhile.
WalkEnds == <>(status \in {"complete", "failed"})

-----------------------------------------------------------------------------
(* Why Complete and PagesAscend hold of the base table's listings: what    *)
(* was returned lies up to the cursor, and what is still owed behind it.   *)

OnBase == walk.kind \in {"list", "scan"}
KeyBefore(j, k) == j[1] < k[1] \/ (HasRK /\ j[1] = k[1] /\ j[2] < k[2])
Cursor == <<token.pk, token.rk>>

CursorSplits ==
    status \in {"idle", "asked"} =>
        /\ token \notin Tokens => seen = {}
        /\ token \in Tokens => /\ \A k \in seen : ~KeyBefore(Cursor, k)
                              /\ \A k \in always \ seen : KeyBefore(Cursor, k)

\* What has been listed all along is listed now.
AlwaysListed == \A k \in always : Listed(k)

IInv == TypeOK /\ CursorSplits /\ AlwaysListed /\ Complete

\* Every listing of the base table keeps to it.
BaseInv == OnBase => IInv
=============================================================================
