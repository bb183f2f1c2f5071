------------------------------ MODULE MCPaging ------------------------------
(* Instances of Paging for TLC. *)
EXTENDS Paging

NoFilter == [begins |-> {}, gt |-> 0, gte |-> 0, lt |-> 0, lte |-> 0]

TableOf(hasRK, pks, rks, ipks, irks) ==
    [hasRK |-> hasRK, pks |-> pks, rks |-> rks, ipks |-> ipks, irks |-> irks]
Walk(table, kind, path, filter, limit, first) ==
    [table |-> table, kind |-> kind, path |-> path, indexRK |-> FALSE,
     filter |-> filter, limit |-> limit, token |-> first]
WithRK(w) == [w EXCEPT !.indexRK = TRUE]

Ranges == {NoFilter,
           [NoFilter EXCEPT !.gt = 1], [NoFilter EXCEPT !.gte = 2],
           [NoFilter EXCEPT !.lt = 3], [NoFilter EXCEPT !.lte = 2],
           [NoFilter EXCEPT !.begins = {1, 3}]}

-----------------------------------------------------------------------------
(* Listings that are complete.                                             *)

\* A table with a range key: every filter, limits of one and two items, the
\* default limit (more than there are rows), and a first request with a bad
\* token.
Composite == TableOf(TRUE, {1, 2}, {1, 2, 3}, {}, {})
CompositeWalks ==
    {Walk(Composite, "list", 1, f, n, NoToken) : f \in Ranges, n \in {0, 1, 2}}
    \cup {Walk(Composite, "scan", 0, NoFilter, n, t) : n \in {-1, 1, 2, 3}, t \in {NoToken, BadToken}}

\* A table without one: pages of one and two items, a limit that overflows,
\* and indexes, with pages that hold every row.
Simple == TableOf(FALSE, {1, 2, 3}, {0}, {1}, {1, 2})
SimpleWalks ==
    {Walk(Simple, "list", 1, NoFilter, 1, NoToken)}
    \cup {Walk(Simple, "scan", 0, NoFilter, n, NoToken) : n \in {1, 2, IntMax}}
    \cup {WithRK(Walk(Simple, "query", 1, f, 0, NoToken)) : f \in Ranges}
    \cup {Walk(Simple, "query", 1, NoFilter, 4, NoToken), Walk(Simple, "scanIndex", 0, NoFilter, 4, NoToken)}

WholeWalks == CompositeWalks \cup SimpleWalks

-----------------------------------------------------------------------------
(* Listings of an index with a page for each row.                          *)

Small == TableOf(FALSE, {1, 2}, {0}, {1, 2}, {})
SmallRK == TableOf(FALSE, {1, 2}, {0}, {1}, {1, 2})

ScanIndexWalks == {Walk(Small, "scanIndex", 0, NoFilter, 1, NoToken)}
QueryRKWalks == {WithRK(Walk(SmallRK, "query", 1, NoFilter, 1, NoToken))}

TablesOf(walks) == {w.table : w \in walks}
WholeTables == TablesOf(WholeWalks)
ScanIndexTables == TablesOf(ScanIndexWalks)
QueryRKTables == TablesOf(QueryRKWalks)
=============================================================================
