---------------------------- MODULE PagingProofs ----------------------------
(***************************************************************************)
(* Proofs about Paging, for every key set, every page size and every other *)
(* writer: a walk over the base table (the list and scan endpoints) misses *)
(* nothing and returns nothing twice.                                      *)
(***************************************************************************)
EXTENDS Paging, TLAPS

\* The walks are over the base table.  Walks over an index do not have the
\* properties proved under it: MCPagingScanIndex.cfg and MCPagingQueryEnds.cfg
\* show how they fail.
OnlyBase == \A w \in Walks : w.kind \in {"list", "scan"}

-----------------------------------------------------------------------------
(* The order of the keys.                                                  *)

\* A key is a pair of a pk and an rk value; without a range key the second
\* is 0.
LEMMA KeyParts ==
    ASSUME walk \in Walks, NEW k \in Key
    PROVE  /\ k[1] \in Nat /\ k[2] \in Nat /\ k = <<k[1], k[2]>>
           /\ k[1] \in walk.table.pks /\ k[2] \in walk.table.rks
           /\ HasRK \in BOOLEAN
           /\ ~HasRK => k[2] = 0
<1>1. walk.table \in Tables
    BY WalksAssumption
<1>2. /\ walk.table.pks \subseteq Nat /\ walk.table.rks \subseteq Nat
      /\ HasRK \in BOOLEAN
      /\ ~HasRK => walk.table.rks = {0}
    BY <1>1, TablesAssumption DEF HasRK
<1>3. k = <<k[1], k[2]>> /\ k[1] \in walk.table.pks /\ k[2] \in walk.table.rks
    BY DEF Key
<1> QED
    BY <1>2, <1>3

\* The keys of the table are those before the step, and so are its tokens: the
\* walk stays the same.
LEMMA WalkStays == ASSUME [Next]_vars PROVE walk' = walk
BY DEF Next, AskPage, FetchPage, GetPage, FailPage, LastPage, FullPage, Write, vars

\* Of two different keys one comes before the other.
LEMMA KeyTotal ==
    ASSUME walk \in Walks, NEW j \in Key, NEW k \in Key, j # k
    PROVE  KeyBefore(j, k) \/ KeyBefore(k, j)
BY KeyParts DEF KeyBefore

\* The order of keys is transitive, also through a key that does not come later.
LEMMA KeyTransitive ==
    ASSUME walk \in Walks, NEW i \in Key, NEW j \in Key, NEW k \in Key, KeyBefore(i, j)
    PROVE  /\ KeyBefore(j, k) => KeyBefore(i, k)
           /\ ~KeyBefore(i, k) => KeyBefore(k, j)
<1>1. /\ i[1] \in Nat /\ i[2] \in Nat /\ j[1] \in Nat /\ j[2] \in Nat
      /\ k[1] \in Nat /\ k[2] \in Nat
      /\ HasRK \in BOOLEAN
      /\ ~HasRK => i[2] = 0 /\ j[2] = 0 /\ k[2] = 0
    BY KeyParts
<1> QED
    BY <1>1 DEF KeyBefore

\* No key comes before itself.
LEMMA KeyIrreflexive ==
    ASSUME walk \in Walks, NEW k \in Key
    PROVE  ~KeyBefore(k, k)
BY KeyParts DEF KeyBefore

\* ORDER BY pk[, rk] is the order of the keys (store.go:348).
LEMMA SortIsKeyOrder ==
    ASSUME walk \in Walks, OnBase, NEW j \in Key, NEW k \in Key
    PROVE  SortsBefore(j, k) = KeyBefore(j, k)
<1>1. j[1] \in Nat /\ j[2] \in Nat /\ k[1] \in Nat /\ k[2] \in Nat
    BY KeyParts
<1>2. \A x, y \in Nat : ColumnLess(x, y) = (x < y)
    BY MarkersAssumption DEF ColumnLess
<1>3. ~OnIndex
    BY DEF OnBase, OnIndex
<1> QED
    BY <1>1, <1>2, <1>3 DEF SortsBefore, KeyBefore, PkExpr, RkExpr, ByRK

\* A row of the table has a token.
LEMMA TableTokensAreTokens == ASSUME walk \in Walks PROVE TableTokens \subseteq Tokens
<1>1. walk.table.pks \subseteq Nat /\ walk.table.rks \subseteq Nat
    BY WalksAssumption, TablesAssumption
<1> QED
    BY <1>1 DEF TableTokens, Tokens

\* The cursor's condition is "behind the token's key" (store.go:479).
LEMMA CursorIsKeyOrder ==
    ASSUME walk \in Walks, OnBase, NEW k \in Key,
           token \in TableTokens \cup {NoToken, BadToken}
    PROVE  /\ token \in Tokens => Cursor \in Key /\ AfterCursor(k) = KeyBefore(Cursor, k)
           /\ token \notin Tokens => AfterCursor(k)
<1>1. ~OnIndex
    BY DEF OnBase, OnIndex
<1>2. CASE token \in Tokens
    <2>0. token \notin {NoToken, BadToken}
        BY <1>2, MarkersAssumption
    <2>1. token.pk \in walk.table.pks /\ token.rk \in walk.table.rks
        BY <2>0 DEF TableTokens
    <2>2. Cursor \in Key /\ Cursor[1] = token.pk /\ Cursor[2] = token.rk
        BY <2>1 DEF Cursor, Key
    <2>3. k[1] \in Nat /\ k[2] \in Nat /\ token.pk \in Nat /\ token.rk \in Nat
        BY <1>2, KeyParts DEF Tokens
    <2>4. k[2] # Missing
        BY <2>3, MarkersAssumption
    <2>5. RkExpr(k) = k[2] /\ ByRK = HasRK
        BY <1>1 DEF RkExpr, ByRK
    <2>6. AfterCursor(k) = (k[1] > token.pk \/ (HasRK /\ k[1] = token.pk /\ k[2] > token.rk))
        BY <2>0, <2>4, <2>5 DEF AfterCursor
    <2>7. KeyBefore(Cursor, k)
              = (token.pk < k[1] \/ (HasRK /\ token.pk = k[1] /\ token.rk < k[2]))
        BY <2>2 DEF KeyBefore
    <2> QED
        BY <1>2, <2>2, <2>3, <2>6, <2>7
<1>3. CASE token \notin Tokens
    BY <1>3, TableTokensAreTokens DEF AfterCursor
<1> QED
    BY <1>2, <1>3

\* What a listing of the base table is documented to return is what its WHERE
\* clause selects, cursor aside.
LEMMA ListedIsWhere ==
    ASSUME OnBase, NEW k \in Key
    PROVE  Listed(k) = Where(k)
BY DEF OnBase, Listed, Where

\* Only a write to the table changes what is listed.
LEMMA ListedStays ==
    ASSUME UNCHANGED <<rows, walk>>, UNCHANGED always, AlwaysListed
    PROVE  AlwaysListed'
<1>1. rows' = rows /\ walk' = walk /\ always' = always
    OBVIOUS
<1>2. ASSUME NEW k PROVE Listed(k)' = Listed(k)
    <2>1. \A v : RKFilter(v)' = RKFilter(v)
        BY <1>1, Zenon DEF RKFilter
    <2> QED
        BY <1>1, <2>1, Zenon DEF Listed, HasRK
<1> QED
    BY <1>1, <1>2 DEF AlwaysListed

-----------------------------------------------------------------------------
(* Type correctness, of the listings of an index too.                      *)

LEMMA TypeInit == ASSUME Init PROVE TypeOK
<1>1. walk \in Walks /\ walk.token \in {NoToken, BadToken}
    BY WalksAssumption DEF Init
<1> QED
    BY <1>1 DEF Init, TypeOK

\* The token of a row is one of the table's.
LEMMA EncodedIsToken == ASSUME NEW k \in Key PROVE EncodeCursor(k) \in TableTokens
BY DEF Key, EncodeCursor, TableTokens

LEMMA TypeNext == ASSUME TypeOK, [Next]_vars PROVE TypeOK'
<1>1. walk' = walk
    BY WalkStays
<1>2. Key' = Key /\ Attributes' = Attributes /\ TableTokens' = TableTokens
    BY <1>1 DEF Key, Attributes, TableTokens
<1>3. Matching \subseteq Key
    BY DEF Matching
<1>4. CASE AskPage
    BY <1>2, <1>4 DEF TypeOK, AskPage
<1>5. CASE FailPage
    BY <1>2, <1>5 DEF TypeOK, FailPage
<1>6. CASE LastPage
    BY <1>2, <1>3, <1>6 DEF TypeOK, LastPage
<1>7. CASE FullPage
    <2>1. page' \subseteq Matching /\ token' \in TableTokens
        BY <1>3, <1>7, EncodedIsToken DEF FullPage, IsPage
    <2> QED
        BY <1>2, <1>3, <1>7, <2>1 DEF TypeOK, FullPage
<1>8. CASE Write
    <2>1. rows' \in [Key -> Attributes \cup {Absent}]
        BY <1>8 DEF TypeOK, Write
    <2>2. always' \subseteq always
        BY <1>8 DEF Write
    <2> QED
        BY <1>1, <1>2, <1>8, <2>1, <2>2 DEF TypeOK, Write
<1>9. CASE UNCHANGED vars
    BY <1>2, <1>9 DEF TypeOK, vars
<1> QED
    BY <1>4, <1>5, <1>6, <1>7, <1>8, <1>9 DEF Next, FetchPage, GetPage

\* The type invariant holds of every listing.
THEOREM TypeCorrect == Spec => []TypeOK
BY TypeInit, TypeNext, PTL DEF Spec

-----------------------------------------------------------------------------
(* The invariant.                                                          *)

\* Before the first request nothing is returned and everything is owed.
LEMMA InitInv == ASSUME Init PROVE IInv
<1>1. walk \in Walks /\ walk.token \in {NoToken, BadToken}
    BY WalksAssumption DEF Init
<1>2. TypeOK
    BY TypeInit
<1>3. CursorSplits
    BY <1>1, MarkersAssumption DEF Init, CursorSplits
<1>4. AlwaysListed /\ Complete
    BY DEF Init, AlwaysListed, Complete
<1> QED
    BY <1>2, <1>3, <1>4 DEF IInv

\* A page that is full puts the cursor on its last row: everything returned is
\* up to there, everything owed behind.
LEMMA FullPageInv ==
    ASSUME IInv, OnBase, FullPage
    PROVE  IInv'
<1>1. TypeOK /\ CursorSplits /\ AlwaysListed /\ walk \in Walks
    BY DEF IInv, TypeOK
<1>a. PICK p \in SUBSET Matching :
          /\ page' = p
          /\ \A j \in p, k \in Matching \ p : ~SortsBefore(k, j)
          /\ \E last \in p :
                /\ \A k \in p : ~SortsBefore(last, k)
                /\ token' = [pk |-> last[1], rk |-> last[2]]
    BY DEF FullPage, IsPage, EncodeCursor
<1>b. PICK last \in p : /\ \A k \in p : ~SortsBefore(last, k)
                        /\ token' = [pk |-> last[1], rk |-> last[2]]
    BY <1>a
<1>2. /\ page' = p
      /\ token' = [pk |-> last[1], rk |-> last[2]]
      /\ \A k \in p : ~SortsBefore(last, k)
      /\ \A j \in p, k \in Matching \ p : ~SortsBefore(k, j)
    BY <1>a, <1>b
<1>3. /\ status = "asked" /\ status' = "idle" /\ seen' = seen \cup p
      /\ UNCHANGED <<rows, walk, always>>
    BY <1>a DEF FullPage
<1>4. p \subseteq Key /\ last \in Key /\ Matching \subseteq Key
    BY <1>2 DEF Matching
<1>5. token' \in Tokens /\ Cursor' = last
    <2>1. /\ last[1] \in Nat /\ last[2] \in Nat /\ last = <<last[1], last[2]>>
        BY <1>1, <1>4, KeyParts
    <2> QED
        BY <1>2, <2>1 DEF Tokens, Cursor
<1>6. \A k \in p : token \in Tokens => KeyBefore(Cursor, k) /\ Cursor \in Key
    BY <1>1, <1>4, CursorIsKeyOrder DEF TypeOK, TableTokens, Matching
<1>7. TypeOK'
    BY <1>1, TypeNext DEF Next, FetchPage, GetPage
<1>8. \A k \in seen' : ~KeyBefore(last, k)
    <2>1. ASSUME NEW k \in p PROVE ~KeyBefore(last, k)
        BY <1>1, <1>2, <1>4, SortIsKeyOrder
    <2>2. ASSUME NEW k \in seen PROVE ~KeyBefore(last, k)
        <3>1. k \in Key /\ token \in Tokens /\ ~KeyBefore(Cursor, k)
            BY <1>1, <1>3 DEF TypeOK, CursorSplits
        <3>2. KeyBefore(Cursor, last) /\ Cursor \in Key
            BY <1>6, <3>1
        <3> QED
            BY <1>1, <1>4, <3>1, <3>2, KeyTransitive
    <2> QED
        BY <1>3, <2>1, <2>2
<1>9. \A k \in always' \ seen' : KeyBefore(last, k)
    <2> SUFFICES ASSUME NEW k \in always, k \notin seen, k \notin p
                 PROVE  KeyBefore(last, k)
        BY <1>3
    <2>1. k \in Key /\ Where(k)
        BY <1>1, ListedIsWhere DEF TypeOK, AlwaysListed
    <2>2. AfterCursor(k)
        BY <1>1, <1>3, <2>1, CursorIsKeyOrder DEF TypeOK, CursorSplits
    <2>3. ~KeyBefore(k, last)
        BY <1>1, <1>2, <1>4, <2>1, <2>2, SortIsKeyOrder DEF Matching
    <2> QED
        BY <1>1, <1>2, <1>4, <2>1, <2>3, KeyTotal
<1>10. CursorSplits'
    BY <1>3, <1>5, <1>8, <1>9 DEF CursorSplits, KeyBefore, HasRK
<1>11. AlwaysListed'
    BY <1>1, <1>3, ListedStays
<1>12. Complete'
    BY <1>3 DEF Complete
<1> QED
    BY <1>7, <1>10, <1>11, <1>12 DEF IInv

\* A page that is not full holds all that is still owed.
LEMMA LastPageInv ==
    ASSUME IInv, OnBase, LastPage
    PROVE  IInv'
<1>1. TypeOK /\ CursorSplits /\ AlwaysListed /\ walk \in Walks
    BY DEF IInv, TypeOK
<1>2. /\ status = "asked" /\ status' = "complete" /\ token' = NoToken
      /\ page' = Matching /\ seen' = seen \cup Matching
      /\ UNCHANGED <<rows, walk, always>>
    BY DEF LastPage
<1>3. TypeOK'
    BY <1>1, TypeNext DEF Next, FetchPage, GetPage
<1>4. always \subseteq seen \cup Matching
    <2> SUFFICES ASSUME NEW k \in always, k \notin seen
                 PROVE  k \in Matching
        OBVIOUS
    <2>1. k \in Key /\ Where(k)
        BY <1>1, ListedIsWhere DEF TypeOK, AlwaysListed
    <2>2. AfterCursor(k)
        BY <1>1, <1>2, <2>1, CursorIsKeyOrder DEF TypeOK, CursorSplits
    <2> QED
        BY <2>1, <2>2 DEF Matching
<1>5. CursorSplits'
    BY <1>2 DEF CursorSplits
<1>6. AlwaysListed'
    BY <1>1, <1>2, ListedStays
<1>7. Complete'
    BY <1>2, <1>4 DEF Complete
<1> QED
    BY <1>3, <1>5, <1>6, <1>7 DEF IInv

\* Every step, another client's write included, preserves the invariant.
LEMMA NextInv ==
    ASSUME IInv, OnBase, [Next]_vars
    PROVE  IInv'
<1>0. /\ TypeOK /\ CursorSplits /\ AlwaysListed /\ Complete
      /\ TypeOK'
      /\ HasRK' = HasRK
    BY TypeNext, WalkStays DEF IInv, HasRK
<1>2. CASE AskPage
    <2>1. CursorSplits' /\ Complete'
        BY <1>0, <1>2 DEF AskPage, CursorSplits, Cursor, KeyBefore, Complete
    <2>2. AlwaysListed'
        BY <1>0, <1>2, ListedStays DEF AskPage
    <2> QED
        BY <1>0, <2>1, <2>2 DEF IInv
<1>3. CASE FailPage
    <2>1. CursorSplits' /\ Complete'
        BY <1>0, <1>3 DEF FailPage, CursorSplits, Complete
    <2>2. AlwaysListed'
        BY <1>0, <1>3, ListedStays DEF FailPage
    <2> QED
        BY <1>0, <2>1, <2>2 DEF IInv
<1>4. CASE Write
    <2>1. always' \subseteq always /\ AlwaysListed'
        BY <1>4 DEF Write, AlwaysListed
    <2>2. CursorSplits' /\ Complete'
        BY <1>0, <1>4, <2>1 DEF Write, CursorSplits, Cursor, KeyBefore, Complete
    <2> QED
        BY <1>0, <2>1, <2>2 DEF IInv
<1>5. CASE UNCHANGED vars
    <2>1. CursorSplits' /\ Complete'
        BY <1>0, <1>5 DEF vars, CursorSplits, Cursor, KeyBefore, Complete
    <2>2. AlwaysListed'
        BY <1>0, <1>5, ListedStays DEF vars
    <2> QED
        BY <1>0, <2>1, <2>2 DEF IInv
<1> QED
    BY <1>2, <1>3, <1>4, <1>5, FullPageInv, LastPageInv DEF Next, FetchPage, GetPage

-----------------------------------------------------------------------------
(* What holds of every walk.                                               *)

\* The inductive invariant holds of every walk over the base table.
THEOREM Invariance == Spec => []BaseInv
<1>1. Init => BaseInv
    BY InitInv DEF BaseInv
<1>2. BaseInv /\ [Next]_vars => BaseInv'
    <2> SUFFICES ASSUME BaseInv, [Next]_vars, OnBase' PROVE IInv'
        BY DEF BaseInv
    <2>1. OnBase
        BY WalkStays DEF OnBase
    <2> QED
        BY <2>1, NextInv DEF BaseInv
<1> QED
    BY <1>1, <1>2, PTL DEF Spec

\* A walk stays one over the base table.
LEMMA StaysOnBase == OnlyBase => (Spec => []OnBase)
<1> SUFFICES ASSUME OnlyBase PROVE Spec => []OnBase
    OBVIOUS
<1>1. Init => OnBase
    BY DEF Init, OnBase, OnlyBase
<1>2. OnBase /\ [Next]_vars => OnBase'
    BY WalkStays DEF OnBase
<1> QED
    BY <1>1, <1>2, PTL DEF Spec

\* A walk over the base table that ends without a token has returned every
\* item listed throughout (API.md:212, store.go:342-413).
THEOREM NothingMissed == OnlyBase => (Spec => []Complete)
<1> SUFFICES ASSUME OnlyBase PROVE Spec => []Complete
    OBVIOUS
<1>1. Spec => []BaseInv /\ []OnBase
    BY Invariance, StaysOnBase
<1>2. BaseInv /\ OnBase => Complete
    BY DEF BaseInv, IInv
<1> QED
    BY <1>1, <1>2, PTL

\* Items come in the order of their keys over all pages, so none comes twice.
THEOREM NothingRepeated == OnlyBase => (Spec => PagesAscend)
<1> SUFFICES ASSUME OnlyBase PROVE Spec => PagesAscend
    OBVIOUS
<1>1. Spec => []BaseInv /\ []OnBase
    BY Invariance, StaysOnBase
<1>2. (BaseInv /\ OnBase) /\ [Next]_vars =>
          [GetPage => \A j \in seen, k \in page' : SortsBefore(j, k)]_vars
    <2> SUFFICES ASSUME IInv, OnBase, GetPage, NEW j \in seen, NEW k \in page'
                 PROVE  SortsBefore(j, k)
        BY DEF BaseInv
    <2>0. TypeOK /\ CursorSplits /\ j \in Key /\ walk \in Walks
        BY DEF IInv, TypeOK
    <2>1. status = "asked" /\ k \in Matching
        BY DEF GetPage, LastPage, FullPage, IsPage
    <2>2. token \in Tokens /\ ~KeyBefore(Cursor, j)
        BY <2>0, <2>1 DEF CursorSplits
    <2>3. k \in Key /\ Cursor \in Key /\ KeyBefore(Cursor, k)
        BY <2>0, <2>1, <2>2, CursorIsKeyOrder DEF TypeOK, Matching
    <2>4. KeyBefore(j, k)
        BY <2>0, <2>2, <2>3, KeyTransitive
    <2> QED
        BY <2>0, <2>3, <2>4, SortIsKeyOrder
<1> QED
    BY <1>1, <1>2, PTL DEF Spec, PagesAscend
=============================================================================
