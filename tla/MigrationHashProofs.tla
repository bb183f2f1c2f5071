------------------------ MODULE MigrationHashProofs ------------------------
(***************************************************************************)
(* Proofs about Migration: a hash that matches means that the database has *)
(* all the configuration asks for, for any runs that do not race with a    *)
(* cleanup; and a run that cleans up while no other migrates leaves no     *)
(* table and no index but those of its configuration.  The configurations  *)
(* are any whose indexes keep their fields and whose names stay apart.     *)
(***************************************************************************)
EXTENDS MigrationProofs

\* Index j of a table, its name and its definition.
RelationOf(t, j) == Ident[IndexName[<<t.name, t.indexes[j].name>>]]
IndexOf(t, j) == Index(t.name, t.indexes[j].pk, t.indexes[j].rk)

\* Index names are not cut off and tell the table, and an index keeps its
\* fields as long as its table keeps its key.
IndexesKeepFields ==
    \A c, d \in Configs : \A i \in DOMAIN c, k \in DOMAIN d :
        \A j \in DOMAIN c[i].indexes, l \in DOMAIN d[k].indexes :
            /\ RelationOf(c[i], j) = IndexName[<<c[i].name, c[i].indexes[j].name>>]
            /\ RelationOf(c[i], j) = RelationOf(d[k], l) =>
                  /\ c[i].name = d[k].name
                  /\ KeysOf(c[i]) = KeysOf(d[k]) => IndexOf(c[i], j) = IndexOf(d[k], l)

\* What a configuration asks for: object j of a table is its row for 0, and
\* its index j otherwise.
Parts(t) == 0 .. Len(t.indexes)
ObjectOf(t, j) == IF j = 0 THEN Row(t.name) ELSE Rel(RelationOf(t, j))
DefinitionOf(t, j) == IF j = 0 THEN KeysOf(t) ELSE IndexOf(t, j)

\* A run at place p is past object j of table i.
Past(p, i, j) ==
    CASE p.stage \in {"list", "dropTables", "hash", "end"} -> TRUE
      [] p.stage \in {"stale", "dropIndexes"} -> i <= p.table
      [] p.stage = "index" -> i < p.table \/ (i = p.table /\ j < p.index)
      [] p.stage = "table" -> i < p.table
      [] OTHER -> FALSE

-----------------------------------------------------------------------------
(* The invariant.                                                          *)

\* Runs that clean up are alone, but for dry runs.
RunsApart ==
    ~raced => \A q, r \in Runs :
        /\ q # r /\ Running(q) /\ Running(r) /\ ~job[q].dry /\ ~job[r].dry
        => ~job[r].cleanup

\* An index is one that a configuration has for a table with the key its table
\* has now.
DefinedBy(n, d, keys) ==
    \E c \in Configs : \E i \in DOMAIN c : \E j \in DOMAIN c[i].indexes :
        n = RelationOf(c[i], j) /\ d = IndexOf(c[i], j) /\ keys = KeysOf(c[i])
IndexesDefined ==
    ~raced => \A n \in Names, t \in TableNames :
        db[Rel(n)] \in IndexesOn(t) => DefinedBy(n, db[Rel(n)], db[Row(t)])
AddedDefined ==
    ~raced => \A r \in Runs, n \in Names, t \in TableNames :
        delta[r][Rel(n)] \in IndexesOn(t) => DefinedBy(n, delta[r][Rel(n)], See(r, Row(t)))

\* Tables are dropped after all others are created, and never replaced.
RowsOK ==
    \A r \in Runs, t \in TableNames :
        /\ delta[r][Row(t)] = None => at[r].stage \in {"hash", "end"}
        /\ delta[r][Row(t)] \in Keys => db[Row(t)] = None

\* A run that does not clean up drops and replaces nothing but the hash.
OnlyAdds ==
    \A r \in Runs, o \in Objects \ {Row(Meta)} :
        /\ ~Running(r) => delta[r][o] = Same
        /\ delta[r][o] # Same /\ ~job[r].cleanup => delta[r][o] # None /\ db[o] = None

\* The stages of a cleanup, and what it spares.
CleanupAt(r) ==
    /\ at[r].stage \in {"stale", "dropIndexes", "list", "dropTables"} => job[r].cleanup
    /\ ~raced /\ at[r].stage = "dropIndexes" =>
          \A i \in DOMAIN Config(r) : \A j \in DOMAIN Config(r)[i].indexes :
              RelationOf(Config(r)[i], j) \notin todrop[r]
    /\ at[r].stage = "dropTables" => todrop[r] \cap Configured(r) = {}

\* A run sees all it is past.
Prepared(r) ==
    \A i \in DOMAIN Config(r) : \A j \in Parts(Config(r)[i]) :
        Past(at[r], i, j) =>
            See(r, ObjectOf(Config(r)[i], j)) = DefinitionOf(Config(r)[i], j)
PreparedOK == ~raced => \A r \in Runs : Running(r) /\ ~job[r].dry => Prepared(r)

\* A run that commits has written its hash.
HashWritten(r) ==
    at[r].stage = "end" /\ ~job[r].dry => delta[r][Row(Meta)] = Minimal(Config(r))

HashInv ==
    /\ RunsApart /\ IndexesDefined /\ AddedDefined /\ RowsOK /\ OnlyAdds
    /\ PreparedOK /\ HashTellsUnlessRaced
    /\ \A r \in Runs : CleanupAt(r) /\ HashWritten(r)

-----------------------------------------------------------------------------
(* Configurations.                                                         *)

LEMMA ConfigOf ==
    ASSUME TypeOK, NEW r \in Runs, Running(r)
    PROVE  /\ Config(r) \in Configs
           /\ \A i \in DOMAIN Config(r) :
                 /\ i \in Nat /\ Config(r)[i].name \in TableNames /\ KeysOf(Config(r)[i]) \in Keys
                 /\ Config(r)[i].indexes \in Seq(IndexConfigs)
                 /\ Parts(Config(r)[i]) = {0} \cup DOMAIN Config(r)[i].indexes
                 /\ 0 \notin DOMAIN Config(r)[i].indexes
<1>1. RunsOK
    BY PartsOfType DEF TypeParts
<1>2. Config(r) \in Configs
    BY <1>1, JobTyped
<1> SUFFICES ASSUME NEW i \in DOMAIN Config(r)
             PROVE  /\ i \in Nat /\ Config(r)[i].name \in TableNames /\ KeysOf(Config(r)[i]) \in Keys
                    /\ Config(r)[i].indexes \in Seq(IndexConfigs)
                    /\ Parts(Config(r)[i]) = {0} \cup DOMAIN Config(r)[i].indexes
                    /\ 0 \notin DOMAIN Config(r)[i].indexes
    BY <1>2
<1>3. i \in Nat /\ Config(r)[i].name \in TableNames
    BY <1>1, JobTyped, ConfiguredNames
<1>4. KeysOf(Config(r)[i]) \in Keys /\ Config(r)[i].indexes \in Seq(IndexConfigs)
    BY <1>1, TableTyped
<1>5. DOMAIN Config(r)[i].indexes = 1..Len(Config(r)[i].indexes) /\ Len(Config(r)[i].indexes) \in Nat
    BY <1>4
<1> QED
    BY <1>3, <1>4, <1>5 DEF Parts

LEMMA IndexTyped ==
    ASSUME NamesApart, IndexesKeepFields, TypeOK, NEW r \in Runs, Running(r),
           NEW i \in DOMAIN Config(r), NEW j \in DOMAIN Config(r)[i].indexes
    PROVE  /\ RelationOf(Config(r)[i], j) \in Names \ (TableNames \cup {Meta})
           /\ IndexOf(Config(r)[i], j) \in IndexesOn(Config(r)[i].name)
           /\ DefinedBy(RelationOf(Config(r)[i], j), IndexOf(Config(r)[i], j), KeysOf(Config(r)[i]))
           /\ RelationOf(Config(r)[i], j) \in Desired(Config(r)[i])
<1> DEFINE t == Config(r)[i]
<1>1. t.indexes[j] \in IndexConfigs /\ t.name \in TableNames /\ Config(r) \in Configs
    BY ConfigOf
<1>2. RelationOf(t, j) \in Names \ (TableNames \cup {Meta})
    BY <1>1, NamesAssumption, TableNamesApart DEF RelationOf, NamesApart, IndexConfigs
<1>3. IndexOf(t, j) \in IndexesOn(t.name)
    BY <1>1, TableNamesApart DEF IndexOf, Index, IndexesOn, Indexes, IndexConfigs
<1>4. DefinedBy(RelationOf(t, j), IndexOf(t, j), KeysOf(t))
    BY <1>1 DEF DefinedBy
<1>5. RelationOf(t, j) \in Desired(t)
    BY <1>1 DEF IndexesKeepFields, Desired
<1> QED
    BY <1>2, <1>3, <1>4, <1>5

\* What is asked for is an object of its own, and no mark.
LEMMA PartsTyped ==
    ASSUME NamesApart, IndexesKeepFields, TypeOK, NEW r \in Runs, Running(r),
           NEW i \in DOMAIN Config(r), NEW j \in Parts(Config(r)[i])
    PROVE  /\ ObjectOf(Config(r)[i], j) \in Objects \ {Row(Meta)}
           /\ DefinitionOf(Config(r)[i], j) \notin {None, Same}
<1>1. CASE j = 0
    <2>1. Config(r)[i].name \in TableNames /\ KeysOf(Config(r)[i]) \in Keys
        BY ConfigOf
    <2>2. Row(Config(r)[i].name) \in Objects \ {Row(Meta)}
        BY <2>1, ObjectsApart, TableNamesApart
    <2> QED
        BY <1>1, <2>1, <2>2, Marks DEF ObjectOf, DefinitionOf
<1>2. CASE j # 0
    <2>1. j \in DOMAIN Config(r)[i].indexes
        BY <1>2, ConfigOf
    <2>2. /\ RelationOf(Config(r)[i], j) \in Names
          /\ IndexOf(Config(r)[i], j) \in Indexes
        BY <2>1, IndexTyped, KindsApart
    <2>3. Rel(RelationOf(Config(r)[i], j)) \in Objects \ {Row(Meta)}
        BY <2>2, ObjectsApart, TableNamesApart
    <2> QED
        BY <1>2, <2>2, <2>3, Marks DEF ObjectOf, DefinitionOf
<1> QED
    BY <1>1, <1>2

\* An index tells its table, and with the table's key its fields.
LEMMA DefinedOnce ==
    ASSUME IndexesKeepFields, NEW n, NEW d, NEW e, NEW k, NEW l,
           DefinedBy(n, d, k), DefinedBy(n, e, l)
    PROVE  d.on = e.on /\ (k = l => d = e)
<1>1. PICK c1 \in Configs : \E i \in DOMAIN c1 : \E j \in DOMAIN c1[i].indexes :
          n = RelationOf(c1[i], j) /\ d = IndexOf(c1[i], j) /\ k = KeysOf(c1[i])
    BY DEF DefinedBy
<1>1a. PICK i1 \in DOMAIN c1 : \E j \in DOMAIN c1[i1].indexes :
          n = RelationOf(c1[i1], j) /\ d = IndexOf(c1[i1], j) /\ k = KeysOf(c1[i1])
    BY <1>1
<1>1b. PICK j1 \in DOMAIN c1[i1].indexes :
          n = RelationOf(c1[i1], j1) /\ d = IndexOf(c1[i1], j1) /\ k = KeysOf(c1[i1])
    BY <1>1a
<1>2. PICK c2 \in Configs : \E i \in DOMAIN c2 : \E j \in DOMAIN c2[i].indexes :
          n = RelationOf(c2[i], j) /\ e = IndexOf(c2[i], j) /\ l = KeysOf(c2[i])
    BY DEF DefinedBy
<1>2a. PICK i2 \in DOMAIN c2 : \E j \in DOMAIN c2[i2].indexes :
          n = RelationOf(c2[i2], j) /\ e = IndexOf(c2[i2], j) /\ l = KeysOf(c2[i2])
    BY <1>2
<1>2b. PICK j2 \in DOMAIN c2[i2].indexes :
          n = RelationOf(c2[i2], j2) /\ e = IndexOf(c2[i2], j2) /\ l = KeysOf(c2[i2])
    BY <1>2a
<1>3. /\ c1[i1].name = c2[i2].name
      /\ KeysOf(c1[i1]) = KeysOf(c2[i2]) => IndexOf(c1[i1], j1) = IndexOf(c2[i2], j2)
    <2>1. RelationOf(c1[i1], j1) = RelationOf(c2[i2], j2)
        BY <1>1b, <1>2b
    <2> QED
        BY <2>1 DEF IndexesKeepFields
<1>4. d.on = c1[i1].name /\ e.on = c2[i2].name
    BY <1>1b, <1>2b DEF IndexOf, Index
<1> QED
    BY <1>1b, <1>2b, <1>3, <1>4

-----------------------------------------------------------------------------
(* Which objects a run is past.                                            *)

LEMMA PastAfterTable ==
    ASSUME TypeOK, NEW r \in Runs, Running(r), NEW i \in DOMAIN Config(r),
           NEW k \in DOMAIN Config(r), NEW l \in Parts(Config(r)[k]), Past(AfterTable(r, i), k, l)
    PROVE  k <= i
<1>1. DOMAIN Config(r) = 1..Len(Config(r)) /\ Len(Config(r)) \in Nat
    BY PartsOfType, JobTyped DEF TypeParts
<1>2. CASE i < Len(Config(r))
    BY <1>1, <1>2 DEF AfterTable, Past, Place
<1>3. CASE ~(i < Len(Config(r)))
    BY <1>1, <1>3
<1> QED
    BY <1>2, <1>3

LEMMA PastAfterIndex ==
    ASSUME TypeOK, NEW r \in Runs, Running(r), NEW i \in DOMAIN Config(r),
           NEW j \in Parts(Config(r)[i]),
           NEW k \in DOMAIN Config(r), NEW l \in Parts(Config(r)[k]), Past(AfterIndex(r, i, j), k, l)
    PROVE  k < i \/ (k = i /\ l <= j)
<1>0. i \in Nat /\ k \in Nat /\ j \in Nat /\ l \in Nat /\ Len(Config(r)[i].indexes) \in Nat
    BY ConfigOf DEF Parts
<1>1. CASE j < Len(Config(r)[i].indexes)
    BY <1>0, <1>1 DEF AfterIndex, Past, Place
<1>2. CASE ~(j < Len(Config(r)[i].indexes))
    <2>1. k <= i
        <3>1. CASE job[r].cleanup
            BY <1>2, <3>1 DEF AfterIndex, Past, Place
        <3>2. CASE ~job[r].cleanup
            BY <1>2, <3>2, PastAfterTable DEF AfterIndex
        <3> QED
            BY <3>1, <3>2
    <2>2. k = i => l <= j
        BY <1>0, <1>2 DEF Parts
    <2> QED
        BY <1>0, <2>1, <2>2
<1> QED
    BY <1>1, <1>2

-----------------------------------------------------------------------------
(* Statements.                                                             *)

\* What holds for the other runs while run r moves on.
LEMMA OthersKeep ==
    ASSUME TypeOK, NEW r \in Runs, NEW p, at' = [at EXCEPT ![r] = p], raced => raced',
           \A q \in Runs \ {r} : /\ job'[q] = job[q] /\ todrop'[q] = todrop[q]
                                /\ delta'[q] = delta[q]
    PROVE  \A q \in Runs \ {r} :
               /\ at'[q] = at[q] /\ (Running(q)' <=> Running(q)) /\ Config(q)' = Config(q)
               /\ CleanupAt(q) => CleanupAt(q)'
               /\ HashWritten(q) => HashWritten(q)'
<1> TAKE q \in Runs \ {r}
<1>1. at'[q] = at[q] /\ job'[q] = job[q] /\ todrop'[q] = todrop[q] /\ delta'[q] = delta[q]
    BY DEF TypeOK
<1> QED
    BY <1>1 DEF Running, Config, CleanupAt, HashWritten, Configured

LEMMA RelationCasesNext ==
    ASSUME TypeOK', NEW n \in Names, NEW r \in Runs
    PROVE  delta'[r][Rel(n)] \in {None, Same} \cup Tables \cup Indexes
<1>1. Relations = Tables \cup Indexes
    BY DEF Relations, Tables, Indexes
<1>2. delta'[r][Rel(n)] \in DefinitionsOf(Rel(n), {None, Same})
    BY ObjectsApart DEF TypeOK
<1> QED
    BY <1>1, <1>2, RelationDefinitions

\* A statement of run r that changes the objects os and moves on to place p.
LEMMA StatementHash ==
    ASSUME TypeOK, TypeOK', MetaInv, MetaInv', HashInv, NEW r \in Runs, Running(r),
           NEW p, p.stage \notin Resting, GoTo(r, p),
           \A q \in Runs \ {r} : todrop'[q] = todrop[q] /\ delta'[q] = delta[q],
           at[r].stage \in {"hash", "end"} => p.stage \in {"hash", "end"},
           NEW os, \A o \in Objects \ os : delta'[r][o] = delta[r][o],
           \A o \in (Objects \ {Row(Meta)}) \cap os :
               \/ delta'[r][o] = None /\ job[r].cleanup
               \/ delta'[r][o] \notin {None, Same} /\ (job[r].cleanup \/ db[o] = None),
           \A t \in TableNames : Row(t) \in os =>
               \/ delta'[r][Row(t)] = None /\ p.stage \in {"hash", "end"}
               \/ delta'[r][Row(t)] \in Keys /\ db[Row(t)] = None /\ See(r, Row(t)) = None,
           \A n \in Names, t \in TableNames :
               ~raced /\ Rel(n) \in os /\ delta'[r][Rel(n)] \in IndexesOn(t) =>
               DefinedBy(n, delta'[r][Rel(n)], See(r, Row(t))'),
           CleanupAt(r)', HashWritten(r)', ~raced /\ ~job[r].dry => Prepared(r)'
    PROVE  HashInv'
<1> USE ObjectsApart, TableNamesApart, Marks, KindsApart
<1>1. at' = [at EXCEPT ![r] = p] /\ UNCHANGED <<db, job, raced>> /\ at'[r] = p
    BY DEF GoTo, TypeOK
<1>2. \A q \in Runs \ {r} :
          /\ at'[q] = at[q] /\ (Running(q)' <=> Running(q)) /\ Config(q)' = Config(q)
          /\ CleanupAt(q) => CleanupAt(q)'
          /\ HashWritten(q) => HashWritten(q)'
    BY <1>1, OthersKeep
<1>3. Running(r)' /\ \A q \in Runs \ {r}, o \in Objects : See(q, o)' = See(q, o)
    BY <1>1 DEF Running, See
<1>4. RunsApart'
    BY <1>1, <1>2, <1>3 DEF HashInv, RunsApart
<1>5. IndexesDefined'
    BY <1>1 DEF HashInv, IndexesDefined
<1>6. AddedDefined'
    <2> SUFFICES ASSUME ~raced, NEW q \in Runs, NEW n \in Names, NEW t \in TableNames,
                        delta'[q][Rel(n)] \in IndexesOn(t)
                 PROVE  DefinedBy(n, delta'[q][Rel(n)], See(q, Row(t))')
        BY <1>1 DEF AddedDefined
    <2>1. CASE q # r
        BY <1>3, <2>1 DEF HashInv, AddedDefined
    <2>2. CASE q = r /\ Rel(n) \in os
        BY <2>2
    <2>3. CASE q = r /\ Rel(n) \notin os
        <3>1. delta'[r][Rel(n)] = delta[r][Rel(n)] /\ delta[r][Rel(n)] \in IndexesOn(t)
            BY <2>3
        <3>2. DefinedBy(n, delta'[r][Rel(n)], See(r, Row(t)))
            BY <3>1 DEF HashInv, AddedDefined
        <3>3. Row(t) \notin os
            <4> SUFFICES ASSUME Row(t) \in os PROVE FALSE
                OBVIOUS
            <4>1. See(r, Rel(t)) \in Tables /\ PairFits(See(r, Row(t)), See(r, Rel(t)))
                BY <3>1, SeeFits DEF MetaInv, AddedOK
            <4>2. delta'[r][Row(t)] = None
                BY <4>1 DEF PairFits
            <4>3. delta'[r][Rel(t)] = None
                BY <4>2, RelationCasesNext DEF MetaInv, PairsOK, PairFits, NamesOK, RelFits
            <4> QED
                BY <2>3, <4>3 DEF MetaInv, DroppedOK
        <3> QED
            BY <1>1, <2>3, <3>2, <3>3 DEF See
    <2> QED
        BY <2>1, <2>2, <2>3
<1>7. RowsOK'
    <2> SUFFICES ASSUME NEW q \in Runs, NEW t \in TableNames
                 PROVE  /\ delta'[q][Row(t)] = None => at'[q].stage \in {"hash", "end"}
                        /\ delta'[q][Row(t)] \in Keys => db'[Row(t)] = None
        BY DEF RowsOK
    <2>1. CASE q = r /\ Row(t) \in os
        BY <1>1, <2>1
    <2>2. CASE ~(q = r /\ Row(t) \in os)
        BY <1>1, <1>2, <2>2 DEF HashInv, RowsOK
    <2> QED
        BY <2>1, <2>2
<1>8. OnlyAdds'
    <2> SUFFICES ASSUME NEW q \in Runs, NEW o \in Objects \ {Row(Meta)}
                 PROVE  /\ ~Running(q)' => delta'[q][o] = Same
                        /\ delta'[q][o] # Same /\ ~job'[q].cleanup
                           => delta'[q][o] # None /\ db'[o] = None
        BY DEF OnlyAdds
    <2>1. CASE q = r /\ o \in os
        BY <1>1, <1>3, <2>1
    <2>2. CASE ~(q = r /\ o \in os)
        BY <1>1, <1>2, <1>3, <2>2 DEF HashInv, OnlyAdds
    <2> QED
        BY <2>1, <2>2
<1>9. PreparedOK'
    <2> SUFFICES ASSUME ~raced, NEW q \in Runs, Running(q)', ~job[q].dry PROVE Prepared(q)'
        BY <1>1 DEF PreparedOK
    <2>1. CASE q = r
        BY <2>1
    <2>2. CASE q # r
        <3>1. Running(q) /\ Prepared(q) /\ Config(q)' = Config(q) /\ at'[q] = at[q]
            BY <1>2, <2>2 DEF HashInv, PreparedOK
        <3>2. \A o : delta'[q][o] = delta[q][o] /\ See(q, o)' = See(q, o)
            BY <1>1, <2>2 DEF See
        <3> QED
            BY <3>1, <3>2 DEF Prepared
    <2> QED
        BY <2>1, <2>2
<1>10. HashTellsUnlessRaced'
    BY <1>1 DEF HashInv, HashTellsUnlessRaced, HashTells, ValidateTablesConfigHash, Conforms
<1>11. \A q \in Runs : CleanupAt(q)' /\ HashWritten(q)'
    BY <1>2 DEF HashInv
<1> QED
    BY <1>4, <1>5, <1>6, <1>7, <1>8, <1>9, <1>10, <1>11 DEF HashInv

\* What run r is past stays so when it moves on.
LEMMA PreparedStep ==
    ASSUME NamesApart, IndexesKeepFields, TypeOK, NEW r \in Runs, Running(r), NEW p, GoTo(r, p),
           NEW os, \A o \in Objects \ os : delta'[r][o] = delta[r][o], Prepared(r),
           \A i \in DOMAIN Config(r) : \A j \in Parts(Config(r)[i]) : Past(p, i, j) =>
               \/ Past(at[r], i, j) /\ ObjectOf(Config(r)[i], j) \notin os
               \/ \A o : o = ObjectOf(Config(r)[i], j) => See(r, o)' = DefinitionOf(Config(r)[i], j)
    PROVE  Prepared(r)'
<1>1. at'[r] = p /\ Config(r)' = Config(r) /\ UNCHANGED db
    BY DEF GoTo, TypeOK, Config
<1> SUFFICES ASSUME NEW i \in DOMAIN Config(r), NEW j \in Parts(Config(r)[i]), Past(p, i, j)
             PROVE  \A o : o = ObjectOf(Config(r)[i], j) => See(r, o)' = DefinitionOf(Config(r)[i], j)
    BY <1>1 DEF Prepared
<1>2. CASE Past(at[r], i, j) /\ ObjectOf(Config(r)[i], j) \notin os
    <2>1. ObjectOf(Config(r)[i], j) \in Objects
        BY PartsTyped
    <2>2. See(r, ObjectOf(Config(r)[i], j)) = DefinitionOf(Config(r)[i], j)
        BY <1>2 DEF Prepared
    <2> QED
        BY <1>1, <1>2, <2>1, <2>2 DEF See
<1> QED
    BY <1>2

\* Where a transaction that does not clean up sees nothing, nothing is committed.
LEMMA SeenNone ==
    ASSUME HashInv, NEW r \in Runs, NEW o \in Objects \ {Row(Meta)}, See(r, o) = None
    PROVE  job[r].cleanup \/ db[o] = None
BY DEF HashInv, OnlyAdds, See

\* A transaction keeps the row of a table that has an index.
LEMMA RowUnderIndex ==
    ASSUME TypeOK, MetaInv, HashInv, NEW r \in Runs, NEW n \in Names, NEW t \in TableNames,
           \/ db[Rel(n)] \in IndexesOn(t) /\ See(r, Rel(n)) \in IndexesOn(t)
           \/ \E q \in Runs : delta[q][Rel(n)] \in IndexesOn(t) /\ db[Rel(t)] \in Tables
    PROVE  delta[r][Row(t)] = Same
<1>1. t \in Names /\ t # Meta
    BY TableNamesApart
<1>2. db[Rel(t)] \in Tables
    BY DEF MetaInv, IndexesOK
<1>3. db[Row(t)] \in Keys
    BY <1>2 DEF MetaInv, PairsOK, PairFits
<1>4. delta[r][Row(t)] \notin Keys
    BY <1>3, Marks DEF HashInv, RowsOK
<1>5. delta[r][Rel(t)] # None
    BY DEF MetaInv, DroppedOK
<1>6. delta[r][Row(t)] # None
    <2> SUFFICES ASSUME delta[r][Row(t)] = None PROVE FALSE
        OBVIOUS
    <2>1. delta[r][Rel(t)] # Same /\ delta[r][Rel(t)] \notin Tables
        BY <1>4, Marks DEF MetaInv, PairsOK, PairFits
    <2>2. delta[r][Rel(t)] \notin Indexes
        BY <1>1 DEF MetaInv, NamesOK, RelFits
    <2> QED
        BY <1>1, <1>5, <2>1, <2>2, RelationCases
<1> QED
    BY <1>1, <1>4, <1>6, RowCases

\* The indexes a transaction sees are as well defined as those committed.
LEMMA SeeDefined ==
    ASSUME ~raced, TypeOK, MetaInv, HashInv, NEW r \in Runs, NEW n \in Names, NEW t \in TableNames,
           See(r, Rel(n)) \in IndexesOn(t)
    PROVE  DefinedBy(n, See(r, Rel(n)), See(r, Row(t)))
<1>1. CASE delta[r][Rel(n)] # Same
    BY <1>1 DEF HashInv, AddedDefined, See
<1>2. CASE delta[r][Rel(n)] = Same
    <2>1. db[Rel(n)] \in IndexesOn(t) /\ See(r, Rel(n)) = db[Rel(n)]
        BY <1>2 DEF See
    <2>2. delta[r][Row(t)] = Same
        BY <2>1, RowUnderIndex
    <2>3. See(r, Row(t)) = db[Row(t)]
        BY <2>2 DEF See
    <2> QED
        BY <2>1, <2>3 DEF HashInv, IndexesDefined
<1> QED
    BY <1>1, <1>2

\* An index of a configuration that a transaction sees is on its table.
LEMMA SeenIndex ==
    ASSUME ~raced, NamesApart, IndexesKeepFields, TypeOK, MetaInv, HashInv, NEW r \in Runs, Running(r),
           NEW i \in DOMAIN Config(r), NEW j \in DOMAIN Config(r)[i].indexes,
           NEW t \in TableNames, See(r, Rel(RelationOf(Config(r)[i], j))) \in IndexesOn(t)
    PROVE  /\ t = Config(r)[i].name
           /\ See(r, Row(t)) = KeysOf(Config(r)[i]) =>
                 See(r, Rel(RelationOf(Config(r)[i], j))) = IndexOf(Config(r)[i], j)
<1> DEFINE n == RelationOf(Config(r)[i], j)
           d == See(r, Rel(n))
           e == IndexOf(Config(r)[i], j)
<1>1. n \in Names /\ e.on = Config(r)[i].name /\ DefinedBy(n, e, KeysOf(Config(r)[i]))
    BY IndexTyped DEF IndexesOn
<1>2. DefinedBy(n, d, See(r, Row(t))) /\ d.on = t
    BY <1>1, SeeDefined DEF IndexesOn
<1> HIDE DEF n, d, e
<1>3. d.on = e.on /\ (See(r, Row(t)) = KeysOf(Config(r)[i]) => d = e)
    BY <1>1, <1>2, DefinedOnce
<1> QED
    BY <1>1, <1>2, <1>3 DEF n, d, e

\* Where the steps go from a table or an index.
LEMMA NextStages ==
    ASSUME NEW r \in Runs, NEW i, NEW j
    PROVE  /\ AfterTable(r, i).stage \in {"table", "list", "hash"}
           /\ AfterIndex(r, i, j).stage \in {"index", "stale", "table", "list", "hash"}
           /\ AfterTable(r, i).stage = "list" => job[r].cleanup
           /\ AfterIndex(r, i, j).stage \in {"stale", "list"} => job[r].cleanup
<1>1. /\ AfterTable(r, i).stage \in {"table", "list", "hash"}
      /\ AfterTable(r, i).stage = "list" => job[r].cleanup
    BY DEF AfterTable, Place
<1> QED
    BY <1>1 DEF AfterIndex, Place

\* A run that goes from one table or index to the next does not clean up yet.
LEMMA MovesOn ==
    ASSUME TypeOK, NEW r \in Runs, NEW p, GoTo(r, p),
           p.stage \in {"index", "stale", "table", "list", "hash"},
           p.stage \in {"stale", "list"} => job[r].cleanup
    PROVE  CleanupAt(r)' /\ HashWritten(r)'
<1>1. at'[r] = p /\ UNCHANGED job
    BY DEF GoTo, TypeOK
<1> QED
    BY <1>1 DEF CleanupAt, HashWritten

\* A step that changes no object.
LEMMA QuietHash ==
    ASSUME NamesApart, IndexesKeepFields, TypeOK, TypeOK', MetaInv, MetaInv', HashInv,
           NEW r \in Runs, Running(r),
           NEW p, p.stage \notin Resting, GoTo(r, p), UNCHANGED delta,
           \A q \in Runs \ {r} : todrop'[q] = todrop[q],
           at[r].stage \in {"hash", "end"} => p.stage \in {"hash", "end"},
           CleanupAt(r)', HashWritten(r)',
           ~raced /\ ~job[r].dry => Prepared(r)'
    PROVE  HashInv'
<1> DEFINE os == {}
<1>1. \A q \in Runs \ {r} : todrop'[q] = todrop[q] /\ delta'[q] = delta[q]
    OBVIOUS
<1>2. /\ \A o \in Objects \ os : delta'[r][o] = delta[r][o]
      /\ (Objects \ {Row(Meta)}) \cap os = {}
      /\ \A n : Row(n) \notin os /\ Rel(n) \notin os
    OBVIOUS
<1> HIDE DEF os
<1> QED
    BY <1>1, <1>2, StatementHash

\* A step that changes the objects in the domain of new.
LEMMA ChangeHash ==
    ASSUME NamesApart, IndexesKeepFields, TypeOK, TypeOK', MetaInv, MetaInv', HashInv,
           NEW r \in Runs, Running(r),
           NEW p, p.stage \notin Resting, GoTo(r, p), NEW new, Change(r, new),
           \A q \in Runs \ {r} : todrop'[q] = todrop[q],
           at[r].stage \in {"hash", "end"} => p.stage \in {"hash", "end"},
           \A o \in DOMAIN new : o # Row(Meta) =>
               \/ new[o] = None /\ job[r].cleanup
               \/ new[o] \notin {None, Same} /\ See(r, o) = None,
           \A t \in TableNames : Row(t) \in DOMAIN new =>
               \/ new[Row(t)] = None /\ p.stage \in {"hash", "end"}
               \/ new[Row(t)] \in Keys /\ at[r].stage \notin {"hash", "end"},
           \A n \in Names, t \in TableNames :
               ~raced /\ Rel(n) \in DOMAIN new /\ new[Rel(n)] \in IndexesOn(t) =>
               Row(t) \notin DOMAIN new /\ DefinedBy(n, new[Rel(n)], See(r, Row(t))),
           CleanupAt(r)', HashWritten(r)', ~raced /\ ~job[r].dry => Prepared(r)'
    PROVE  HashInv'
<1> USE ObjectsApart, TableNamesApart, Marks, KindsApart
<1> DEFINE os == DOMAIN new
<1>1. UNCHANGED db /\ LocksOK
    BY DEF GoTo, MetaInv
<1>2. /\ \A q \in Runs \ {r} : delta'[q] = delta[q]
      /\ \A o \in Objects \ os : delta'[r][o] = delta[r][o] /\ See(r, o)' = See(r, o)
      /\ \A o \in Objects \cap os : delta'[r][o] = new[o]
    BY <1>1, Changes
<1>3. \A o \in (Objects \ {Row(Meta)}) \cap os :
          \/ delta'[r][o] = None /\ job[r].cleanup
          \/ delta'[r][o] \notin {None, Same} /\ (job[r].cleanup \/ db[o] = None)
    BY <1>2, SeenNone
<1>4. ASSUME NEW t \in TableNames, Row(t) \in os
      PROVE  \/ delta'[r][Row(t)] = None /\ p.stage \in {"hash", "end"}
             \/ delta'[r][Row(t)] \in Keys /\ db[Row(t)] = None /\ See(r, Row(t)) = None
    <2>1. Row(t) \in Objects \ {Row(Meta)} /\ delta'[r][Row(t)] = new[Row(t)]
        BY <1>2, <1>4
    <2>2. CASE new[Row(t)] \in Keys /\ at[r].stage \notin {"hash", "end"}
        <3>1. See(r, Row(t)) = None
            BY <1>4, <2>1, <2>2
        <3>2. delta[r][Row(t)] # None
            BY <2>2 DEF HashInv, RowsOK
        <3> QED
            BY <2>1, <2>2, <3>1, <3>2 DEF See
    <2> QED
        BY <1>4, <2>1, <2>2
<1>5. ASSUME ~raced, NEW n \in Names, NEW t \in TableNames, Rel(n) \in os, delta'[r][Rel(n)] \in IndexesOn(t)
      PROVE  DefinedBy(n, delta'[r][Rel(n)], See(r, Row(t))')
    <2>1. delta'[r][Rel(n)] = new[Rel(n)]
        BY <1>2, <1>5
    <2>2. See(r, Row(t))' = See(r, Row(t))
        BY <1>2, <1>5, <2>1
    <2> QED
        BY <1>5, <2>1, <2>2
<1> HIDE DEF os
<1> QED
    BY <1>2, <1>3, <1>4, <1>5, StatementHash

LEMMA CreateMetaTableHash ==
    ASSUME NamesApart, IndexesKeepFields, TypeOK, TypeOK', MetaInv, MetaInv', HashInv,
           NEW r \in Runs, CreateMetaTable(r)
    PROVE  HashInv'
<1> DEFINE p == Place("table", 1, 0)
           new == [o \in {Rel(Meta)} |-> Table(FALSE)]
<1>1. at[r].stage = "meta" /\ Running(r) /\ GoTo(r, p) /\ UNCHANGED todrop
    BY DEF CreateMetaTable, Running, Resting
<1>2. p.stage = "table" /\ p.table = 1
    BY DEF Place
<1>3. at'[r] = p /\ Config(r)' = Config(r)
    BY <1>1 DEF GoTo, TypeOK, Config
<1>4. Prepared(r)'
    <2>1. \A j : \A i \in DOMAIN Config(r) : ~Past(p, i, j)
        <3>1. DOMAIN Config(r) = 1..Len(Config(r)) /\ Len(Config(r)) \in Nat
            BY <1>1, PartsOfType, JobTyped DEF TypeParts
        <3> QED
            BY <1>2, <3>1 DEF Past
    <2> QED
        BY <1>3, <2>1 DEF Prepared
<1>5. CleanupAt(r)' /\ HashWritten(r)'
    BY <1>1, <1>2, MovesOn
<1>6. p.stage \notin Resting
    BY <1>2 DEF Resting
<1>7. CASE See(r, Rel(Meta)) = None
    <2>1. Change(r, new) /\ UNCHANGED db /\ LocksOK
        BY <1>7 DEF CreateMetaTable, Create, GoTo, MetaInv
    <2>2. DOMAIN new = {Rel(Meta)} /\ new[Rel(Meta)] = Table(FALSE)
        OBVIOUS
    <2>3. Table(FALSE) \in Tables
        BY DEF Table, Tables
    <2>4. \A t \in Names : Row(t) \notin DOMAIN new
        BY <2>2, ObjectsApart, TableNamesApart
    <2>5. \A o \in DOMAIN new : /\ new[o] \notin {None, Same} /\ See(r, o) = None
                               /\ new[o] \notin Indexes
        BY <1>7, <2>2, <2>3, Marks, KindsApart
    <2> HIDE DEF new, p
    <2> QED
        BY <1>1, <1>2, <1>4, <1>5, <1>6, <2>1, <2>4, <2>5, KindsApart, TableNamesApart, ChangeHash
<1>8. CASE See(r, Rel(Meta)) # None
    <2>1. UNCHANGED delta
        BY <1>8 DEF CreateMetaTable
    <2> HIDE DEF p
    <2> QED
        BY <1>1, <1>2, <1>4, <1>5, <1>6, <2>1, QuietHash
<1> QED
    BY <1>7, <1>8

LEMMA ForgetHash ==
    ASSUME TypeOK, MetaInv, HashInv, NEW r \in Runs, NEW stage \in Resting,
           at' = [at EXCEPT ![r] = Place(stage, 0, 0)], todrop' = [todrop EXCEPT ![r] = {}],
           delta' = [delta EXCEPT ![r] = Untouched], UNCHANGED <<db, job, raced>>
    PROVE  HashInv'
<1> USE ObjectsApart, TableNamesApart, Marks, KindsApart
<1>1. /\ at'[r].stage \in Resting /\ ~Running(r)'
      /\ \A o \in Objects : delta'[r][o] = Same
      /\ \A q \in Runs \ {r} : /\ job'[q] = job[q] /\ todrop'[q] = todrop[q]
                             /\ delta'[q] = delta[q]
    BY DEF TypeOK, Place, Running, Untouched
<1>2. \A q \in Runs \ {r} :
          /\ at'[q] = at[q] /\ (Running(q)' <=> Running(q)) /\ Config(q)' = Config(q)
          /\ CleanupAt(q) => CleanupAt(q)'
          /\ HashWritten(q) => HashWritten(q)'
    BY <1>1, OthersKeep
<1>3. \A o : \A q \in Runs \ {r} : See(q, o)' = See(q, o)
    BY <1>1 DEF See
<1>4. RunsApart'
    BY <1>1, <1>2 DEF HashInv, RunsApart
<1>5. IndexesDefined'
    BY DEF HashInv, IndexesDefined
<1>6. AddedDefined'
    <2> SUFFICES ASSUME ~raced, NEW q \in Runs, NEW n \in Names, NEW t \in TableNames,
                        delta'[q][Rel(n)] \in IndexesOn(t)
                 PROVE  DefinedBy(n, delta'[q][Rel(n)], See(q, Row(t))')
        BY <1>1 DEF AddedDefined
    <2>1. q # r
        BY <1>1
    <2> QED
        BY <1>1, <1>3, <2>1 DEF HashInv, AddedDefined
<1>7. RowsOK'
    BY <1>1, <1>2 DEF HashInv, RowsOK
<1>8. OnlyAdds'
    BY <1>1, <1>2 DEF HashInv, OnlyAdds
<1>9. PreparedOK'
    <2> SUFFICES ASSUME ~raced, NEW q \in Runs, Running(q)', ~job[q].dry PROVE Prepared(q)'
        BY DEF PreparedOK
    <2>1. q # r
        BY <1>1
    <2>2. Running(q) /\ Prepared(q) /\ Config(q)' = Config(q) /\ at'[q] = at[q]
        BY <1>2, <2>1 DEF HashInv, PreparedOK
    <2> QED
        BY <1>3, <2>1, <2>2 DEF Prepared
<1>10. HashTellsUnlessRaced'
    BY DEF HashInv, HashTellsUnlessRaced, HashTells, ValidateTablesConfigHash, Conforms
<1>11. CleanupAt(r)' /\ HashWritten(r)'
    BY <1>1 DEF CleanupAt, HashWritten, Resting
<1> QED
    BY <1>2, <1>4, <1>5, <1>6, <1>7, <1>8, <1>9, <1>10, <1>11 DEF HashInv

LEMMA RollbackHash ==
    ASSUME TypeOK, MetaInv, HashInv, NEW r \in Runs, NEW stage \in Resting, Rollback(r, stage)
    PROVE  HashInv'
BY ForgetHash DEF Rollback

LEMMA ReconcileTableHash ==
    ASSUME NamesApart, IndexesKeepFields, TypeOK, TypeOK', MetaInv, MetaInv', HashInv,
           NEW r \in Runs, ReconcileTable(r)
    PROVE  HashInv'
<1>0. PICK k, t : k = at[r].table /\ t = Config(r)[k]
    OBVIOUS
<1> DEFINE row == See(r, Row(t.name))
           rel == Rel(Ident[t.name])
           next == AfterIndex(r, k, 0)
           new == [o \in {Row(t.name)} \cup (IF See(r, rel) = None THEN {rel} ELSE {})
                     |-> IF o = rel THEN Table(t.rk # NoField) ELSE KeysOf(t)]
<1>1. at[r].stage = "table" /\ Running(r) /\ k \in DOMAIN Config(r) /\ TableAt(r) = t
    BY <1>0, PartsOfType DEF ReconcileTable, Running, Resting, TypeParts, RunsOK, PlaceOK, TableAt
<1>2. /\ t.name \in TableNames /\ rel = Rel(t.name) /\ KeysOf(t) \in Keys
      /\ 0 \in Parts(t)
    BY <1>0, <1>1, ConfigOf DEF NamesApart
<1>3. /\ next.stage \notin Resting /\ next.stage \in {"index", "stale", "table", "list", "hash"}
      /\ next.stage \in {"stale", "list"} => job[r].cleanup
    BY NextStages DEF Resting
<1>4. ASSUME NEW i \in DOMAIN Config(r), NEW j \in Parts(Config(r)[i]), Past(next, i, j)
      PROVE  Past(at[r], i, j) \/ (i = k /\ j = 0)
    <2>1. i < k \/ (i = k /\ j <= 0)
        BY <1>0, <1>1, <1>2, <1>4, PastAfterIndex
    <2>2. j \in Nat
        BY DEF Parts
    <2> QED
        BY <1>0, <1>1, <2>1, <2>2 DEF Past
<1>5. /\ DOMAIN new \subseteq {Row(t.name), rel} /\ new[Row(t.name)] = KeysOf(t)
      /\ Row(t.name) \in DOMAIN new
      /\ rel \in DOMAIN new => new[rel] = Table(t.rk # NoField) /\ See(r, rel) = None
    BY <1>2, ObjectsApart, TableNamesApart
<1> HIDE DEF next, new
<1>6. ASSUME row = None, Change(r, new), GoTo(r, next), UNCHANGED todrop
      PROVE  HashInv'
    <2>1. Table(t.rk # NoField) \in Tables
        BY DEF Table, Tables
    <2>2. CleanupAt(r)' /\ HashWritten(r)'
        BY <1>3, <1>6, MovesOn
    <2>3. UNCHANGED db /\ LocksOK
        BY <1>6 DEF GoTo, MetaInv
    <2>4. /\ \A o \in Objects \ DOMAIN new : delta'[r][o] = delta[r][o]
          /\ See(r, Row(t.name))' = KeysOf(t)
        BY <1>2, <1>5, <1>6, <2>3, Changes, ObjectsApart, TableNamesApart, Marks
    <2>5. ASSUME NEW i \in DOMAIN Config(r), NEW j \in Parts(Config(r)[i]), Past(at[r], i, j)
          PROVE  ObjectOf(Config(r)[i], j) \notin DOMAIN new
        <3>1. i # k
            BY <1>0, <1>1, <2>5, ConfigOf DEF Past
        <3>2. Config(r)[i].name # t.name /\ Config(r)[i].name \in TableNames
            <4>1. Config(r) \in Configs /\ Config(r)[i].name \in TableNames
                BY <1>1, ConfigOf
            <4> QED
                BY <1>0, <1>1, <3>1, <4>1, ConfigsAssumption
        <3>3. CASE j = 0
            BY <1>2, <1>5, <3>2, <3>3, ObjectsApart, TableNamesApart DEF ObjectOf
        <3>4. CASE j # 0
            <4>1. j \in DOMAIN Config(r)[i].indexes
                BY <1>1, <3>4, ConfigOf
            <4>2. RelationOf(Config(r)[i], j) \in Names \ TableNames
                BY <1>1, <4>1, IndexTyped
            <4> QED
                BY <1>2, <1>5, <3>4, <4>2, ObjectsApart, TableNamesApart DEF ObjectOf
        <3> QED
            BY <3>3, <3>4
    <2>6. Prepared(r) => Prepared(r)'
        <3> SUFFICES ASSUME Prepared(r) PROVE Prepared(r)'
            OBVIOUS
        <3>1. \A i \in DOMAIN Config(r) : \A j \in Parts(Config(r)[i]) : Past(next, i, j) =>
                 \/ Past(at[r], i, j) /\ ObjectOf(Config(r)[i], j) \notin DOMAIN new
                 \/ \A o : o = ObjectOf(Config(r)[i], j) => See(r, o)' = DefinitionOf(Config(r)[i], j)
            BY <1>0, <1>1, <1>4, <2>4, <2>5 DEF ObjectOf, DefinitionOf
        <3> QED
            BY <1>1, <1>6, <2>4, <3>1, PreparedStep
    <2>7. ~raced /\ ~job[r].dry => Prepared(r)'
        BY <1>1, <2>6 DEF HashInv, PreparedOK
    <2>8. \A o \in DOMAIN new : new[o] \notin {None, Same} /\ See(r, o) = None
        BY <1>2, <1>5, <1>6, <2>1, Marks
    <2>9. \A n \in Names : Rel(n) \in DOMAIN new => new[Rel(n)] \notin Indexes
        BY <1>2, <1>5, <2>1, ObjectsApart, TableNamesApart, KindsApart
    <2>10. \A m \in TableNames : Row(m) \in DOMAIN new => new[Row(m)] \in Keys
        BY <1>2, <1>5, ObjectsApart, TableNamesApart
    <2> HIDE DEF rel, row
    <2> QED
        BY <1>1, <1>3, <1>6, <2>2, <2>7, <2>8, <2>9, <2>10, KindsApart, ChangeHash
<1>7. ASSUME GoTo(r, next), UNCHANGED <<delta, todrop>>, job[r].dry \/ row = KeysOf(t)
      PROVE  HashInv'
    <2>1. CleanupAt(r)' /\ HashWritten(r)'
        BY <1>3, <1>7, MovesOn
    <2>2. ASSUME row = KeysOf(t), Prepared(r) PROVE Prepared(r)'
        <3> DEFINE os == {}
        <3>1. See(r, Row(t.name))' = KeysOf(t)
            BY <1>7, <2>2 DEF GoTo, See
        <3>2. \A i \in DOMAIN Config(r) : \A j \in Parts(Config(r)[i]) : Past(next, i, j) =>
                 \/ Past(at[r], i, j) /\ ObjectOf(Config(r)[i], j) \notin os
                 \/ \A o : o = ObjectOf(Config(r)[i], j) => See(r, o)' = DefinitionOf(Config(r)[i], j)
            BY <1>0, <1>1, <1>4, <3>1 DEF ObjectOf, DefinitionOf
        <3>3. \A o \in Objects \ os : delta'[r][o] = delta[r][o]
            BY <1>7
        <3> HIDE DEF os
        <3> QED
            BY <1>1, <1>7, <2>2, <3>2, <3>3, PreparedStep
    <2>3. ~raced /\ ~job[r].dry => Prepared(r)'
        BY <1>1, <1>7, <2>2 DEF HashInv, PreparedOK
    <2> HIDE DEF rel, row
    <2> QED
        BY <1>1, <1>3, <1>7, <2>1, <2>3, QuietHash
<1>8. Rollback(r, "failed") => HashInv'
    BY RollbackHash DEF Resting
<1>9. \/ row = None /\ Change(r, new) /\ GoTo(r, next) /\ UNCHANGED todrop
      \/ GoTo(r, next) /\ UNCHANGED <<delta, todrop>> /\ (job[r].dry \/ row = KeysOf(t))
      \/ Rollback(r, "failed")
    BY <1>0, <1>1 DEF ReconcileTable, SameKeys, next, new
<1> QED
    BY <1>6, <1>7, <1>8, <1>9

LEMMA ReconcileIndexHash ==
    ASSUME NamesApart, IndexesKeepFields, TypeOK, TypeOK', MetaInv, MetaInv', HashInv,
           NEW r \in Runs, ReconcileIndex(r)
    PROVE  HashInv'
<1>0. PICK k, l, t, n : /\ k = at[r].table /\ l = at[r].index
                        /\ t = Config(r)[k] /\ n = RelationOf(t, l)
    OBVIOUS
<1> DEFINE next == AfterIndex(r, k, l)
           new == [o \in {Rel(n)} |-> IndexOf(t, l)]
<1>1. /\ at[r].stage = "index" /\ Running(r) /\ k \in DOMAIN Config(r)
      /\ l \in DOMAIN t.indexes /\ TableAt(r) = t
    BY <1>0, PartsOfType DEF ReconcileIndex, Running, Resting, TypeParts, RunsOK, PlaceOK, TableAt
<1>2. /\ t.name \in TableNames /\ Ident[t.name] = t.name /\ k \in Nat
      /\ l \in Parts(t) /\ l # 0 /\ l \in Nat
      /\ n \in Names \ (TableNames \cup {Meta}) /\ IndexOf(t, l) \in IndexesOn(t.name)
      /\ DefinedBy(n, IndexOf(t, l), KeysOf(t))
    BY <1>0, <1>1, ConfigOf, IndexTyped DEF NamesApart, Parts
<1>3. /\ next.stage \notin Resting /\ next.stage \in {"index", "stale", "table", "list", "hash"}
      /\ next.stage \in {"stale", "list"} => job[r].cleanup
    BY NextStages DEF Resting
<1>4. ASSUME NEW i \in DOMAIN Config(r), NEW j \in Parts(Config(r)[i]), Past(next, i, j)
      PROVE  Past(at[r], i, j) \/ (i = k /\ j = l)
    <2>1. i < k \/ (i = k /\ j <= l)
        BY <1>0, <1>1, <1>2, <1>4, PastAfterIndex
    <2>2. j \in Nat
        BY DEF Parts
    <2> QED
        BY <1>0, <1>1, <1>2, <2>1, <2>2 DEF Past
<1>5. /\ GoTo(r, next) /\ UNCHANGED todrop /\ UNCHANGED db
      /\ \/ UNCHANGED delta
            /\ \/ job[r].dry \/ IsIndexOn(See(r, Rel(n)), t.name)
               \/ ~IsIndexOn(See(r, Rel(n)), t.name) /\ See(r, Rel(n)) # None
         \/ ~job[r].dry /\ Change(r, new) /\ See(r, Rel(n)) = None
    BY <1>0, <1>1, <1>2 DEF ReconcileIndex, RelationOf, IndexOf, IndexAt, GoTo, Create
<1>6. CleanupAt(r)' /\ HashWritten(r)'
    BY <1>3, <1>5, MovesOn
<1>7. ASSUME ~raced /\ ~job[r].dry
      PROVE  Prepared(r) /\ See(r, Row(t.name)) = KeysOf(t)
    <2>1. Prepared(r)
        BY <1>1, <1>7 DEF HashInv, PreparedOK
    <2>2. 0 \in Parts(t) /\ Past(at[r], k, 0)
        BY <1>0, <1>1, <1>2, ConfigOf DEF Past
    <2> QED
        BY <1>0, <1>1, <2>1, <2>2 DEF Prepared, ObjectOf, DefinitionOf
<1> HIDE DEF next, new
<1>8. CASE /\ UNCHANGED delta
           /\ \/ job[r].dry \/ IsIndexOn(See(r, Rel(n)), t.name)
              \/ ~IsIndexOn(See(r, Rel(n)), t.name) /\ See(r, Rel(n)) # None
    <2>1. ASSUME ~raced /\ ~job[r].dry PROVE Prepared(r)'
        <3>1. See(r, Rel(n)) \in Indexes
            <4>1. See(r, Rel(n)) # None
                BY <1>8, <2>1 DEF IsIndexOn
            <4>2. See(r, Rel(n)) \in {None} \cup Tables \cup Indexes /\ RelFits(n, See(r, Rel(n)))
                BY <1>2, RelationCases, SeeFits
            <4> QED
                BY <1>2, <4>1, <4>2 DEF RelFits
        <3>2. PICK s \in TableNames : See(r, Rel(n)) \in IndexesOn(s)
            BY <1>2, <3>1, SeeFits DEF RelFits, IndexesOn
        <3>3. s = t.name /\ See(r, Rel(n)) = IndexOf(t, l)
            BY <1>0, <1>1, <1>7, <2>1, <3>2, SeenIndex
        <3>4. See(r, Rel(n))' = IndexOf(t, l)
            BY <1>5, <1>8, <3>3 DEF See
        <3> DEFINE os == {}
        <3>5. \A i \in DOMAIN Config(r) : \A j \in Parts(Config(r)[i]) : Past(next, i, j) =>
                 \/ Past(at[r], i, j) /\ ObjectOf(Config(r)[i], j) \notin os
                 \/ \A o : o = ObjectOf(Config(r)[i], j) => See(r, o)' = DefinitionOf(Config(r)[i], j)
            BY <1>0, <1>2, <1>4, <3>4 DEF ObjectOf, DefinitionOf
        <3>6. \A o \in Objects \ os : delta'[r][o] = delta[r][o]
            BY <1>8
        <3> HIDE DEF os
        <3> QED
            BY <1>1, <1>5, <1>7, <2>1, <3>5, <3>6, PreparedStep
    <2> QED
        BY <1>1, <1>3, <1>5, <1>6, <1>8, <2>1, QuietHash
<1>9. CASE ~job[r].dry /\ Change(r, new) /\ See(r, Rel(n)) = None
    <2>1. DOMAIN new = {Rel(n)} /\ new[Rel(n)] = IndexOf(t, l)
        BY DEF new
    <2>2. LocksOK /\ Rel(n) \in Objects /\ IndexOf(t, l) # Same
        BY <1>2, ObjectsApart, KindsApart, Marks DEF MetaInv
    <2>3. /\ \A o \in Objects \ DOMAIN new : delta'[r][o] = delta[r][o]
          /\ See(r, Rel(n))' = IndexOf(t, l)
        BY <1>5, <1>9, <2>1, <2>2, Changes
    <2>4. ASSUME ~raced /\ ~job[r].dry PROVE Prepared(r)'
        <3>1. ASSUME NEW i \in DOMAIN Config(r), NEW j \in Parts(Config(r)[i]), Past(at[r], i, j)
              PROVE  ObjectOf(Config(r)[i], j) # Rel(n)
            <4>1. /\ See(r, ObjectOf(Config(r)[i], j)) = DefinitionOf(Config(r)[i], j)
                  /\ DefinitionOf(Config(r)[i], j) # None
                BY <1>1, <1>7, <2>4, <3>1, PartsTyped DEF Prepared
            <4> QED
                BY <1>9, <4>1
        <3>2. \A i \in DOMAIN Config(r) : \A j \in Parts(Config(r)[i]) : Past(next, i, j) =>
                 \/ Past(at[r], i, j) /\ ObjectOf(Config(r)[i], j) \notin DOMAIN new
                 \/ \A o : o = ObjectOf(Config(r)[i], j) => See(r, o)' = DefinitionOf(Config(r)[i], j)
            BY <1>0, <1>2, <1>4, <2>1, <2>3, <3>1 DEF ObjectOf, DefinitionOf
        <3> QED
            BY <1>1, <1>5, <1>7, <2>3, <2>4, <3>2, PreparedStep
    <2>5. ASSUME ~raced, NEW m \in Names, NEW s \in TableNames, Rel(m) \in DOMAIN new, new[Rel(m)] \in IndexesOn(s)
          PROVE  DefinedBy(m, new[Rel(m)], See(r, Row(s)))
        <3>1. m = n /\ s = t.name
            BY <1>2, <2>1, <2>5, ObjectsApart DEF IndexesOn
        <3>2. See(r, Row(t.name)) = KeysOf(t)
            BY <1>7, <1>9, <2>5
        <3> QED
            BY <1>2, <2>1, <3>1, <3>2
    <2>6. \A m \in TableNames : Row(m) \notin DOMAIN new
        BY <1>2, <2>1, ObjectsApart, TableNamesApart
    <2>7. \A o \in DOMAIN new : new[o] \notin {None, Same} /\ See(r, o) = None
        BY <1>2, <1>9, <2>1, <2>2, KindsApart, Marks
    <2> QED
        BY <1>1, <1>3, <1>5, <1>6, <1>9, <2>4, <2>5, <2>6, <2>7, ChangeHash
<1> QED
    BY <1>5, <1>8, <1>9

\* A step that moves on to where the run is past no more than before.
LEMMA QuietPrepared ==
    ASSUME NamesApart, IndexesKeepFields, TypeOK, HashInv, NEW r \in Runs, Running(r),
           NEW p, GoTo(r, p), UNCHANGED delta,
           \A i \in DOMAIN Config(r) : \A j \in Parts(Config(r)[i]) : Past(p, i, j) => Past(at[r], i, j)
    PROVE  ~raced /\ ~job[r].dry => Prepared(r)'
<1> SUFFICES ASSUME Prepared(r) PROVE Prepared(r)'
    BY DEF HashInv, PreparedOK
<1> DEFINE os == {}
<1>1. /\ \A o \in Objects \ os : delta'[r][o] = delta[r][o]
      /\ \A i \in DOMAIN Config(r) : \A j \in Parts(Config(r)[i]) : Past(p, i, j) =>
            Past(at[r], i, j) /\ ObjectOf(Config(r)[i], j) \notin os
    OBVIOUS
<1> HIDE DEF os
<1> QED
    BY <1>1, PreparedStep

LEMMA ListStaleIndexesHash ==
    ASSUME NamesApart, IndexesKeepFields, TypeOK, TypeOK', MetaInv, MetaInv', HashInv,
           NEW r \in Runs, ListStaleIndexes(r)
    PROVE  HashInv'
<1>0. PICK k, t : k = at[r].table /\ t = Config(r)[k]
    OBVIOUS
<1> DEFINE S == {n \in Names : IsIndexOn(See(r, Rel(n)), Ident[t.name]) /\ n \notin Desired(t)}
           next == IF job[r].dry THEN AfterTable(r, k) ELSE Place("dropIndexes", k, 0)
<1>1. /\ at[r].stage = "stale" /\ Running(r) /\ k \in DOMAIN Config(r) /\ TableAt(r) = t
      /\ job[r].cleanup
    BY <1>0, PartsOfType DEF ListStaleIndexes, Running, Resting, TypeParts, RunsOK, PlaceOK, TableAt,
       HashInv, CleanupAt
<1>2. t.name \in TableNames /\ Ident[t.name] = t.name /\ k \in Nat
    BY <1>0, <1>1, ConfigOf DEF NamesApart
<1>3. GoTo(r, next) /\ UNCHANGED delta /\ todrop' = [todrop EXCEPT ![r] = S]
    BY <1>0, <1>1 DEF ListStaleIndexes
<1>4. todrop'[r] = S /\ (\A q \in Runs \ {r} : todrop'[q] = todrop[q]) /\ at'[r] = next
      /\ UNCHANGED <<job, raced>> /\ Config(r)' = Config(r)
    BY <1>3 DEF TypeOK, GoTo, Config
<1>5. ASSUME ~raced, NEW i \in DOMAIN Config(r), NEW j \in DOMAIN Config(r)[i].indexes
      PROVE  RelationOf(Config(r)[i], j) \notin S
    <2> SUFFICES ASSUME RelationOf(Config(r)[i], j) \in S PROVE FALSE
        OBVIOUS
    <2>1. /\ RelationOf(Config(r)[i], j) \in Names
          /\ RelationOf(Config(r)[i], j) \in Desired(Config(r)[i])
        BY <1>1, IndexTyped
    <2>2. See(r, Rel(RelationOf(Config(r)[i], j))) \in IndexesOn(t.name)
        BY <1>2, <2>1, RelationCases, Kinds
    <2>3. t.name = Config(r)[i].name
        BY <1>1, <1>2, <1>5, <2>2, SeenIndex
    <2>4. Config(r) \in Configs
        BY <1>1, ConfigOf
    <2>5. i = k
        BY <1>0, <1>1, <2>3, <2>4, ConfigsAssumption
    <2> QED
        BY <1>0, <2>1, <2>5
<1>6. next.stage \in {"table", "list", "hash", "dropIndexes"}
    BY NextStages DEF Place
<1> HIDE DEF next, S
<1>7. CleanupAt(r)'
    BY <1>1, <1>4, <1>5, <1>6 DEF CleanupAt
<1>8. HashWritten(r)'
    BY <1>4, <1>6 DEF HashWritten
<1>9. ~raced /\ ~job[r].dry => Prepared(r)'
    <2>1. ASSUME ~job[r].dry, NEW i \in DOMAIN Config(r), NEW j \in Parts(Config(r)[i]), Past(next, i, j)
          PROVE  Past(at[r], i, j)
        BY <1>0, <1>1, <2>1 DEF Past, next, Place
    <2> QED
        BY <1>1, <1>3, <2>1, QuietPrepared
<1> QED
    BY <1>1, <1>3, <1>4, <1>6, <1>7, <1>8, <1>9, QuietHash DEF Resting

LEMMA DropStaleIndexesHash ==
    ASSUME NamesApart, IndexesKeepFields, TypeOK, TypeOK', MetaInv, MetaInv', HashInv,
           NEW r \in Runs, DropStaleIndexes(r)
    PROVE  HashInv'
<1>0. PICK k : k = at[r].table
    OBVIOUS
<1> DEFINE os == {Rel(n) : n \in {m \in todrop[r] : See(r, Rel(m)) # None}}
           new == [o \in os |-> None]
           next == AfterTable(r, k)
<1>1. /\ at[r].stage = "dropIndexes" /\ Running(r) /\ job[r].cleanup /\ k \in DOMAIN Config(r)
    BY <1>0, PartsOfType DEF DropStaleIndexes, Running, Resting, HashInv, CleanupAt, TypeParts, RunsOK, PlaceOK
<1>2. /\ Change(r, new) /\ GoTo(r, next) /\ UNCHANGED db /\ LocksOK
      /\ \A q \in Runs \ {r} : todrop'[q] = todrop[q]
    BY <1>0 DEF DropStaleIndexes, Drop, GoTo, TypeOK, MetaInv
<1>3. todrop[r] \subseteq Names /\ todrop[r] \cap (TableNames \cup {Meta}) = {}
    BY <1>1 DEF TypeOK, MetaInv, TodropOK
<1>4. (\A n \in Names : Row(n) \notin DOMAIN new) /\ \A o \in DOMAIN new : new[o] = None
    BY <1>3, ObjectsApart
<1>5. \A n \in Names : Rel(n) \in DOMAIN new => n \in todrop[r]
    BY <1>3, ObjectsApart
<1>6. /\ next.stage \in {"index", "stale", "table", "list", "hash"} /\ next.stage \notin Resting
      /\ next.stage \in {"stale", "list"} => job[r].cleanup
    BY <1>1, NextStages DEF Resting
<1> HIDE DEF new
<1>7. CleanupAt(r)' /\ HashWritten(r)'
    BY <1>2, <1>6, MovesOn
<1>8. ASSUME ~raced, Prepared(r) PROVE Prepared(r)'
    <2>1. \A o \in Objects \ DOMAIN new : delta'[r][o] = delta[r][o]
        BY <1>2, Changes
    <2>2. ASSUME NEW i \in DOMAIN Config(r), NEW j \in Parts(Config(r)[i]), Past(next, i, j)
          PROVE  Past(at[r], i, j) /\ ObjectOf(Config(r)[i], j) \notin DOMAIN new
        <3>1. Past(at[r], i, j)
            BY <1>0, <1>1, <2>2, PastAfterTable DEF Past
        <3>2. CASE j = 0
            <4>1. Config(r)[i].name \in Names
                BY <1>1, ConfigOf, TableNamesApart
            <4>2. Row(Config(r)[i].name) \notin DOMAIN new
                BY <1>4, <4>1
            <4> QED
                BY <3>1, <3>2, <4>2 DEF ObjectOf
        <3>3. CASE j # 0
            <4>1. j \in DOMAIN Config(r)[i].indexes
                BY <1>1, <3>3, ConfigOf
            <4>2. RelationOf(Config(r)[i], j) \in Names /\ RelationOf(Config(r)[i], j) \notin todrop[r]
                BY <1>1, <1>8, <4>1, IndexTyped DEF HashInv, CleanupAt
            <4>3. Rel(RelationOf(Config(r)[i], j)) \notin DOMAIN new
                BY <1>5, <4>2
            <4> QED
                BY <3>1, <3>3, <4>3 DEF ObjectOf
        <3> QED
            BY <3>1, <3>2, <3>3
    <2> HIDE DEF next
    <2> QED
        BY <1>1, <1>2, <1>8, <2>1, <2>2, PreparedStep
<1>9. ~raced /\ ~job[r].dry => Prepared(r)'
    BY <1>1, <1>8 DEF HashInv, PreparedOK
<1>10. /\ \A o \in DOMAIN new : new[o] = None /\ new[o] \notin Indexes
       /\ \A t \in TableNames : Row(t) \notin DOMAIN new
    BY <1>4, Marks, TableNamesApart
<1> HIDE DEF next
<1> QED
    BY <1>1, <1>2, <1>6, <1>7, <1>9, <1>10, KindsApart, ChangeHash

LEMMA ListTablesHash ==
    ASSUME NamesApart, IndexesKeepFields, TypeOK, TypeOK', MetaInv, MetaInv', HashInv,
           NEW r \in Runs, ListTables(r)
    PROVE  HashInv'
<1> DEFINE S == {n \in Names : /\ See(r, Row(n)) # None
                               /\ n # Meta
                               /\ n \notin Configured(r)}
           next == Place(IF job[r].dry THEN "hash" ELSE "dropTables", 0, 0)
<1>1. at[r].stage = "list" /\ Running(r) /\ job[r].cleanup
    BY DEF ListTables, Running, Resting, HashInv, CleanupAt
<1>2. GoTo(r, next) /\ UNCHANGED delta /\ todrop' = [todrop EXCEPT ![r] = S]
    BY DEF ListTables
<1>3. todrop'[r] = S /\ (\A q \in Runs \ {r} : todrop'[q] = todrop[q]) /\ at'[r] = next
      /\ UNCHANGED <<job, raced>> /\ Config(r)' = Config(r)
    BY <1>2 DEF TypeOK, GoTo, Config
<1>4. next.stage \in {"hash", "dropTables"} /\ S \cap Configured(r) = {}
    BY DEF Place
<1> HIDE DEF next, S
<1>5. Configured(r)' = Configured(r)
    BY <1>3 DEF Configured
<1>6. CleanupAt(r)' /\ HashWritten(r)'
    BY <1>1, <1>3, <1>4, <1>5 DEF CleanupAt, HashWritten
<1>7. ~raced /\ ~job[r].dry => Prepared(r)'
    <2>1. \A i, j : Past(at[r], i, j)
        BY <1>1 DEF Past
    <2> QED
        BY <1>1, <1>2, <2>1, QuietPrepared
<1> QED
    BY <1>1, <1>2, <1>3, <1>4, <1>6, <1>7, QuietHash DEF Resting

LEMMA DropTablesHash ==
    ASSUME NamesApart, IndexesKeepFields, TypeOK, TypeOK', MetaInv, MetaInv', HashInv,
           NEW r \in Runs, DropTables(r)
    PROVE  HashInv'
<1> DEFINE tables == {Ident[n] : n \in todrop[r]}
           indexes == {n \in Names : \E t \in tables : IsIndexOn(See(r, Rel(n)), t)}
           present == {n \in tables : See(r, Rel(n)) # None}
           os == {Rel(n) : n \in present \cup indexes} \cup
                 {Row(n) : n \in {m \in todrop[r] : See(r, Row(m)) # None}}
           new == [o \in os |-> None]
           p == Place("hash", 0, 0)
<1>1. /\ at[r].stage = "dropTables" /\ Running(r) /\ job[r].cleanup
      /\ Change(r, new) /\ GoTo(r, p) /\ UNCHANGED db /\ LocksOK
      /\ \A q \in Runs \ {r} : todrop'[q] = todrop[q]
    BY DEF DropTables, Drop, GoTo, TypeOK, Running, Resting, HashInv, CleanupAt, MetaInv
<1>2. todrop[r] \subseteq TableNames /\ todrop[r] \cap Configured(r) = {}
    BY <1>1 DEF MetaInv, TodropOK, HashInv, CleanupAt
<1>3. tables = todrop[r]
    BY <1>2 DEF NamesApart
<1>4. \A n \in Names : Row(n) \in DOMAIN new => n \in todrop[r]
    BY <1>2, <1>3, ObjectsApart, TableNamesApart
<1>5. \A n \in Names : Rel(n) \in DOMAIN new => n \in present \cup indexes
    BY <1>2, <1>3, ObjectsApart, TableNamesApart
<1>6. \A n \in Names : Rel(n) \in DOMAIN new =>
          n \in TableNames \/ \E t \in todrop[r] : See(r, Rel(n)) \in IndexesOn(t)
    BY <1>2, <1>3, <1>5, RelationCases, Kinds
<1>7. \A o \in DOMAIN new : new[o] = None
    OBVIOUS
<1>8. p.stage = "hash" /\ p.stage \notin Resting
    BY DEF Place, Resting
<1> HIDE DEF new, p
<1>9. CleanupAt(r)' /\ HashWritten(r)'
    BY <1>1, <1>8, MovesOn
<1>10. ASSUME ~raced, Prepared(r) PROVE Prepared(r)'
    <2>1. \A o \in Objects \ DOMAIN new : delta'[r][o] = delta[r][o]
        BY <1>1, Changes
    <2>2. ASSUME NEW i \in DOMAIN Config(r), NEW j \in Parts(Config(r)[i])
          PROVE  Past(at[r], i, j) /\ ObjectOf(Config(r)[i], j) \notin DOMAIN new
        <3>1. Past(at[r], i, j)
            BY <1>1 DEF Past
        <3>2. Config(r)[i].name \in Names /\ Config(r)[i].name \notin todrop[r]
            BY <1>1, <1>2, ConfigOf, TableNamesApart DEF Configured
        <3>3. CASE j = 0
            <4>1. Row(Config(r)[i].name) \notin DOMAIN new
                BY <1>4, <3>2
            <4> QED
                BY <3>1, <3>3, <4>1 DEF ObjectOf
        <3>4. CASE j # 0
            <4>1. j \in DOMAIN Config(r)[i].indexes
                BY <1>1, <3>4, ConfigOf
            <4>2. RelationOf(Config(r)[i], j) \in Names \ TableNames
                BY <1>1, <4>1, IndexTyped
            <4>3. \A t \in todrop[r] : See(r, Rel(RelationOf(Config(r)[i], j))) \notin IndexesOn(t)
                BY <1>1, <1>2, <1>10, <3>2, <4>1, SeenIndex
            <4>4. Rel(RelationOf(Config(r)[i], j)) \notin DOMAIN new
                BY <1>6, <4>2, <4>3
            <4> QED
                BY <3>1, <3>4, <4>4 DEF ObjectOf
        <3> QED
            BY <3>3, <3>4
    <2> QED
        BY <1>1, <1>10, <2>1, <2>2, PreparedStep
<1>11. ~raced /\ ~job[r].dry => Prepared(r)'
    BY <1>1, <1>10 DEF HashInv, PreparedOK
<1>12. \A o \in DOMAIN new : new[o] = None /\ new[o] \notin Indexes
    BY <1>7, Marks
<1> QED
    BY <1>1, <1>8, <1>9, <1>11, <1>12, KindsApart, ChangeHash

LEMMA HashHash ==
    ASSUME NamesApart, IndexesKeepFields, TypeOK, TypeOK', MetaInv, MetaInv', HashInv,
           NEW r \in Runs, UpsertTablesConfigHash(r)
    PROVE  HashInv'
<1> DEFINE new == [o \in {Row(Meta)} |-> Minimal(Config(r))]
           p == Place("end", 0, 0)
<1>1. /\ at[r].stage = "hash" /\ Running(r) /\ GoTo(r, p) /\ UNCHANGED <<todrop, db, job, raced>>
      /\ LocksOK
    BY DEF UpsertTablesConfigHash, Running, Resting, GoTo, MetaInv
<1>2. p.stage = "end" /\ p.stage \notin Resting /\ at'[r] = p /\ Config(r)' = Config(r)
    BY <1>1 DEF Place, Resting, GoTo, TypeOK, Config
<1>3. CleanupAt(r)'
    BY <1>2 DEF CleanupAt
<1>4. \A i, j : Past(at[r], i, j)
    BY <1>1 DEF Past
<1>5. DOMAIN new = {Row(Meta)} /\ new[Row(Meta)] = Minimal(Config(r))
    OBVIOUS
<1> HIDE DEF new, p
<1>6. ASSUME Change(r, new) PROVE HashInv'
    <2>1. /\ \A o \in Objects \ DOMAIN new : delta'[r][o] = delta[r][o]
          /\ delta'[r][Row(Meta)] = Minimal(Config(r))
        BY <1>1, <1>5, <1>6, Changes, ObjectsApart, TableNamesApart
    <2>2. HashWritten(r)'
        BY <1>2, <2>1 DEF HashWritten
    <2>3. ASSUME Prepared(r) PROVE Prepared(r)'
        <3>1. \A i \in DOMAIN Config(r) : \A j \in Parts(Config(r)[i]) :
                 Past(at[r], i, j) /\ ObjectOf(Config(r)[i], j) \notin DOMAIN new
            BY <1>1, <1>4, <1>5, PartsTyped
        <3> QED
            BY <1>1, <2>1, <2>3, <3>1, PreparedStep
    <2>4. ~raced /\ ~job[r].dry => Prepared(r)'
        BY <1>1, <2>3 DEF HashInv, PreparedOK
    <2>5. \A o \in DOMAIN new : o = Row(Meta)
        BY <1>5
    <2>6. \A n \in Names : Rel(n) \notin DOMAIN new /\ (Row(n) \in DOMAIN new => n \notin TableNames)
        BY <1>5, ObjectsApart, TableNamesApart
    <2> QED
        BY <1>1, <1>2, <1>3, <1>6, <2>2, <2>4, <2>5, <2>6, TableNamesApart, ChangeHash
<1>7. ASSUME job[r].dry, UNCHANGED delta PROVE HashInv'
    <2>1. HashWritten(r)'
        BY <1>1, <1>7 DEF HashWritten
    <2>2. ~raced /\ ~job[r].dry => Prepared(r)'
        BY <1>7
    <2> QED
        BY <1>1, <1>2, <1>3, <1>7, <2>1, <2>2, QuietHash
<1>8. (job[r].dry /\ UNCHANGED delta) \/ Change(r, new)
    BY DEF UpsertTablesConfigHash, Create, new
<1> QED
    BY <1>6, <1>7, <1>8

\* Configurations with the same minimal structure ask for the same.
LEMMA MinimalConforms ==
    ASSUME NEW c \in Configs, NEW d \in Configs, Minimal(c) = Minimal(d), Conforms(c)'
    PROVE  Conforms(d)'
<1> SUFFICES ASSUME NEW i \in DOMAIN d
             PROVE  /\ db'[Row(d[i].name)] = KeysOf(d[i])
                    /\ db'[Rel(Ident[d[i].name])] = Table(d[i].rk # NoField)
                    /\ \A j \in DOMAIN d[i].indexes :
                          db'[Rel(Ident[IndexName[<<d[i].name, d[i].indexes[j].name>>]])]
                              = Index(Ident[d[i].name], d[i].indexes[j].pk, d[i].indexes[j].rk)
    BY DEF Conforms
<1>1. PICK e : e = [name |-> d[i].name, keys |-> KeysOf(d[i]),
                    indexes |-> {d[i].indexes[j] : j \in DOMAIN d[i].indexes}]
    OBVIOUS
<1>2. e \in Minimal(c)
    BY <1>1 DEF Minimal
<1>2a. PICK k \in DOMAIN c : e = [name |-> c[k].name, keys |-> KeysOf(c[k]),
                    indexes |-> {c[k].indexes[j] : j \in DOMAIN c[k].indexes}]
    BY <1>2 DEF Minimal
<1>3. /\ c[k].name = d[i].name /\ KeysOf(c[k]) = KeysOf(d[i])
      /\ {c[k].indexes[j] : j \in DOMAIN c[k].indexes} = {d[i].indexes[j] : j \in DOMAIN d[i].indexes}
    <2>1. e.name = c[k].name /\ e.keys = KeysOf(c[k])
          /\ e.indexes = {c[k].indexes[j] : j \in DOMAIN c[k].indexes}
        BY <1>2a
    <2>2. e.name = d[i].name /\ e.keys = KeysOf(d[i])
          /\ e.indexes = {d[i].indexes[j] : j \in DOMAIN d[i].indexes}
        BY <1>1
    <2> QED
        BY <2>1, <2>2
<1>4. c[k].rk = d[i].rk
    BY <1>3 DEF KeysOf
<1>5. /\ db'[Row(c[k].name)] = KeysOf(c[k])
      /\ db'[Rel(Ident[c[k].name])] = Table(c[k].rk # NoField)
      /\ \A j \in DOMAIN c[k].indexes :
            db'[Rel(Ident[IndexName[<<c[k].name, c[k].indexes[j].name>>]])]
                = Index(Ident[c[k].name], c[k].indexes[j].pk, c[k].indexes[j].rk)
    BY DEF Conforms
<1>6. ASSUME NEW j \in DOMAIN d[i].indexes
      PROVE  db'[Rel(Ident[IndexName[<<d[i].name, d[i].indexes[j].name>>]])]
                 = Index(Ident[d[i].name], d[i].indexes[j].pk, d[i].indexes[j].rk)
    <2>1. PICK l \in DOMAIN c[k].indexes : c[k].indexes[l] = d[i].indexes[j]
        BY <1>3
    <2>2. db'[Rel(Ident[IndexName[<<c[k].name, c[k].indexes[l].name>>]])]
              = Index(Ident[c[k].name], c[k].indexes[l].pk, c[k].indexes[l].rk)
        BY <1>5
    <2> QED
        BY <1>3, <2>1, <2>2
<1> QED
    BY <1>3, <1>4, <1>5, <1>6

\* A transaction at its end sees all of its configuration, and commits it.
LEMMA PreparedConforms ==
    ASSUME NamesApart, IndexesKeepFields, TypeOK, MetaInv, NEW r \in Runs, Running(r),
           at[r].stage = "end", Prepared(r), \A o \in Objects : db'[o] = See(r, o),
           NEW c, c = Config(r)
    PROVE  Conforms(c)'
<1> USE ObjectsApart, TableNamesApart
<1>1. ASSUME NEW i \in DOMAIN Config(r), NEW j \in Parts(Config(r)[i])
      PROVE  See(r, ObjectOf(Config(r)[i], j)) = DefinitionOf(Config(r)[i], j)
    <2>1. Past(at[r], i, j)
        BY DEF Past
    <2> QED
        BY <2>1 DEF Prepared
<1>2. ASSUME NEW i \in DOMAIN c
      PROVE  /\ db'[Row(c[i].name)] = KeysOf(c[i])
             /\ db'[Rel(Ident[c[i].name])] = Table(c[i].rk # NoField)
             /\ \A j \in DOMAIN c[i].indexes :
                   db'[Rel(Ident[IndexName[<<c[i].name, c[i].indexes[j].name>>]])]
                       = Index(Ident[c[i].name], c[i].indexes[j].pk, c[i].indexes[j].rk)
    <2>1. /\ c[i].name \in TableNames /\ Ident[c[i].name] = c[i].name /\ KeysOf(c[i]) \in Keys
          /\ Parts(c[i]) = {0} \cup DOMAIN c[i].indexes /\ 0 \notin DOMAIN c[i].indexes
        BY ConfigOf DEF NamesApart
    <2>2. See(r, Row(c[i].name)) = KeysOf(c[i])
        BY <1>1, <2>1 DEF ObjectOf, DefinitionOf
    <2>3. See(r, Rel(c[i].name)) = Table(c[i].rk # NoField)
        <3>1. PairFits(KeysOf(c[i]), See(r, Rel(c[i].name)))
            BY <2>1, <2>2, SeeFits
        <3> QED
            BY <2>1, <3>1 DEF PairFits, Tables, Table, KeysOf
    <2>4. ASSUME NEW j \in DOMAIN c[i].indexes
          PROVE  db'[Rel(Ident[IndexName[<<c[i].name, c[i].indexes[j].name>>]])]
                     = Index(Ident[c[i].name], c[i].indexes[j].pk, c[i].indexes[j].rk)
        <3>1. See(r, Rel(RelationOf(c[i], j))) = IndexOf(c[i], j)
            BY <1>1, <2>1 DEF ObjectOf, DefinitionOf
        <3>2. Rel(RelationOf(c[i], j)) \in Objects
            BY IndexTyped
        <3> QED
            BY <2>1, <3>1, <3>2 DEF RelationOf, IndexOf
    <2> QED
        BY <2>1, <2>2, <2>3, <2>4
<1> QED
    BY <1>2 DEF Conforms

LEMMA CommitHash ==
    ASSUME NamesApart, IndexesKeepFields, TypeOK, MetaInv, HashInv, NEW r \in Runs, Commit(r)
    PROVE  HashInv'
<1> USE ObjectsApart, TableNamesApart, Marks, KindsApart
<1>1. PICK stage \in {"done", "failed"} : at' = [at EXCEPT ![r] = Place(stage, 0, 0)]
    BY DEF Commit
<1>2. /\ at[r].stage = "end" /\ ~job[r].dry /\ Running(r) /\ UNCHANGED <<job, todrop, raced>>
      /\ at'[r].stage \in Resting /\ ~Running(r)'
    BY <1>1 DEF Commit, TypeOK, Running, Resting, Place
<1>3. /\ \A q \in Runs \ {r} : delta'[q] = delta[q]
      /\ \A o \in Objects : delta'[r][o] = Same /\ db'[o] = See(r, o)
    BY DEF Commit, TypeOK, Untouched
<1>4. \A q \in Runs \ {r} :
          /\ at'[q] = at[q] /\ (Running(q)' <=> Running(q)) /\ Config(q)' = Config(q)
          /\ CleanupAt(q) => CleanupAt(q)'
          /\ HashWritten(q) => HashWritten(q)'
    BY <1>1, <1>2, <1>3, OthersKeep
<1>5. ASSUME NEW q \in Runs \ {r}, NEW o \in Objects, delta[q][o] # Same
      PROVE  db'[o] = db[o] /\ See(q, o)' = See(q, o)
    <2>1. delta[r][o] = Same
        BY <1>5 DEF MetaInv, LocksOK
    <2> QED
        BY <1>3, <1>5, <2>1 DEF See
<1>6. RunsApart'
    BY <1>2, <1>4 DEF HashInv, RunsApart
<1>7. IndexesDefined'
    <2> SUFFICES ASSUME ~raced, NEW n \in Names, NEW t \in TableNames, db'[Rel(n)] \in IndexesOn(t)
                 PROVE  DefinedBy(n, db'[Rel(n)], db'[Row(t)])
        BY <1>2 DEF IndexesDefined
    <2>1. db'[Rel(n)] = See(r, Rel(n)) /\ db'[Row(t)] = See(r, Row(t))
        BY <1>3
    <2>2. DefinedBy(n, See(r, Rel(n)), See(r, Row(t)))
        BY <2>1, SeeDefined
    <2> QED
        BY <2>1, <2>2
<1>8. AddedDefined'
    <2> SUFFICES ASSUME ~raced, NEW q \in Runs, NEW n \in Names, NEW t \in TableNames,
                        delta'[q][Rel(n)] \in IndexesOn(t)
                 PROVE  DefinedBy(n, delta'[q][Rel(n)], See(q, Row(t))')
        BY <1>2 DEF AddedDefined
    <2>1. q # r /\ delta'[q][Rel(n)] = delta[q][Rel(n)]
        BY <1>3
    <2>2. DefinedBy(n, delta[q][Rel(n)], See(q, Row(t)))
        BY <2>1 DEF HashInv, AddedDefined
    <2>3. See(q, Row(t))' = See(q, Row(t))
        <3>1. CASE delta[q][Row(t)] # Same
            BY <1>5, <2>1, <3>1
        <3>2. CASE delta[q][Row(t)] = Same
            <4>1. delta[q][Rel(t)] = Same
                BY <3>2 DEF MetaInv, PairsOK
            <4>2. See(q, Rel(t)) \in Tables
                BY <2>1 DEF MetaInv, AddedOK
            <4>3. db[Rel(t)] \in Tables
                BY <4>1, <4>2 DEF See
            <4>4. delta[r][Row(t)] = Same
                BY <2>1, <4>3, RowUnderIndex
            <4>5. db'[Row(t)] = db[Row(t)] /\ delta'[q][Row(t)] = Same
                BY <1>3, <2>1, <3>2, <4>4 DEF See
            <4> QED
                BY <3>2, <4>5 DEF See
        <3> QED
            BY <3>1, <3>2
    <2> QED
        BY <2>1, <2>2, <2>3
<1>9. RowsOK'
    <2> SUFFICES ASSUME NEW q \in Runs, NEW t \in TableNames
                 PROVE  /\ delta'[q][Row(t)] = None => at'[q].stage \in {"hash", "end"}
                        /\ delta'[q][Row(t)] \in Keys => db'[Row(t)] = None
        BY DEF RowsOK
    <2>1. CASE q = r
        BY <1>3, <2>1
    <2>2. CASE q # r
        <3>1. /\ delta[q][Row(t)] = None => at[q].stage \in {"hash", "end"}
              /\ delta[q][Row(t)] \in Keys => db[Row(t)] = None
            BY DEF HashInv, RowsOK
        <3>2. delta[q][Row(t)] \in Keys => db'[Row(t)] = db[Row(t)]
            BY <1>5, <2>2
        <3> QED
            BY <1>3, <1>4, <2>2, <3>1, <3>2
    <2> QED
        BY <2>1, <2>2
<1>10. OnlyAdds'
    <2> SUFFICES ASSUME NEW q \in Runs, NEW o \in Objects \ {Row(Meta)}
                 PROVE  /\ ~Running(q)' => delta'[q][o] = Same
                        /\ delta'[q][o] # Same /\ ~job'[q].cleanup
                           => delta'[q][o] # None /\ db'[o] = None
        BY DEF OnlyAdds
    <2>1. CASE q = r
        BY <1>3, <2>1
    <2>2. CASE q # r
        <3>1. /\ ~Running(q) => delta[q][o] = Same
              /\ delta[q][o] # Same /\ ~job[q].cleanup => delta[q][o] # None /\ db[o] = None
            BY DEF HashInv, OnlyAdds
        <3>2. delta[q][o] # Same => db'[o] = db[o]
            BY <1>5, <2>2
        <3> QED
            BY <1>2, <1>3, <1>4, <2>2, <3>1, <3>2
    <2> QED
        BY <2>1, <2>2
<1>11. PreparedOK'
    <2> SUFFICES ASSUME ~raced, NEW q \in Runs, Running(q)', ~job[q].dry PROVE Prepared(q)'
        BY <1>2 DEF PreparedOK
    <2>1. q # r
        BY <1>2
    <2>2. Running(q) /\ Prepared(q) /\ Config(q)' = Config(q) /\ at'[q] = at[q]
        BY <1>4, <2>1 DEF HashInv, PreparedOK
    <2>3. ~job[r].cleanup
        BY <1>2, <2>1, <2>2 DEF HashInv, RunsApart
    <2> SUFFICES ASSUME NEW i \in DOMAIN Config(q), NEW j \in Parts(Config(q)[i]), Past(at[q], i, j)
                 PROVE  \A o : o = ObjectOf(Config(q)[i], j) => See(q, o)' = DefinitionOf(Config(q)[i], j)
        BY <2>2 DEF Prepared
    <2>4. /\ ObjectOf(Config(q)[i], j) \in Objects \ {Row(Meta)}
          /\ DefinitionOf(Config(q)[i], j) # None
          /\ See(q, ObjectOf(Config(q)[i], j)) = DefinitionOf(Config(q)[i], j)
        BY <2>2, PartsTyped DEF Prepared
    <2>5. ASSUME NEW o \in Objects \ {Row(Meta)}, See(q, o) # None PROVE See(q, o)' = See(q, o)
        <3>1. CASE delta[q][o] # Same
            BY <1>5, <2>1, <3>1
        <3>2. CASE delta[q][o] = Same
            <4>1. db[o] # None
                BY <2>5, <3>2 DEF See
            <4>2. delta[r][o] = Same
                BY <2>3, <4>1 DEF HashInv, OnlyAdds
            <4>3. db'[o] = db[o]
                BY <1>3, <4>2 DEF See
            <4> QED
                BY <1>3, <2>1, <3>2, <4>3 DEF See
        <3> QED
            BY <3>1, <3>2
    <2> QED
        BY <2>4, <2>5
<1>12. HashTellsUnlessRaced'
    <2> SUFFICES ASSUME ~raced, NEW c \in Configs, db'[Row(Meta)] = Minimal(c) PROVE Conforms(c)'
        BY <1>2 DEF HashTellsUnlessRaced, HashTells, ValidateTablesConfigHash
    <2>1. Prepared(r)
        BY <1>2 DEF HashInv, PreparedOK
    <2>2. PICK d : d = Config(r)
        OBVIOUS
    <2>3. d \in Configs
        BY <1>2, <2>2, ConfigOf
    <2>4. Conforms(d)'
        BY <1>2, <1>3, <2>1, <2>2, PreparedConforms
    <2>5. delta[r][Row(Meta)] = Minimal(d)
        BY <1>2, <2>2 DEF HashInv, HashWritten
    <2>6. Minimal(d) # Same
        <3>1. Minimal(d) \in DefinitionsOf(Row(Meta), {}) /\ Row(Meta) \in Objects
            BY <2>3, HashDefinitions
        <3> QED
            BY <3>1, MarksAssumption
    <2>7. db'[Row(Meta)] = Minimal(d)
        BY <1>3, <2>5, <2>6 DEF See
    <2>8. Minimal(d) = Minimal(c)
        BY <2>7
    <2> QED
        BY <2>3, <2>4, <2>8, MinimalConforms
<1>13. CleanupAt(r)' /\ HashWritten(r)'
    BY <1>2 DEF CleanupAt, HashWritten, Resting
<1> QED
    BY <1>4, <1>6, <1>7, <1>8, <1>9, <1>10, <1>11, <1>12, <1>13 DEF HashInv

LEMMA BeginHash ==
    ASSUME TypeOK, MetaInv, HashInv, NEW r \in Runs, Begin(r)
    PROVE  HashInv'
<1> USE ObjectsApart, TableNamesApart, Marks
<1>1. PICK config \in Configs, cleanup \in Cleanups, dry \in BOOLEAN :
          /\ job' = [job EXCEPT ![r] = [config |-> config, cleanup |-> cleanup, dry |-> dry]]
          /\ raced' = (raced \/ \E q \in Runs : /\ Running(q)
                                                /\ ~dry /\ ~job[q].dry
                                                /\ cleanup \/ job[q].cleanup)
    BY DEF Begin
<1>2. /\ at' = [at EXCEPT ![r] = Place("meta", 0, 0)] /\ UNCHANGED <<db, delta, todrop>>
      /\ ~Running(r) /\ at'[r].stage = "meta" /\ (raced => raced')
      /\ job'[r].cleanup = cleanup /\ job'[r].dry = dry
      /\ \A q \in Runs \ {r} : job'[q] = job[q]
    BY <1>1 DEF Begin, TypeOK, Place, Running, Resting
<1>3. \A q \in Runs \ {r} :
          /\ at'[q] = at[q] /\ (Running(q)' <=> Running(q)) /\ Config(q)' = Config(q)
          /\ CleanupAt(q) => CleanupAt(q)'
          /\ HashWritten(q) => HashWritten(q)'
    BY <1>2, OthersKeep
<1>4. \A o \in Objects \ {Row(Meta)} : delta[r][o] = Same
    BY <1>2 DEF HashInv, OnlyAdds
<1>5. RunsApart'
    <2> SUFFICES ASSUME ~raced', NEW p \in Runs, NEW q \in Runs, p # q, Running(p)', Running(q)',
                        ~job'[p].dry, ~job'[q].dry
                 PROVE  ~job'[q].cleanup
        BY DEF RunsApart
    <2>1. CASE q = r
        BY <1>1, <1>2, <1>3, <2>1
    <2>2. CASE p = r
        BY <1>1, <1>2, <1>3, <2>2
    <2>3. CASE p # r /\ q # r
        BY <1>2, <1>3, <2>3 DEF HashInv, RunsApart
    <2> QED
        BY <2>1, <2>2, <2>3
<1>6. IndexesDefined' /\ AddedDefined'
    BY <1>2 DEF HashInv, IndexesDefined, AddedDefined, See
<1>7. RowsOK'
    BY <1>2, <1>3, <1>4 DEF HashInv, RowsOK
<1>8. OnlyAdds'
    BY <1>2, <1>3, <1>4 DEF HashInv, OnlyAdds
<1>9. PreparedOK'
    <2> SUFFICES ASSUME ~raced, NEW q \in Runs, Running(q)', ~job'[q].dry PROVE Prepared(q)'
        BY <1>2 DEF PreparedOK
    <2>1. CASE q = r
        BY <1>2, <2>1 DEF Prepared, Past
    <2>2. CASE q # r
        BY <1>2, <1>3, <2>2 DEF HashInv, PreparedOK, Prepared, See
    <2> QED
        BY <2>1, <2>2
<1>10. HashTellsUnlessRaced'
    BY <1>2 DEF HashInv, HashTellsUnlessRaced, HashTells, ValidateTablesConfigHash, Conforms
<1>11. CleanupAt(r)' /\ HashWritten(r)'
    BY <1>2 DEF CleanupAt, HashWritten
<1> QED
    BY <1>3, <1>5, <1>6, <1>7, <1>8, <1>9, <1>10, <1>11 DEF HashInv

LEMMA InitHash == Init => HashInv
<1> SUFFICES ASSUME Init PROVE HashInv
    OBVIOUS
<1> USE ObjectsApart, TableNamesApart, Marks, KindsApart
<1>1. /\ \A o \in Objects : db[o] = None
      /\ \A r \in Runs, o \in Objects : delta[r][o] = Same
      /\ \A r \in Runs : at[r].stage = "idle" /\ ~Running(r)
    BY DEF Init, Untouched, Place, Running, Resting
<1>2. RunsApart /\ PreparedOK
    BY <1>1 DEF RunsApart, PreparedOK
<1>3. IndexesDefined /\ AddedDefined
    BY <1>1 DEF IndexesDefined, AddedDefined
<1>4. RowsOK /\ OnlyAdds
    BY <1>1 DEF RowsOK, OnlyAdds
<1>5. HashTellsUnlessRaced
    BY <1>1 DEF HashTellsUnlessRaced, HashTells, ValidateTablesConfigHash
<1>6. \A r \in Runs : CleanupAt(r) /\ HashWritten(r)
    BY <1>1 DEF CleanupAt, HashWritten
<1> QED
    BY <1>2, <1>3, <1>4, <1>5, <1>6 DEF HashInv

LEMMA StutterHash == HashInv /\ UNCHANGED vars => HashInv'
<1> SUFFICES ASSUME HashInv, UNCHANGED vars PROVE HashInv'
    OBVIOUS
<1>1. UNCHANGED <<db, delta, at, job, todrop, raced>>
    BY DEF vars
<1>2. RunsApart' /\ RowsOK' /\ OnlyAdds'
    BY <1>1 DEF HashInv, RunsApart, RowsOK, OnlyAdds, Running
<1>3. IndexesDefined' /\ AddedDefined'
    BY <1>1 DEF HashInv, IndexesDefined, AddedDefined, See
<1>4. PreparedOK'
    BY <1>1 DEF HashInv, PreparedOK, Prepared, Running, Config, See
<1>5. HashTellsUnlessRaced'
    BY <1>1 DEF HashInv, HashTellsUnlessRaced, HashTells, ValidateTablesConfigHash, Conforms
<1>6. \A r \in Runs : CleanupAt(r)' /\ HashWritten(r)'
    BY <1>1 DEF HashInv, CleanupAt, HashWritten, Config, Configured
<1> QED
    BY <1>2, <1>3, <1>4, <1>5, <1>6 DEF HashInv

LEMMA StepHash ==
    ASSUME NamesApart, IndexesKeepFields, TypeOK, TypeOK', MetaInv, MetaInv', HashInv, [Next]_vars
    PROVE  HashInv'
<1>1. CASE UNCHANGED vars
    BY <1>1, StutterHash
<1>2. ASSUME NEW r \in Runs, Begin(r) \/ Step(r) \/ Fail(r) PROVE HashInv'
    <2>1. EndDryRun(r) => HashInv'
        BY RollbackHash DEF EndDryRun, Resting
    <2>2. Fail(r) => HashInv'
        BY RollbackHash DEF Fail, Resting
    <2> QED
        BY <1>2, <2>1, <2>2, BeginHash, CreateMetaTableHash, ReconcileTableHash,
           ReconcileIndexHash, ListStaleIndexesHash, DropStaleIndexesHash,
           ListTablesHash, DropTablesHash, HashHash, CommitHash DEF Step
<1> QED
    BY <1>1, <1>2 DEF Next

\* The inductive invariant: what each run under way is past is there for it, in
\* spite of the commits and the drops of the others.
THEOREM HashInvariance == NamesApart /\ IndexesKeepFields => (Spec => []HashInv)
<1> SUFFICES ASSUME NamesApart, IndexesKeepFields PROVE Spec => []HashInv
    OBVIOUS
<1>1. Init => HashInv
    BY InitHash
<1>2. TypeOK /\ TypeOK' /\ MetaInv /\ MetaInv' /\ HashInv /\ [Next]_vars => HashInv'
    BY StepHash
<1>3. Spec => []MetaInv
    BY MetaInvariance
<1> QED
    BY <1>1, <1>2, <1>3, TypeCorrect, PTL DEF Spec

\* As long as no migration that cleans up overlaps another, a hash that the startup
\* check accepts (ValidateTablesConfigHash) means that every table and every index
\* of the configuration is there as it says, whatever migrations Migrate ran
\* before, and however they failed, overlapped or were killed.
THEOREM HashTellsProved ==
    NamesApart /\ IndexesKeepFields => (Spec => []HashTellsUnlessRaced)
<1> SUFFICES ASSUME NamesApart, IndexesKeepFields PROVE Spec => []HashTellsUnlessRaced
    OBVIOUS
<1>1. HashInv => HashTellsUnlessRaced
    BY DEF HashInv
<1> QED
    BY <1>1, HashInvariance, PTL

-----------------------------------------------------------------------------
(* A cleanup, with no other migration at the same time.                    *)

\* A run at place p is past the cleanup of the indexes of table i.
PastStale(p, i) ==
    \/ p.stage \in {"list", "dropTables", "hash", "end"}
    \/ p.stage \in {"table", "index", "stale", "dropIndexes"} /\ i < p.table

\* A run sees no index on a table but those the table should have.
OnlyDesired(r, t, besides) ==
    \A n \in Names : See(r, Rel(n)) \in IndexesOn(t.name) => n \in Desired(t) \cup besides

\* What a run that cleans up has got rid of, or is about to.
Cleaning(r) ==
    /\ \A i \in DOMAIN Config(r) : PastStale(at[r], i) => OnlyDesired(r, Config(r)[i], {})
    /\ at[r].stage = "dropIndexes" => OnlyDesired(r, TableAt(r), todrop[r])
    /\ at[r].stage = "dropTables" =>
          \A n \in TableNames : See(r, Row(n)) # None => n \in Configured(r) \cup todrop[r]
    /\ at[r].stage \in {"hash", "end"} =>
          \A n \in TableNames : See(r, Row(n)) # None => n \in Configured(r)

CleansUp(r) == Running(r) /\ ~job[r].dry /\ job[r].cleanup

CleanInv == RunsApart /\ (~raced => \A r \in Runs : CleansUp(r) => Cleaning(r))

-----------------------------------------------------------------------------
(* Statements.                                                             *)

\* A run that moves leaves the others where they are.
LEMMA OthersClean ==
    ASSUME TypeOK, NEW r \in Runs, NEW p, at' = [at EXCEPT ![r] = p], UNCHANGED db,
           \A q \in Runs \ {r} : /\ job'[q] = job[q] /\ todrop'[q] = todrop[q]
                                /\ delta'[q] = delta[q]
    PROVE  \A q \in Runs \ {r} : /\ Running(q)' <=> Running(q)
                                 /\ CleansUp(q)' <=> CleansUp(q)
                                 /\ Cleaning(q) => Cleaning(q)'
<1> TAKE q \in Runs \ {r}
<1>1. /\ at'[q] = at[q] /\ job'[q] = job[q] /\ todrop'[q] = todrop[q] /\ delta'[q] = delta[q]
    BY DEF TypeOK
<1>2. \A o : See(q, o)' = See(q, o)
    BY <1>1 DEF See
<1>3. (Running(q)' <=> Running(q)) /\ (CleansUp(q)' <=> CleansUp(q))
    BY <1>1 DEF Running, CleansUp
<1>4. Config(q)' = Config(q) /\ TableAt(q)' = TableAt(q) /\ Configured(q)' = Configured(q)
    BY <1>1 DEF Config, TableAt, Configured
<1>5. Cleaning(q) => Cleaning(q)'
    BY <1>1, <1>2, <1>4 DEF Cleaning, OnlyDesired
<1> QED
    BY <1>3, <1>5

\* A statement of run r, which goes on at place p.
LEMMA CleanStatement ==
    ASSUME TypeOK, CleanInv, NEW r \in Runs, Running(r),
           NEW p, p.stage \notin Resting, GoTo(r, p),
           \A q \in Runs \ {r} : todrop'[q] = todrop[q] /\ delta'[q] = delta[q],
           ~raced /\ CleansUp(r) /\ Cleaning(r) => Cleaning(r)'
    PROVE  CleanInv'
<1>1. at' = [at EXCEPT ![r] = p] /\ UNCHANGED <<db, job, raced>> /\ at'[r] = p
    BY DEF GoTo, TypeOK
<1>2. \A q \in Runs \ {r} : /\ Running(q)' <=> Running(q)
                            /\ CleansUp(q)' <=> CleansUp(q)
                            /\ Cleaning(q) => Cleaning(q)'
    BY <1>1, OthersClean
<1>3. Running(r)' /\ (CleansUp(r)' <=> CleansUp(r))
    BY <1>1 DEF Running, CleansUp
<1>4. RunsApart'
    BY <1>1, <1>2, <1>3 DEF CleanInv, RunsApart
<1> QED
    BY <1>1, <1>2, <1>3, <1>4 DEF CleanInv

\* A statement before the tables are cleaned up.
LEMMA CleaningGoesOn ==
    ASSUME TypeOK, NEW r \in Runs, Running(r), NEW p, GoTo(r, p),
           p.stage \in {"table", "index", "stale", "list"},
           \A i \in DOMAIN Config(r), n \in Names :
               PastStale(p, i) /\ See(r, Rel(n))' \in IndexesOn(Config(r)[i].name)
               => n \in Desired(Config(r)[i])
    PROVE  Cleaning(r)'
<1>1. at'[r] = p /\ Config(r)' = Config(r)
    BY DEF GoTo, TypeOK, Config
<1>2. p.stage \notin {"dropIndexes", "dropTables", "hash", "end"}
    OBVIOUS
<1> QED
    BY <1>1, <1>2 DEF Cleaning, OnlyDesired

\* A run that cleans up goes from a table to its indexes, and on to the cleanup of
\* these.
LEMMA AfterIndexCleans ==
    ASSUME NEW r \in Runs, job[r].cleanup, NEW i, NEW j
    PROVE  AfterIndex(r, i, j).stage \in {"index", "stale"} /\ AfterIndex(r, i, j).table = i
BY DEF AfterIndex, Place

LEMMA CreateMetaTableClean ==
    ASSUME TypeOK, MetaInv, CleanInv, NEW r \in Runs, CreateMetaTable(r)
    PROVE  CleanInv'
<1> DEFINE p == Place("table", 1, 0)
           new == [o \in {Rel(Meta)} |-> Table(FALSE)]
<1>1. at[r].stage = "meta" /\ Running(r) /\ GoTo(r, p) /\ UNCHANGED <<todrop, db>>
    BY DEF CreateMetaTable, Running, Resting, GoTo
<1>2. p.stage = "table" /\ p.table = 1 /\ p.stage \notin Resting
    BY DEF Place, Resting
<1>3. \A i \in DOMAIN Config(r) : ~PastStale(p, i)
    <2>1. DOMAIN Config(r) = 1..Len(Config(r)) /\ Len(Config(r)) \in Nat
        BY <1>1, PartsOfType, JobTyped DEF TypeParts
    <2> QED
        BY <1>2, <2>1 DEF PastStale
<1>4. \A q \in Runs \ {r} : delta'[q] = delta[q]
    BY DEF CreateMetaTable, Create, Change, TypeOK
<1> HIDE DEF p
<1>5. Cleaning(r)'
    BY <1>1, <1>2, <1>3, CleaningGoesOn
<1> QED
    BY <1>1, <1>2, <1>4, <1>5, CleanStatement

LEMMA RollbackClean ==
    ASSUME TypeOK, CleanInv, NEW r \in Runs, NEW stage \in Resting, Rollback(r, stage)
    PROVE  CleanInv'
<1>1. /\ at' = [at EXCEPT ![r] = Place(stage, 0, 0)] /\ UNCHANGED <<db, job, raced>>
      /\ \A q \in Runs \ {r} : todrop'[q] = todrop[q] /\ delta'[q] = delta[q] /\ job'[q] = job[q]
    BY DEF Rollback, TypeOK
<1>2. ~Running(r)' /\ ~CleansUp(r)'
    BY <1>1 DEF TypeOK, Place, Running, CleansUp
<1>3. \A q \in Runs \ {r} : /\ Running(q)' <=> Running(q)
                            /\ CleansUp(q)' <=> CleansUp(q)
                            /\ Cleaning(q) => Cleaning(q)'
    BY <1>1, OthersClean
<1>4. RunsApart'
    BY <1>1, <1>2, <1>3 DEF CleanInv, RunsApart
<1> QED
    BY <1>1, <1>2, <1>3, <1>4 DEF CleanInv

LEMMA ReconcileTableClean ==
    ASSUME NamesApart, TypeOK, MetaInv, CleanInv, NEW r \in Runs, ReconcileTable(r)
    PROVE  CleanInv'
<1>0. PICK k, t : k = at[r].table /\ t = Config(r)[k]
    OBVIOUS
<1> DEFINE rel == Rel(Ident[t.name])
           next == AfterIndex(r, k, 0)
           new == [o \in {Row(t.name)} \cup (IF See(r, rel) = None THEN {rel} ELSE {})
                     |-> IF o = rel THEN Table(t.rk # NoField) ELSE KeysOf(t)]
<1>1. at[r].stage = "table" /\ Running(r) /\ k \in DOMAIN Config(r) /\ TableAt(r) = t
    BY <1>0, PartsOfType DEF ReconcileTable, Running, Resting, TypeParts, RunsOK, PlaceOK, TableAt
<1>2. t.name \in TableNames /\ rel = Rel(t.name)
    BY <1>0, <1>1, ConfigOf DEF NamesApart
<1>3. next.stage \notin Resting
    BY NextStages DEF Resting
<1>4. \/ Change(r, new) /\ GoTo(r, next) /\ UNCHANGED todrop
      \/ GoTo(r, next) /\ UNCHANGED <<delta, todrop>>
      \/ Rollback(r, "failed")
    BY <1>0, <1>1 DEF ReconcileTable
<1>5. \A n \in Names : Rel(n) \in DOMAIN new => new[Rel(n)] \in Tables
    BY <1>2, ObjectsApart, TableNamesApart DEF Table, Tables
<1> HIDE DEF new, next
<1>6. ASSUME Change(r, new) \/ UNCHANGED delta, GoTo(r, next), UNCHANGED todrop
      PROVE  CleanInv'
    <2>1. UNCHANGED db /\ LocksOK
        BY <1>6 DEF GoTo, MetaInv
    <2>2. ASSUME NEW n \in Names, NEW s, See(r, Rel(n))' \in IndexesOn(s)
          PROVE  See(r, Rel(n)) \in IndexesOn(s)
        <3>1. CASE UNCHANGED delta
            BY <2>1, <2>2, <3>1 DEF See
        <3>2. CASE Change(r, new) /\ Rel(n) \notin DOMAIN new
            BY <2>1, <2>2, <3>2, Changes, ObjectsApart
        <3>3. CASE Change(r, new) /\ Rel(n) \in DOMAIN new
            <4>1. See(r, Rel(n))' \in Tables
                BY <1>5, <2>1, <3>3, Changes, ObjectsApart, Marks
            <4> QED
                BY <2>2, <4>1, KindsApart
        <3> QED
            BY <1>6, <3>1, <3>2, <3>3
    <2>3. ASSUME CleansUp(r), Cleaning(r) PROVE Cleaning(r)'
        <3>1. next.stage \in {"index", "stale"} /\ next.table = k
            BY <2>3, AfterIndexCleans DEF CleansUp, next
        <3>2. \A i \in DOMAIN Config(r) : PastStale(next, i) => PastStale(at[r], i)
            BY <1>0, <1>1, <3>1 DEF PastStale
        <3> QED
            BY <1>1, <1>6, <2>2, <2>3, <3>1, <3>2, CleaningGoesOn DEF Cleaning, OnlyDesired
    <2>4. \A q \in Runs \ {r} : delta'[q] = delta[q]
        BY <1>6, <2>1, Changes
    <2> QED
        BY <1>1, <1>3, <1>6, <2>3, <2>4, CleanStatement
<1>7. Rollback(r, "failed") => CleanInv'
    BY RollbackClean DEF Resting
<1> QED
    BY <1>4, <1>6, <1>7

LEMMA ReconcileIndexClean ==
    ASSUME NamesApart, TypeOK, MetaInv, CleanInv, NEW r \in Runs, ReconcileIndex(r)
    PROVE  CleanInv'
<1>0. PICK k, l, t, m : /\ k = at[r].table /\ l = at[r].index
                        /\ t = Config(r)[k] /\ m = RelationOf(t, l)
    OBVIOUS
<1> DEFINE next == AfterIndex(r, k, l)
           new == [o \in {Rel(m)} |-> IndexOf(t, l)]
<1>1. at[r].stage = "index" /\ Running(r) /\ k \in DOMAIN Config(r) /\ TableAt(r) = t
      /\ l \in DOMAIN t.indexes
    BY <1>0, PartsOfType DEF ReconcileIndex, Running, Resting, TypeParts, RunsOK, PlaceOK, TableAt
<1>2. t.name \in TableNames /\ Ident[t.name] = t.name /\ k \in Nat /\ Config(r) \in Configs
    BY <1>0, <1>1, ConfigOf DEF NamesApart
<1>3. next.stage \notin Resting
    BY NextStages DEF Resting
<1>4. /\ GoTo(r, next) /\ UNCHANGED todrop /\ UNCHANGED db
      /\ UNCHANGED delta \/ Change(r, new)
    BY <1>0, <1>1, <1>2 DEF ReconcileIndex, RelationOf, IndexOf, IndexAt, GoTo, Create
<1>5. DOMAIN new = {Rel(m)} /\ new[Rel(m)].on = t.name /\ new[Rel(m)] \in Indexes
    <2>1. t.indexes \in Seq(IndexConfigs)
        BY <1>0, <1>1, ConfigOf
    <2>2. t.indexes[l] \in IndexConfigs
        BY <1>1, <2>1
    <2> QED
        BY <1>2, <2>2, TableNamesApart DEF IndexOf, Index, Indexes, IndexConfigs
<1> HIDE DEF new, next
<1>6. LocksOK
    BY DEF MetaInv
<1>7. ASSUME NEW n \in Names, NEW s, s # t.name, See(r, Rel(n))' \in IndexesOn(s)
      PROVE  See(r, Rel(n)) \in IndexesOn(s)
    <2>1. CASE UNCHANGED delta
        BY <1>4, <1>7, <2>1 DEF See
    <2>2. CASE Change(r, new) /\ Rel(n) \notin DOMAIN new
        BY <1>4, <1>6, <1>7, <2>2, Changes, ObjectsApart
    <2>3. CASE Change(r, new) /\ Rel(n) \in DOMAIN new
        <3>1. Rel(n) \in Objects /\ new[Rel(n)] # Same /\ new[Rel(n)].on = t.name
            BY <1>5, <2>3, ObjectsApart, Marks
        <3>2. See(r, Rel(n))' = new[Rel(n)]
            BY <1>4, <1>6, <2>3, <3>1, Changes
        <3> QED
            BY <1>7, <3>1, <3>2 DEF IndexesOn
    <2> QED
        BY <1>4, <2>1, <2>2, <2>3
<1>8. ASSUME CleansUp(r), Cleaning(r) PROVE Cleaning(r)'
    <2>1. next.stage \in {"index", "stale"} /\ next.table = k
        BY <1>8, AfterIndexCleans DEF CleansUp, next
    <2>2. ASSUME NEW i \in DOMAIN Config(r), PastStale(next, i)
          PROVE  PastStale(at[r], i) /\ Config(r)[i].name # t.name
        <3>1. i < k
            BY <2>1, <2>2 DEF PastStale
        <3>2. i # k
            BY <1>1, <1>2, <3>1, ConfigOf
        <3> QED
            BY <1>0, <1>1, <1>2, <3>1, <3>2, ConfigsAssumption DEF PastStale
    <2> QED
        BY <1>1, <1>4, <1>7, <1>8, <2>1, <2>2, CleaningGoesOn DEF Cleaning, OnlyDesired
<1>9. \A q \in Runs \ {r} : delta'[q] = delta[q]
    BY <1>4, <1>6, Changes
<1> QED
    BY <1>1, <1>3, <1>4, <1>8, <1>9, CleanStatement

LEMMA ListStaleIndexesClean ==
    ASSUME NamesApart, TypeOK, CleanInv, NEW r \in Runs, ListStaleIndexes(r)
    PROVE  CleanInv'
<1>0. PICK k, t, S :
          /\ k = at[r].table /\ t = Config(r)[k]
          /\ S = {n \in Names : IsIndexOn(See(r, Rel(n)), Ident[t.name]) /\ n \notin Desired(t)}
    OBVIOUS
<1> DEFINE next == IF job[r].dry THEN AfterTable(r, k) ELSE Place("dropIndexes", k, 0)
<1>1. at[r].stage = "stale" /\ Running(r) /\ k \in DOMAIN Config(r) /\ TableAt(r) = t
    BY <1>0, PartsOfType DEF ListStaleIndexes, Running, Resting, TypeParts, RunsOK, PlaceOK, TableAt
<1>2. t.name \in TableNames /\ Ident[t.name] = t.name
    BY <1>0, <1>1, ConfigOf DEF NamesApart
<1>3. GoTo(r, next) /\ UNCHANGED <<db, delta>> /\ todrop' = [todrop EXCEPT ![r] = S]
    BY <1>0, <1>1 DEF ListStaleIndexes, GoTo
<1>4. todrop'[r] = S /\ (\A q \in Runs \ {r} : todrop'[q] = todrop[q]) /\ at'[r] = next
      /\ Config(r)' = Config(r)
    BY <1>3 DEF TypeOK, GoTo, Config
<1>5. \A n \in Names : See(r, Rel(n)) \in IndexesOn(t.name) => n \in Desired(t) \cup S
    BY <1>0, <1>2, RelationCases, Kinds
<1>6. next.stage \notin Resting
    BY NextStages DEF Place, Resting
<1>7. ASSUME CleansUp(r), Cleaning(r) PROVE Cleaning(r)'
    <2>1. next.stage = "dropIndexes" /\ next.table = k
        BY <1>7 DEF CleansUp, Place
    <2> HIDE DEF next
    <2>2. \A o : See(r, o)' = See(r, o)
        BY <1>3 DEF See
    <2>3. TableAt(r)' = t
        BY <1>0, <1>4, <2>1 DEF TableAt
    <2>4. \A i \in DOMAIN Config(r) : PastStale(next, i) => PastStale(at[r], i)
        BY <1>0, <1>1, <2>1 DEF PastStale
    <2>5. OnlyDesired(r, t, S)'
        BY <1>5, <2>2 DEF OnlyDesired
    <2>6. ASSUME NEW i \in DOMAIN Config(r), PastStale(next, i)
          PROVE  OnlyDesired(r, Config(r)[i], {})'
        <3>1. OnlyDesired(r, Config(r)[i], {})
            BY <1>7, <2>4, <2>6 DEF Cleaning
        <3> QED
            BY <1>4, <2>2, <3>1 DEF OnlyDesired
    <2>7. OnlyDesired(r, TableAt(r), todrop[r])'
        BY <1>4, <2>3, <2>5 DEF OnlyDesired
    <2> QED
        BY <1>4, <2>1, <2>6, <2>7 DEF Cleaning
<1> HIDE DEF next
<1> QED
    BY <1>1, <1>3, <1>4, <1>6, <1>7, CleanStatement

LEMMA DropStaleIndexesClean ==
    ASSUME TypeOK, MetaInv, CleanInv, NEW r \in Runs, DropStaleIndexes(r)
    PROVE  CleanInv'
<1>0. PICK k, t : k = at[r].table /\ t = Config(r)[k]
    OBVIOUS
<1> DEFINE os == {Rel(n) : n \in {m \in todrop[r] : See(r, Rel(m)) # None}}
           new == [o \in os |-> None]
           next == AfterTable(r, k)
<1>1. at[r].stage = "dropIndexes" /\ Running(r) /\ k \in DOMAIN Config(r) /\ TableAt(r) = t
    BY <1>0, PartsOfType DEF DropStaleIndexes, Running, Resting, TypeParts, RunsOK, PlaceOK, TableAt
<1>2. /\ Change(r, new) /\ GoTo(r, next) /\ UNCHANGED db /\ LocksOK
      /\ \A q \in Runs \ {r} : todrop'[q] = todrop[q] /\ delta'[q] = delta[q]
    BY <1>0 DEF DropStaleIndexes, Drop, GoTo, TypeOK, MetaInv, Change
<1>3. \A n \in todrop[r] : See(r, Rel(n)) # None => Rel(n) \in DOMAIN new
    OBVIOUS
<1>4. \A o \in DOMAIN new : new[o] = None
    OBVIOUS
<1>5. next.stage \notin Resting
    BY NextStages DEF Resting
<1> HIDE DEF new, next
<1>6. ASSUME NEW n \in Names, NEW s, See(r, Rel(n))' \in IndexesOn(s)
      PROVE  See(r, Rel(n)) \in IndexesOn(s) /\ n \notin todrop[r]
    <2>1. Rel(n) \notin DOMAIN new
        <3> SUFFICES ASSUME Rel(n) \in DOMAIN new PROVE FALSE
            OBVIOUS
        <3>1. See(r, Rel(n))' = None
            BY <1>2, <1>4, Changes, ObjectsApart, Marks
        <3> QED
            BY <1>6, <3>1, Marks, KindsApart
    <2>2. See(r, Rel(n))' = See(r, Rel(n))
        BY <1>2, <2>1, Changes, ObjectsApart
    <2>3. See(r, Rel(n)) # None
        BY <1>6, <2>2, Marks, KindsApart
    <2> QED
        BY <1>3, <1>6, <2>1, <2>2, <2>3
<1>7. ASSUME CleansUp(r), Cleaning(r) PROVE Cleaning(r)'
    <2>1. CASE next.stage = "table" /\ next.table = k + 1
        <3>1. k \in Nat /\ \A i \in DOMAIN Config(r) : i \in Nat
            BY <1>1, ConfigOf
        <3>2. \A i \in DOMAIN Config(r) : PastStale(next, i) => i = k \/ PastStale(at[r], i)
            BY <1>0, <1>1, <2>1, <3>1 DEF PastStale
        <3> QED
            BY <1>0, <1>1, <1>2, <1>6, <1>7, <2>1, <3>2, CleaningGoesOn DEF Cleaning, OnlyDesired
    <2>2. CASE next.stage = "list" /\ k >= Len(Config(r))
        <3>1. k \in Nat /\ \A i \in DOMAIN Config(r) : i \in Nat /\ i <= k
            <4>1. DOMAIN Config(r) = 1..Len(Config(r)) /\ Len(Config(r)) \in Nat
                BY <1>1, PartsOfType, JobTyped DEF TypeParts
            <4> QED
                BY <1>1, <2>2, <4>1
        <3>2. \A i \in DOMAIN Config(r) : i = k \/ PastStale(at[r], i)
            BY <1>0, <1>1, <3>1 DEF PastStale
        <3> QED
            BY <1>0, <1>1, <1>2, <1>6, <1>7, <2>2, <3>2, CleaningGoesOn DEF Cleaning, OnlyDesired
    <2>3. \/ next.stage = "table" /\ next.table = k + 1
          \/ next.stage = "list" /\ k >= Len(Config(r))
        <3>1. DOMAIN Config(r) = 1..Len(Config(r)) /\ Len(Config(r)) \in Nat
            BY <1>1, PartsOfType, JobTyped DEF TypeParts
        <3> QED
            BY <1>1, <1>7, <3>1 DEF next, AfterTable, Place, CleansUp
    <2> QED
        BY <2>1, <2>2, <2>3
<1> QED
    BY <1>1, <1>2, <1>5, <1>7, CleanStatement

LEMMA ListTablesClean ==
    ASSUME TypeOK, CleanInv, NEW r \in Runs, ListTables(r)
    PROVE  CleanInv'
<1> DEFINE S == {n \in Names : /\ See(r, Row(n)) # None
                               /\ n # Meta
                               /\ n \notin Configured(r)}
           next == Place(IF job[r].dry THEN "hash" ELSE "dropTables", 0, 0)
<1>1. at[r].stage = "list" /\ Running(r)
    BY DEF ListTables, Running, Resting
<1>2. GoTo(r, next) /\ UNCHANGED <<db, delta>> /\ todrop' = [todrop EXCEPT ![r] = S]
    BY DEF ListTables, GoTo
<1>3. todrop'[r] = S /\ (\A q \in Runs \ {r} : todrop'[q] = todrop[q]) /\ at'[r] = next
      /\ Config(r)' = Config(r)
    BY <1>2 DEF TypeOK, GoTo, Config
<1>4. \A n \in TableNames : See(r, Row(n)) # None => n \in Configured(r) \cup S
    BY TableNamesApart
<1>5. next.stage \notin Resting /\ (~job[r].dry => next.stage = "dropTables")
    BY DEF Place, Resting
<1> HIDE DEF S, next
<1>6. ASSUME CleansUp(r), Cleaning(r) PROVE Cleaning(r)'
    <2>1. next.stage = "dropTables"
        BY <1>5, <1>6 DEF CleansUp
    <2>2. (\A o : See(r, o)' = See(r, o)) /\ Configured(r)' = Configured(r)
        BY <1>2, <1>3 DEF See, Configured
    <2>3. ASSUME NEW i \in DOMAIN Config(r) PROVE OnlyDesired(r, Config(r)[i], {})'
        <3>1. OnlyDesired(r, Config(r)[i], {})
            BY <1>1, <1>6 DEF Cleaning, PastStale
        <3> QED
            BY <1>3, <2>2, <3>1 DEF OnlyDesired
    <2> QED
        BY <1>3, <1>4, <2>1, <2>2, <2>3 DEF Cleaning
<1> QED
    BY <1>1, <1>2, <1>3, <1>5, <1>6, CleanStatement

\* A statement that adds nothing, at the end of a cleanup.
LEMMA CleaningEnds ==
    ASSUME TypeOK, NEW r \in Runs, GoTo(r, Place("hash", 0, 0)) \/ GoTo(r, Place("end", 0, 0)),
           at[r].stage \in {"dropTables", "hash"}, Cleaning(r),
           \A n \in Names : See(r, Rel(n))' \in {None, See(r, Rel(n))},
           \A n \in TableNames : See(r, Row(n))' # None => n \in Configured(r)
    PROVE  Cleaning(r)'
<1>1. at'[r].stage \in {"hash", "end"} /\ Config(r)' = Config(r) /\ Configured(r)' = Configured(r)
    BY DEF GoTo, TypeOK, Place, Config, Configured
<1>2. ASSUME NEW i \in DOMAIN Config(r) PROVE OnlyDesired(r, Config(r)[i], {})'
    <2>1. OnlyDesired(r, Config(r)[i], {})
        BY DEF Cleaning, PastStale
    <2> SUFFICES ASSUME NEW n \in Names, See(r, Rel(n))' \in IndexesOn(Config(r)[i].name)
                 PROVE  n \in Desired(Config(r)[i])
        BY <1>1 DEF OnlyDesired
    <2>2. See(r, Rel(n))' # None
        BY Marks, KindsApart
    <2> QED
        BY <2>1, <2>2 DEF OnlyDesired
<1> QED
    BY <1>1, <1>2 DEF Cleaning

LEMMA DropTablesClean ==
    ASSUME NamesApart, TypeOK, MetaInv, CleanInv, NEW r \in Runs, DropTables(r)
    PROVE  CleanInv'
<1> DEFINE tables == {Ident[n] : n \in todrop[r]}
           indexes == {n \in Names : \E t \in tables : IsIndexOn(See(r, Rel(n)), t)}
           present == {n \in tables : See(r, Rel(n)) # None}
           os == {Rel(n) : n \in present \cup indexes} \cup
                 {Row(n) : n \in {m \in todrop[r] : See(r, Row(m)) # None}}
           new == [o \in os |-> None]
           p == Place("hash", 0, 0)
<1>1. /\ at[r].stage = "dropTables" /\ Running(r)
      /\ Change(r, new) /\ GoTo(r, p) /\ UNCHANGED db /\ LocksOK
      /\ \A q \in Runs \ {r} : todrop'[q] = todrop[q] /\ delta'[q] = delta[q]
    BY DEF DropTables, Drop, GoTo, TypeOK, Running, Resting, MetaInv, Change
<1>2. \A n \in todrop[r] : See(r, Row(n)) # None => Row(n) \in DOMAIN new
    OBVIOUS
<1>3. \A o \in DOMAIN new : new[o] = None
    OBVIOUS
<1>4. p.stage \notin Resting
    BY DEF Place, Resting
<1> HIDE DEF new, p
<1>5. \A o \in Objects : See(r, o)' = IF o \in DOMAIN new THEN None ELSE See(r, o)
    BY <1>1, <1>3, Changes, Marks
<1>6. ASSUME CleansUp(r), Cleaning(r) PROVE Cleaning(r)'
    <2>1. \A n \in Names : See(r, Rel(n))' \in {None, See(r, Rel(n))}
        BY <1>5, ObjectsApart
    <2>2. ASSUME NEW n \in TableNames, See(r, Row(n))' # None
          PROVE  n \in Configured(r)
        <3>1. Row(n) \notin DOMAIN new /\ See(r, Row(n)) # None
            BY <1>5, <2>2, ObjectsApart, TableNamesApart
        <3>2. n \in Configured(r) \cup todrop[r]
            BY <1>1, <1>6, <3>1 DEF Cleaning
        <3> QED
            BY <1>2, <3>1, <3>2
    <2> QED
        BY <1>1, <1>6, <2>1, <2>2, CleaningEnds DEF p
<1> QED
    BY <1>1, <1>4, <1>6, CleanStatement

LEMMA HashClean ==
    ASSUME TypeOK, MetaInv, CleanInv, NEW r \in Runs, UpsertTablesConfigHash(r)
    PROVE  CleanInv'
<1> DEFINE new == [o \in {Row(Meta)} |-> Minimal(Config(r))]
           p == Place("end", 0, 0)
<1>1. /\ at[r].stage = "hash" /\ Running(r) /\ GoTo(r, p) /\ UNCHANGED <<todrop, db>> /\ LocksOK
      /\ UNCHANGED delta \/ Change(r, new)
    BY DEF UpsertTablesConfigHash, Create, GoTo, Running, Resting, MetaInv
<1>2. DOMAIN new = {Row(Meta)} /\ p.stage \notin Resting
    BY DEF Place, Resting
<1> HIDE DEF new, p
<1>3. \A o \in Objects \ {Row(Meta)} : See(r, o)' = See(r, o)
    BY <1>1, <1>2, Changes DEF See
<1>4. \A q \in Runs \ {r} : delta'[q] = delta[q]
    BY <1>1, Changes
<1>5. ASSUME CleansUp(r), Cleaning(r) PROVE Cleaning(r)'
    <2>1. \A n \in Names : See(r, Rel(n))' = See(r, Rel(n))
        BY <1>3, ObjectsApart, TableNamesApart
    <2>2. \A n \in TableNames : See(r, Row(n))' = See(r, Row(n))
        BY <1>3, ObjectsApart, TableNamesApart
    <2>3. \A n \in TableNames : See(r, Row(n)) # None => n \in Configured(r)
        BY <1>1, <1>5 DEF Cleaning
    <2> QED
        BY <1>1, <1>5, <2>1, <2>2, <2>3, CleaningEnds DEF p
<1> QED
    BY <1>1, <1>2, <1>4, <1>5, CleanStatement

-----------------------------------------------------------------------------
(* Beginning and end.                                                      *)

\* A commit is seen by others, but never beside one that cleans up.
LEMMA CommitClean ==
    ASSUME TypeOK, CleanInv, NEW r \in Runs, Commit(r)
    PROVE  CleanInv'
<1>1. PICK stage \in {"done", "failed"} : at' = [at EXCEPT ![r] = Place(stage, 0, 0)]
    BY DEF Commit
<1>2. /\ Running(r) /\ ~job[r].dry /\ UNCHANGED <<job, todrop, raced>> /\ ~Running(r)'
      /\ \A q \in Runs \ {r} : at'[q] = at[q]
    BY <1>1 DEF Commit, TypeOK, Running, Resting, Place
<1>3. \A q \in Runs \ {r} : (Running(q)' <=> Running(q)) /\ (CleansUp(q)' <=> CleansUp(q))
    BY <1>2 DEF Running, CleansUp
<1>4. RunsApart'
    BY <1>2, <1>3 DEF CleanInv, RunsApart
<1>5. ASSUME ~raced, NEW q \in Runs, CleansUp(q)' PROVE FALSE
    <2>1. q # r
        BY <1>2, <1>5 DEF CleansUp
    <2> QED
        BY <1>2, <1>3, <1>5, <2>1 DEF CleanInv, RunsApart, CleansUp
<1> QED
    BY <1>2, <1>4, <1>5 DEF CleanInv

LEMMA BeginClean ==
    ASSUME TypeOK, CleanInv, NEW r \in Runs, Begin(r)
    PROVE  CleanInv'
<1>1. PICK config \in Configs, cleanup \in Cleanups, dry \in BOOLEAN :
          /\ job' = [job EXCEPT ![r] = [config |-> config, cleanup |-> cleanup, dry |-> dry]]
          /\ raced' = (raced \/ \E q \in Runs : /\ Running(q)
                                                /\ ~dry /\ ~job[q].dry
                                                /\ cleanup \/ job[q].cleanup)
    BY DEF Begin
<1>2. /\ at' = [at EXCEPT ![r] = Place("meta", 0, 0)] /\ UNCHANGED <<db, delta, todrop>>
      /\ ~Running(r) /\ at'[r].stage = "meta" /\ (raced => raced')
      /\ job'[r].cleanup = cleanup /\ job'[r].dry = dry
      /\ \A q \in Runs \ {r} : job'[q] = job[q]
    BY <1>1 DEF Begin, TypeOK, Place, Running, Resting
<1>3. \A q \in Runs \ {r} : /\ Running(q)' <=> Running(q)
                            /\ CleansUp(q)' <=> CleansUp(q)
                            /\ Cleaning(q) => Cleaning(q)'
    BY <1>2, OthersClean
<1>4. RunsApart'
    <2> SUFFICES ASSUME ~raced', NEW p \in Runs, NEW q \in Runs, p # q, Running(p)', Running(q)',
                        ~job'[p].dry, ~job'[q].dry
                 PROVE  ~job'[q].cleanup
        BY DEF RunsApart
    <2>1. CASE q = r
        BY <1>1, <1>2, <1>3, <2>1
    <2>2. CASE p = r
        BY <1>1, <1>2, <1>3, <2>2
    <2>3. CASE p # r /\ q # r
        BY <1>2, <1>3, <2>3 DEF CleanInv, RunsApart
    <2> QED
        BY <2>1, <2>2, <2>3
<1>5. Cleaning(r)'
    BY <1>2 DEF Cleaning, PastStale
<1> QED
    BY <1>2, <1>3, <1>4, <1>5 DEF CleanInv

LEMMA InitClean == Init => CleanInv
<1> SUFFICES ASSUME Init PROVE CleanInv
    OBVIOUS
<1>1. \A r \in Runs : ~Running(r)
    BY DEF Init, Place, Running, Resting
<1> QED
    BY <1>1 DEF CleanInv, RunsApart, CleansUp

LEMMA StutterClean == CleanInv /\ UNCHANGED vars => CleanInv'
<1> SUFFICES ASSUME CleanInv, UNCHANGED vars PROVE CleanInv'
    OBVIOUS
<1>1. UNCHANGED <<db, delta, at, job, todrop, raced>>
    BY DEF vars
<1>2. RunsApart' /\ \A r \in Runs : CleansUp(r)' <=> CleansUp(r)
    BY <1>1 DEF CleanInv, RunsApart, CleansUp, Running
<1>3. \A r \in Runs : Cleaning(r) => Cleaning(r)'
    BY <1>1 DEF Cleaning, OnlyDesired, See, Config, TableAt, Configured
<1> QED
    BY <1>1, <1>2, <1>3 DEF CleanInv

LEMMA StepClean ==
    ASSUME NamesApart, TypeOK, MetaInv, CleanInv, [Next]_vars
    PROVE  CleanInv'
<1>1. CASE UNCHANGED vars
    BY <1>1, StutterClean
<1>2. ASSUME NEW r \in Runs, Begin(r) \/ Step(r) \/ Fail(r) PROVE CleanInv'
    <2>1. EndDryRun(r) => CleanInv'
        BY RollbackClean DEF EndDryRun, Resting
    <2>2. Fail(r) => CleanInv'
        BY RollbackClean DEF Fail, Resting
    <2> QED
        BY <1>2, <2>1, <2>2, BeginClean, CreateMetaTableClean, ReconcileTableClean,
           ReconcileIndexClean, ListStaleIndexesClean, DropStaleIndexesClean,
           ListTablesClean, DropTablesClean, HashClean, CommitClean DEF Step
<1> QED
    BY <1>1, <1>2 DEF Next

\* What a commit leaves after a cleanup.
LEMMA CommitLeaves ==
    ASSUME NamesApart, TypeOK, MetaInv, CleanInv, ~raced, NEW r \in Runs, Commit(r), job[r].cleanup,
           NEW n \in Names, db'[Rel(n)] # None
    PROVE  \/ n \in Configured(r) \cup {Meta}
           \/ \E i \in DOMAIN Config(r) : n \in Desired(Config(r)[i])
<1>1. /\ at[r].stage = "end" /\ Cleaning(r) /\ db'[Rel(n)] = See(r, Rel(n))
    BY ObjectsApart DEF Commit, CleanInv, CleansUp, Running, Resting
<1>2. \A t \in TableNames : See(r, Rel(t)) \in Tables => t \in Configured(r)
    <2> SUFFICES ASSUME NEW t \in TableNames, See(r, Rel(t)) \in Tables PROVE t \in Configured(r)
        OBVIOUS
    <2>1. t \in Names /\ See(r, Row(t)) \in Keys
        BY SeeFits, TableNamesApart DEF PairFits
    <2> QED
        BY <1>1, <2>1, Marks DEF Cleaning
<1>3. CASE See(r, Rel(n)) \in Tables
    <2>1. n \in TableNames \cup {Meta}
        BY <1>3, SeeFits DEF RelFits
    <2> QED
        BY <1>2, <1>3, <2>1
<1>4. CASE See(r, Rel(n)) \in Indexes
    <2>1. PICK t \in TableNames : See(r, Rel(n)) \in IndexesOn(t)
        BY <1>4, SeeFits DEF RelFits, IndexesOn
    <2>2. t \in Configured(r)
        BY <1>2, <2>1, SeeIndexes
    <2>3. PICK i \in DOMAIN Config(r) : Config(r)[i].name = t
        BY <2>2 DEF Configured
    <2>4. OnlyDesired(r, Config(r)[i], {})
        BY <1>1 DEF Cleaning, PastStale
    <2> QED
        BY <2>1, <2>3, <2>4 DEF OnlyDesired
<1> QED
    BY <1>1, <1>3, <1>4, RelationCases

-----------------------------------------------------------------------------

\* The inductive invariant: what a run sees of the tables it has cleaned up, and
\* that what it listed is all that is left to drop.
THEOREM CleanInvariance == NamesApart => (Spec => []CleanInv)
<1> SUFFICES ASSUME NamesApart PROVE Spec => []CleanInv
    OBVIOUS
<1>1. Init => CleanInv
    BY InitClean
<1>2. TypeOK /\ MetaInv /\ CleanInv /\ [Next]_vars => CleanInv'
    BY StepClean
<1>3. Spec => []MetaInv
    BY MetaInvariance
<1> QED
    BY <1>1, <1>2, <1>3, TypeCorrect, PTL DEF Spec

\* A migration with -cleanup that commits leaves no table and no index but those of
\* its configuration (cleanupIndexes, cleanupTables), whatever was there before and
\* whatever dry runs go on beside it, as long as no other migration overlaps it.
THEOREM CleanupLeaves == NamesApart => (Spec => CleanupLeavesConfigured)
<1> SUFFICES ASSUME NamesApart PROVE Spec => CleanupLeavesConfigured
    OBVIOUS
<1> DEFINE Leaves == \A r \in Runs :
               Commit(r) /\ job[r].cleanup /\ ~raced =>
                   \A n \in Names : db'[Rel(n)] # None =>
                       \/ n \in Configured(r) \cup {Meta}
                       \/ \E i \in DOMAIN Config(r) : n \in Desired(Config(r)[i])
<1>1. TypeOK /\ MetaInv /\ CleanInv => [Leaves]_vars
    BY CommitLeaves
<1>2. Spec => []MetaInv
    BY MetaInvariance
<1>3. Spec => []CleanInv
    BY CleanInvariance
<1>4. Spec => [][Leaves]_vars
    BY <1>1, <1>2, <1>3, TypeCorrect, PTL
<1> QED
    BY <1>4 DEF CleanupLeavesConfigured
=============================================================================
