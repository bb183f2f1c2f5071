-------------------------- MODULE MigrationProofs --------------------------
(***************************************************************************)
(* Proofs about Migration: types, for any runs, configurations and names;  *)
(* and that _meta tells which tables there are, whatever migrations run,   *)
(* overlap, fail or are killed, where the names of tables stay apart.      *)
(***************************************************************************)
EXTENDS Migration, TLAPS

Stages == Resting \cup {"meta", "table", "index", "stale", "dropIndexes",
                        "list", "dropTables", "hash", "end"}
OnTable == {"table", "index", "stale", "dropIndexes"}
Places == [stage : Stages, table : Nat, index : Nat]

\* TypeOK in parts, those of the database and those of the runs.
DbOK == DOMAIN db = Objects /\ \A o \in Objects : db[o] \in DefinitionsOf(o, {None})
DeltaOK ==
    /\ DOMAIN delta = Runs
    /\ \A r \in Runs, o \in Objects : delta[r][o] \in DefinitionsOf(o, {None, Same})
RunsOK ==
    /\ at \in [Runs -> Places]
    /\ job \in [Runs -> {None} \cup Jobs]
    /\ \A r \in Runs : PlaceOK(r)
TypeParts == DbOK /\ DeltaOK /\ RunsOK /\ todrop \in [Runs -> SUBSET Names] /\ raced \in BOOLEAN

LEMMA PartsOfType == TypeOK <=> TypeParts
BY DEF TypeOK, TypeParts, DbOK, DeltaOK, RunsOK, Stages, Places

\* A place that a run with the configuration it has may go to.
GoodPlace(r, p) ==
    /\ p \in Places
    /\ p.stage \in OnTable => p.table \in DOMAIN Config(r)
    /\ p.stage = "index" => p.index \in DOMAIN Config(r)[p.table].indexes

-----------------------------------------------------------------------------
(* Configurations.                                                         *)

LEMMA JobTyped ==
    ASSUME RunsOK, NEW r \in Runs, Running(r)
    PROVE  /\ job[r] \in Jobs
           /\ Config(r) \in Configs /\ job[r].cleanup \in BOOLEAN /\ job[r].dry \in BOOLEAN
           /\ Config(r) \in Seq(TableConfigs) /\ Len(Config(r)) \in Nat \ {0}
<1>1. job[r] \in Jobs
    BY DEF RunsOK, PlaceOK
<1>2. Config(r) \in Configs /\ job[r].cleanup \in BOOLEAN /\ job[r].dry \in BOOLEAN
    BY <1>1, RunsAssumption DEF Jobs, Config
<1>3. Config(r) \in Seq(TableConfigs) /\ Config(r) # <<>>
    BY <1>2, ConfigsAssumption
<1> QED
    BY <1>1, <1>2, <1>3

LEMMA TableTyped ==
    ASSUME RunsOK, NEW r \in Runs, Running(r), NEW i \in DOMAIN Config(r)
    PROVE  /\ Config(r)[i] \in TableConfigs /\ Config(r)[i].name # Meta
           /\ Config(r)[i].name \in Names /\ KeysOf(Config(r)[i]) \in Keys
           /\ Config(r)[i].indexes \in Seq(IndexConfigs)
<1>1. Config(r)[i] \in TableConfigs
    BY JobTyped
<1>2. Config(r)[i].name # Meta
    BY JobTyped, ConfigsAssumption
<1> QED
    BY <1>1, <1>2 DEF TableConfigs, KeysOf, Keys

LEMMA AfterTableGood ==
    ASSUME RunsOK, NEW r \in Runs, Running(r), NEW i \in Nat
    PROVE  GoodPlace(r, AfterTable(r, i))
<1>1. DOMAIN Config(r) = 1..Len(Config(r)) /\ Len(Config(r)) \in Nat
    BY JobTyped
<1> QED
    BY <1>1 DEF AfterTable, GoodPlace, Place, Places, Stages, OnTable, Resting

LEMMA AfterIndexGood ==
    ASSUME RunsOK, NEW r \in Runs, Running(r), NEW i \in DOMAIN Config(r), NEW j \in Nat
    PROVE  GoodPlace(r, AfterIndex(r, i, j))
<1>1. /\ DOMAIN Config(r)[i].indexes = 1..Len(Config(r)[i].indexes)
      /\ Len(Config(r)[i].indexes) \in Nat
    BY TableTyped
<1>2. i \in Nat
    BY JobTyped
<1>3. CASE j < Len(Config(r)[i].indexes)
    BY <1>1, <1>2, <1>3 DEF AfterIndex, GoodPlace, Place, Places, Stages, OnTable, Resting
<1>4. CASE ~(j < Len(Config(r)[i].indexes)) /\ job[r].cleanup
    BY <1>2, <1>4 DEF AfterIndex, GoodPlace, Place, Places, Stages, OnTable, Resting
<1>5. CASE ~(j < Len(Config(r)[i].indexes)) /\ ~job[r].cleanup
    BY <1>2, <1>5, AfterTableGood DEF AfterIndex
<1> QED
    BY <1>3, <1>4, <1>5

-----------------------------------------------------------------------------
(* Transactions.                                                           *)

LEMMA SeeTyped ==
    ASSUME DbOK, DeltaOK, NEW r \in Runs, NEW o \in Objects
    PROVE  See(r, o) \in DefinitionsOf(o, {None})
BY DEF DbOK, DeltaOK, See, DefinitionsOf

LEMMA ChangeTyped ==
    ASSUME DeltaOK, NEW r \in Runs, NEW new, Change(r, new),
           \A o \in DOMAIN new \cap Objects : new[o] \in DefinitionsOf(o, {None})
    PROVE  DeltaOK'
<1>1. delta' = [delta EXCEPT ![r] =
                  [o \in Objects |-> IF o \in DOMAIN new THEN new[o] ELSE @[o]]]
    BY DEF Change
<1>2. \A o \in DOMAIN new \cap Objects : new[o] \in DefinitionsOf(o, {None, Same})
    BY DEF DefinitionsOf
<1> QED
    BY <1>1, <1>2 DEF DeltaOK, DefinitionsOf

LEMMA CreateTyped ==
    ASSUME DeltaOK, NEW r \in Runs, NEW o \in Objects, NEW d \in DefinitionsOf(o, {None}),
           Create(r, {o}, d)
    PROVE  DeltaOK'
BY ChangeTyped DEF Create

LEMMA DropTyped ==
    ASSUME DeltaOK, NEW r \in Runs, NEW os, Drop(r, os)
    PROVE  DeltaOK'
<1>1. \A o \in Objects : None \in DefinitionsOf(o, {None})
    BY DEF DefinitionsOf
<1> QED
    BY <1>1, ChangeTyped DEF Drop

\* A run that goes to a good place.
LEMMA GoToTyped ==
    ASSUME RunsOK, DbOK, NEW r \in Runs, Running(r), NEW p, GoodPlace(r, p), GoTo(r, p)
    PROVE  RunsOK' /\ DbOK' /\ UNCHANGED raced
<1>1. at' = [at EXCEPT ![r] = p] /\ UNCHANGED <<db, job, raced>> /\ p \in Places
    BY DEF GoTo, GoodPlace
<1>2. at' \in [Runs -> Places] /\ job' \in [Runs -> {None} \cup Jobs]
    BY <1>1 DEF RunsOK
<1>3. ASSUME NEW q \in Runs PROVE PlaceOK(q)'
    <2>1. CASE q = r
        <3>1. at'[r] = p
            BY <1>1 DEF RunsOK
        <3>2. job[r] \in Jobs
            BY DEF RunsOK, PlaceOK
        <3> QED
            BY <1>1, <2>1, <3>1, <3>2 DEF PlaceOK, GoodPlace, OnTable, Config, TableAt
    <2>2. CASE q # r
        <3>1. at'[q] = at[q] /\ PlaceOK(q)
            BY <1>1, <2>2 DEF RunsOK
        <3> QED
            BY <1>1, <3>1 DEF PlaceOK, Running, Config, TableAt
    <2> QED
        BY <2>1, <2>2
<1> QED
    BY <1>1, <1>2, <1>3 DEF RunsOK, DbOK

\* A run that comes to an end, in whatever way.
LEMMA RestingTyped ==
    ASSUME RunsOK, NEW r \in Runs, NEW stage \in Resting,
           at' = [at EXCEPT ![r] = Place(stage, 0, 0)], UNCHANGED job
    PROVE  RunsOK'
<1>1. Place(stage, 0, 0) \in Places /\ Place(stage, 0, 0).stage = stage
    BY DEF Place, Places, Stages
<1>2. at' \in [Runs -> Places] /\ job' \in [Runs -> {None} \cup Jobs]
    BY <1>1 DEF RunsOK
<1>3. ASSUME NEW q \in Runs PROVE PlaceOK(q)'
    <2>1. CASE q = r
        <3>1. at'[q].stage \in Resting
            BY <1>1, <2>1 DEF RunsOK
        <3> QED
            BY <3>1 DEF PlaceOK, Running, Resting
    <2>2. CASE q # r
        <3>1. at'[q] = at[q] /\ PlaceOK(q)
            BY <2>2 DEF RunsOK
        <3> QED
            BY <3>1 DEF PlaceOK, Running, Config, TableAt
    <2> QED
        BY <2>1, <2>2
<1> QED
    BY <1>2, <1>3 DEF RunsOK

LEMMA RollbackTyped ==
    ASSUME TypeParts, NEW r \in Runs, NEW stage \in Resting, Rollback(r, stage)
    PROVE  TypeParts'
<1>1. /\ delta' = [delta EXCEPT ![r] = Untouched] /\ todrop' = [todrop EXCEPT ![r] = {}]
      /\ at' = [at EXCEPT ![r] = Place(stage, 0, 0)] /\ UNCHANGED <<db, job, raced>>
    BY DEF Rollback
<1>2. DbOK' /\ raced' \in BOOLEAN /\ todrop' \in [Runs -> SUBSET Names]
    BY <1>1 DEF TypeParts, DbOK
<1>3. DeltaOK'
    BY <1>1 DEF TypeParts, DeltaOK, Untouched, DefinitionsOf
<1>4. RunsOK'
    BY <1>1, RestingTyped DEF TypeParts
<1> QED
    BY <1>2, <1>3, <1>4 DEF TypeParts

-----------------------------------------------------------------------------
(* What each step does to the types.                                       *)

LEMMA RelationDefinitions ==
    ASSUME NEW n \in Names, NEW marks
    PROVE  Rel(n) \in Objects /\ DefinitionsOf(Rel(n), marks) = marks \cup Relations
<1>1. Rel(n) \in Objects /\ Rel(n)[1] = "relation"
    BY DEF Rel, Objects
<1>2. Rel(n) # Row(Meta)
    BY DEF Rel, Row
<1> QED
    BY <1>1, <1>2 DEF DefinitionsOf

LEMMA RowDefinitions ==
    ASSUME NEW n \in Names, n # Meta, NEW marks
    PROVE  Row(n) \in Objects /\ DefinitionsOf(Row(n), marks) = marks \cup Keys
BY NamesAssumption DEF Row, Objects, DefinitionsOf

LEMMA HashDefinitions ==
    ASSUME NEW marks
    PROVE  /\ Row(Meta) \in Objects
           /\ DefinitionsOf(Row(Meta), marks) = marks \cup {Minimal(c) : c \in Configs}
BY NamesAssumption DEF Row, Objects, DefinitionsOf

\* A statement that leaves raced and db alone and moves its run keeps TypeParts
\* when the new delta and todrop are well typed.
LEMMA StatementTyped ==
    ASSUME TypeParts, NEW r \in Runs, Running(r), NEW p, GoodPlace(r, p), GoTo(r, p),
           DeltaOK', todrop' \in [Runs -> SUBSET Names]
    PROVE  TypeParts'
BY GoToTyped DEF TypeParts

LEMMA UnchangedDelta == ASSUME DeltaOK, UNCHANGED delta PROVE DeltaOK'
BY DEF DeltaOK

LEMMA InitTyped == Init => TypeParts
<1> SUFFICES ASSUME Init PROVE TypeParts
    OBVIOUS
<1>1. DbOK /\ DeltaOK
    BY DEF Init, DbOK, DeltaOK, Untouched, DefinitionsOf
<1>2. RunsOK
    <2>1. at \in [Runs -> Places] /\ job \in [Runs -> {None} \cup Jobs]
        BY DEF Init, Places, Place, Stages, Resting
    <2>2. \A r \in Runs : PlaceOK(r)
        BY DEF Init, PlaceOK, Running, Place, Resting
    <2> QED
        BY <2>1, <2>2 DEF RunsOK
<1> QED
    BY <1>1, <1>2 DEF Init, TypeParts

LEMMA BeginTyped == ASSUME TypeParts, NEW r \in Runs, Begin(r) PROVE TypeParts'
<1>1. PICK config \in Configs, cleanup \in Cleanups, dry \in BOOLEAN :
          /\ job' = [job EXCEPT ![r] = [config |-> config, cleanup |-> cleanup, dry |-> dry]]
          /\ raced' = (raced \/ \E q \in Runs : /\ Running(q)
                                                /\ ~dry /\ ~job[q].dry
                                                /\ cleanup \/ job[q].cleanup)
    BY DEF Begin
<1>2. at' = [at EXCEPT ![r] = Place("meta", 0, 0)] /\ UNCHANGED <<db, delta, todrop>>
    BY DEF Begin
<1>3. DbOK' /\ DeltaOK' /\ todrop' \in [Runs -> SUBSET Names]
    BY <1>2 DEF TypeParts, DbOK, DeltaOK
<1>4. raced' \in BOOLEAN
    BY <1>1
<1>5. at' \in [Runs -> Places] /\ job' \in [Runs -> {None} \cup Jobs]
    BY <1>1, <1>2 DEF TypeParts, RunsOK, Place, Places, Stages, Jobs
<1>6. ASSUME NEW q \in Runs PROVE PlaceOK(q)'
    <2>1. CASE q = r
        <3>1. at'[q] = Place("meta", 0, 0)
            BY <1>2, <2>1 DEF TypeParts, RunsOK
        <3>2. job'[q] \in Jobs
            BY <1>1, <2>1 DEF TypeParts, RunsOK, Jobs
        <3> QED
            BY <3>1, <3>2 DEF PlaceOK, Place
    <2>2. CASE q # r
        <3>1. at'[q] = at[q] /\ job'[q] = job[q] /\ PlaceOK(q)
            BY <1>1, <1>2, <2>2 DEF TypeParts, RunsOK
        <3> QED
            BY <3>1 DEF PlaceOK, Running, Config, TableAt
    <2> QED
        BY <2>1, <2>2
<1> QED
    BY <1>3, <1>4, <1>5, <1>6 DEF TypeParts, RunsOK

LEMMA CreateMetaTableTyped == ASSUME TypeParts, NEW r \in Runs, CreateMetaTable(r) PROVE TypeParts'
<1>1. at[r].stage = "meta" /\ GoTo(r, Place("table", 1, 0)) /\ UNCHANGED todrop
    BY DEF CreateMetaTable
<1>2. Running(r) /\ RunsOK /\ DbOK /\ DeltaOK /\ todrop \in [Runs -> SUBSET Names]
    BY <1>1 DEF TypeParts, Running, Resting
<1>3. GoodPlace(r, Place("table", 1, 0))
    BY <1>2, JobTyped DEF GoodPlace, Place, Places, Stages
<1>4. DeltaOK'
    <2>1. Rel(Meta) \in Objects /\ Table(FALSE) \in DefinitionsOf(Rel(Meta), {None})
        BY RelationDefinitions, NamesAssumption DEF Relations, Table
    <2>2. Create(r, {Rel(Meta)}, Table(FALSE)) => DeltaOK'
        BY <1>2, <2>1, CreateTyped
    <2> QED
        BY <1>2, <2>2, UnchangedDelta DEF CreateMetaTable
<1> QED
    BY <1>1, <1>2, <1>3, <1>4, StatementTyped

LEMMA ReconcileTableTyped == ASSUME TypeParts, NEW r \in Runs, ReconcileTable(r) PROVE TypeParts'
<1> DEFINE t == TableAt(r)
           row == See(r, Row(t.name))
           rel == Rel(Ident[t.name])
           next == AfterIndex(r, at[r].table, 0)
           new == [o \in {Row(t.name)} \cup (IF See(r, rel) = None THEN {rel} ELSE {})
                     |-> IF o = rel THEN Table(t.rk # NoField) ELSE KeysOf(t)]
<1>1. at[r].stage = "table"
    BY DEF ReconcileTable
<1>2. Running(r) /\ RunsOK /\ DbOK /\ DeltaOK /\ todrop \in [Runs -> SUBSET Names]
    BY <1>1 DEF TypeParts, Running, Resting
<1>3. at[r].table \in DOMAIN Config(r)
    BY <1>1, <1>2 DEF RunsOK, PlaceOK
<1>4. GoodPlace(r, next)
    BY <1>2, <1>3, AfterIndexGood
<1>5. t.name # Meta /\ t.name \in Names /\ KeysOf(t) \in Keys
    BY <1>2, <1>3, TableTyped DEF TableAt
<1>6. ASSUME Change(r, new) PROVE DeltaOK'
    <2> HIDE DEF t
    <2>1. Table(t.rk # NoField) \in DefinitionsOf(rel, {None})
        <3>1. Table(t.rk # NoField) \in Relations
            BY DEF Relations, Table
        <3>2. Ident[t.name] \in Names
            BY <1>5, NamesAssumption
        <3> QED
            BY <3>1, <3>2, RelationDefinitions
    <2>2. KeysOf(t) \in DefinitionsOf(Row(t.name), {None})
        BY <1>5, RowDefinitions
    <2>3. \A o \in DOMAIN new \cap Objects : new[o] \in DefinitionsOf(o, {None})
        BY <2>1, <2>2
    <2> QED
        BY <1>2, <1>6, <2>3, ChangeTyped
<1>7. CASE /\ \/ job[r].dry /\ UNCHANGED delta
              \/ ~job[r].dry /\ Change(r, new)
           /\ GoTo(r, next)
           /\ UNCHANGED todrop
    <2>1. DeltaOK'
        BY <1>2, <1>6, <1>7, UnchangedDelta
    <2> QED
        BY <1>2, <1>4, <1>7, <2>1, StatementTyped
<1>8. CASE GoTo(r, next) /\ UNCHANGED <<delta, todrop>>
    BY <1>2, <1>4, <1>8, UnchangedDelta, StatementTyped
<1>9. CASE Rollback(r, "failed")
    BY <1>9, RollbackTyped DEF Resting
<1> QED
    BY <1>7, <1>8, <1>9 DEF ReconcileTable

LEMMA ReconcileIndexTyped == ASSUME TypeParts, NEW r \in Runs, ReconcileIndex(r) PROVE TypeParts'
<1> DEFINE t == TableAt(r)
           i == IndexAt(r)
           rel == Rel(Ident[IndexName[<<t.name, i.name>>]])
           next == AfterIndex(r, at[r].table, at[r].index)
<1>1. at[r].stage = "index"
    BY DEF ReconcileIndex
<1>2. Running(r) /\ RunsOK /\ DbOK /\ DeltaOK /\ todrop \in [Runs -> SUBSET Names]
    BY <1>1 DEF TypeParts, Running, Resting
<1>3. at[r].table \in DOMAIN Config(r) /\ at[r].index \in DOMAIN t.indexes /\ at[r].index \in Nat
    BY <1>1, <1>2 DEF RunsOK, PlaceOK, Places
<1>4. GoodPlace(r, next)
    BY <1>2, <1>3, AfterIndexGood
<1>5. t.name \in Names /\ t.indexes \in Seq(IndexConfigs)
    BY <1>2, <1>3, TableTyped DEF TableAt
<1>6. i \in IndexConfigs
    BY <1>3, <1>5 DEF IndexAt
<1>7. Index(Ident[t.name], i.pk, i.rk) \in DefinitionsOf(rel, {None}) /\ rel \in Objects
    <2>1. Ident[IndexName[<<t.name, i.name>>]] \in Names /\ Ident[t.name] \in Names
        BY <1>5, <1>6, NamesAssumption DEF IndexConfigs
    <2>2. Index(Ident[t.name], i.pk, i.rk) \in Relations
        BY <2>1, <1>6 DEF Index, Relations, IndexConfigs
    <2> QED
        BY <2>1, <2>2, RelationDefinitions
<1>8. DeltaOK' /\ GoTo(r, next) /\ UNCHANGED todrop
    <2>1. Create(r, {rel}, Index(Ident[t.name], i.pk, i.rk)) => DeltaOK'
        BY <1>2, <1>7, CreateTyped
    <2> QED
        BY <1>2, <2>1, UnchangedDelta DEF ReconcileIndex
<1> QED
    BY <1>2, <1>4, <1>8, StatementTyped

LEMMA ListStaleIndexesTyped == ASSUME TypeParts, NEW r \in Runs, ListStaleIndexes(r) PROVE TypeParts'
<1> DEFINE next == IF job[r].dry THEN AfterTable(r, at[r].table)
                   ELSE Place("dropIndexes", at[r].table, 0)
<1>1. at[r].stage = "stale" /\ GoTo(r, next) /\ UNCHANGED delta
    BY DEF ListStaleIndexes
<1>2. Running(r) /\ RunsOK /\ DbOK /\ DeltaOK /\ todrop \in [Runs -> SUBSET Names]
    BY <1>1 DEF TypeParts, Running, Resting
<1>3. at[r].table \in DOMAIN Config(r) /\ at[r].table \in Nat
    BY <1>1, <1>2 DEF RunsOK, PlaceOK, Places
<1>4. GoodPlace(r, next)
    BY <1>2, <1>3, AfterTableGood DEF GoodPlace, Place, Places, Stages
<1>5. todrop' \in [Runs -> SUBSET Names]
    BY <1>2 DEF ListStaleIndexes
<1> QED
    BY <1>1, <1>2, <1>4, <1>5, UnchangedDelta, StatementTyped

LEMMA DropStaleIndexesTyped == ASSUME TypeParts, NEW r \in Runs, DropStaleIndexes(r) PROVE TypeParts'
<1>1. /\ at[r].stage = "dropIndexes" /\ GoTo(r, AfterTable(r, at[r].table))
      /\ todrop' = [todrop EXCEPT ![r] = {}]
    BY DEF DropStaleIndexes
<1>2. Running(r) /\ RunsOK /\ DbOK /\ DeltaOK /\ todrop \in [Runs -> SUBSET Names]
    BY <1>1 DEF TypeParts, Running, Resting
<1>3. at[r].table \in Nat
    BY <1>2 DEF RunsOK, Places
<1>4. GoodPlace(r, AfterTable(r, at[r].table))
    BY <1>2, <1>3, AfterTableGood
<1>5. DeltaOK'
    BY <1>2, DropTyped DEF DropStaleIndexes
<1>6. todrop' \in [Runs -> SUBSET Names]
    BY <1>1, <1>2
<1> QED
    BY <1>1, <1>2, <1>4, <1>5, <1>6, StatementTyped

LEMMA ListTablesTyped == ASSUME TypeParts, NEW r \in Runs, ListTables(r) PROVE TypeParts'
<1> DEFINE next == Place(IF job[r].dry THEN "hash" ELSE "dropTables", 0, 0)
<1>1. at[r].stage = "list" /\ GoTo(r, next) /\ UNCHANGED delta
    BY DEF ListTables
<1>2. Running(r) /\ RunsOK /\ DbOK /\ DeltaOK /\ todrop \in [Runs -> SUBSET Names]
    BY <1>1 DEF TypeParts, Running, Resting
<1>3. GoodPlace(r, next)
    BY DEF GoodPlace, Place, Places, Stages, OnTable
<1>4. todrop' \in [Runs -> SUBSET Names]
    BY <1>2 DEF ListTables
<1> QED
    BY <1>1, <1>2, <1>3, <1>4, UnchangedDelta, StatementTyped

LEMMA DropTablesTyped == ASSUME TypeParts, NEW r \in Runs, DropTables(r) PROVE TypeParts'
<1>1. /\ at[r].stage = "dropTables" /\ GoTo(r, Place("hash", 0, 0))
      /\ todrop' = [todrop EXCEPT ![r] = {}]
    BY DEF DropTables
<1>2. Running(r) /\ RunsOK /\ DbOK /\ DeltaOK /\ todrop \in [Runs -> SUBSET Names]
    BY <1>1 DEF TypeParts, Running, Resting
<1>3. GoodPlace(r, Place("hash", 0, 0))
    BY DEF GoodPlace, Place, Places, Stages, OnTable
<1>4. DeltaOK'
    BY <1>2, DropTyped DEF DropTables
<1>5. todrop' \in [Runs -> SUBSET Names]
    BY <1>1, <1>2
<1> QED
    BY <1>1, <1>2, <1>3, <1>4, <1>5, StatementTyped

LEMMA HashTyped == ASSUME TypeParts, NEW r \in Runs, UpsertTablesConfigHash(r) PROVE TypeParts'
<1>1. at[r].stage = "hash" /\ GoTo(r, Place("end", 0, 0)) /\ UNCHANGED todrop
    BY DEF UpsertTablesConfigHash
<1>2. Running(r) /\ RunsOK /\ DbOK /\ DeltaOK /\ todrop \in [Runs -> SUBSET Names]
    BY <1>1 DEF TypeParts, Running, Resting
<1>3. GoodPlace(r, Place("end", 0, 0))
    BY DEF GoodPlace, Place, Places, Stages, OnTable
<1>4. Row(Meta) \in Objects /\ Minimal(Config(r)) \in DefinitionsOf(Row(Meta), {None})
    BY <1>2, JobTyped, HashDefinitions
<1>5. DeltaOK'
    BY <1>2, <1>4, CreateTyped, UnchangedDelta DEF UpsertTablesConfigHash
<1> QED
    BY <1>1, <1>2, <1>3, <1>5, StatementTyped

LEMMA CommitTyped == ASSUME TypeParts, NEW r \in Runs, Commit(r) PROVE TypeParts'
<1>1. PICK stage \in {"done", "failed"} : at' = [at EXCEPT ![r] = Place(stage, 0, 0)]
    BY DEF Commit
<1>2. /\ db' = [o \in Objects |-> See(r, o)] /\ delta' = [delta EXCEPT ![r] = Untouched]
      /\ UNCHANGED <<job, todrop, raced>>
    BY DEF Commit
<1>3. DbOK /\ DeltaOK /\ RunsOK
    BY DEF TypeParts
<1>4. DbOK'
    BY <1>2, <1>3, SeeTyped DEF DbOK
<1>5. DeltaOK'
    BY <1>2, <1>3 DEF DeltaOK, Untouched, DefinitionsOf
<1>6. RunsOK'
    BY <1>1, <1>2, <1>3, RestingTyped DEF Resting
<1> QED
    BY <1>2, <1>4, <1>5, <1>6 DEF TypeParts

LEMMA StepTyped == TypeParts /\ [Next]_vars => TypeParts'
<1> SUFFICES ASSUME TypeParts, [Next]_vars PROVE TypeParts'
    OBVIOUS
<1>1. CASE UNCHANGED vars
    BY <1>1 DEF vars, TypeParts, DbOK, DeltaOK, RunsOK, PlaceOK, Running, Config, TableAt
<1>2. ASSUME NEW r \in Runs, Begin(r) \/ Step(r) \/ Fail(r) PROVE TypeParts'
    <2>1. EndDryRun(r) => TypeParts'
        BY RollbackTyped DEF EndDryRun, Resting
    <2>2. Fail(r) => TypeParts'
        BY RollbackTyped DEF Fail, Resting
    <2> QED
        BY <1>2, <2>1, <2>2, BeginTyped, CreateMetaTableTyped, ReconcileTableTyped,
           ReconcileIndexTyped, ListStaleIndexesTyped, DropStaleIndexesTyped,
           ListTablesTyped, DropTablesTyped, HashTyped, CommitTyped DEF Step
<1> QED
    BY <1>1, <1>2 DEF Next

\* Whatever migrations run, fail or are killed, in any order and at the same
\* time: every relation and every row of _meta, committed or not, is one some
\* configuration asks for, and a run that is under way stands at a table and an
\* index its configuration has (the indexing of cfg.Tables and table.Indexes in
\* Migrate and reconcileTable).
THEOREM TypeCorrect == Spec => []TypeOK
<1>1. Init => TypeParts
    BY InitTyped
<1>2. TypeParts /\ [Next]_vars => TypeParts'
    BY StepTyped
<1>3. TypeParts => TypeOK
    BY PartsOfType
<1> QED
    BY <1>1, <1>2, <1>3, PTL DEF Spec

-----------------------------------------------------------------------------
(* Dry runs.                                                               *)

\* Only a commit changes what is committed, and its run alone moves.
LEMMA CommitsAlone ==
    ASSUME TypeOK, [Next]_vars, db' # db, NEW r \in Runs, at'[r] # at[r]
    PROVE  Commit(r) /\ job' = job
<1>1. at \in [Runs -> Places] /\ Next
    BY PartsOfType DEF TypeParts, RunsOK, vars
<1>2. PICK q \in Runs : Begin(q) \/ Step(q) \/ Fail(q)
    BY <1>1 DEF Next
<1>3. Commit(q)
    BY <1>2 DEF Begin, Step, Fail, Rollback, GoTo, EndDryRun, CreateMetaTable, ReconcileTable,
                ReconcileIndex, ListStaleIndexes, DropStaleIndexes, ListTables, DropTables,
                UpsertTablesConfigHash
<1>4. PICK place : at' = [at EXCEPT ![q] = place]
    BY <1>3 DEF Commit
<1>5. r = q
    BY <1>1, <1>4
<1> QED
    BY <1>3, <1>5 DEF Commit

\* A dry run leaves the database as it is, at whatever step it fails or ends
\* and whatever other migrations do meanwhile, although its transaction creates
\* _meta (the deferred Rollback and the return before Commit of Migrate).
THEOREM DryRunsKeep == Spec => DryRunKeeps
<1>1. TypeOK /\ [Next]_vars => [\A r \in Runs : at'[r] # at[r] /\ job'[r].dry => db' = db]_vars
    <2> SUFFICES ASSUME TypeOK, [Next]_vars, NEW r \in Runs, at'[r] # at[r], job'[r].dry, db' # db
                 PROVE  FALSE
        OBVIOUS
    <2>1. Commit(r) /\ job' = job
        BY CommitsAlone
    <2> QED
        BY <2>1 DEF Commit
<1> QED
    BY <1>1, TypeCorrect, PTL DEF Spec, DryRunKeeps

-----------------------------------------------------------------------------
(* _meta and the tables.                                                   *)

TableNames == {n \in Names : \E c \in Configs : \E i \in DOMAIN c : c[i].name = n}

\* Table names are not cut off, and no index has the name of a table.
NamesApart ==
    \A n \in TableNames :
        /\ Ident[n] = n
        /\ \A i \in IndexNames : Ident[IndexName[<<n, i>>]] \notin TableNames \cup {Meta}

Tables == [kind : {"table"}, hasRK : BOOLEAN]
Indexes == [kind : {"index"}, on : Names, pk : Fields, rk : Fields \cup {NoField}]
IndexesOn(t) == {d \in Indexes : d.on = t}

\* Tables have the names of tables, indexes others, and rows are for tables.
RelFits(n, d) ==
    /\ d \in Tables => n \in TableNames \cup {Meta}
    /\ d \in Indexes => n \notin TableNames \cup {Meta} /\ d.on \in TableNames
RowFits(n, d) == d \notin {None, Same} => n \in TableNames \cup {Meta}
NamesOK ==
    \A n \in Names :
        /\ RelFits(n, db[Rel(n)]) /\ RowFits(n, db[Row(n)])
        /\ \A r \in Runs : RelFits(n, delta[r][Rel(n)]) /\ RowFits(n, delta[r][Row(n)])

\* One transaction at a time has touched an object.
LocksOK ==
    \A q, r \in Runs, o \in Objects : delta[q][o] # Same /\ delta[r][o] # Same => q = r

\* A table and its row come and go together.
PairFits(row, rel) ==
    /\ row \in Keys <=> rel \in Tables
    /\ row \in Keys => rel.hasRK = (row.rk # NoField)
PairsOK ==
    \A n \in TableNames :
        /\ PairFits(db[Row(n)], db[Rel(n)])
        /\ \A r \in Runs : /\ delta[r][Row(n)] = Same <=> delta[r][Rel(n)] = Same
                           /\ PairFits(delta[r][Row(n)], delta[r][Rel(n)])

\* An index is on a table that is there, one that is not committed on a table
\* its transaction sees.
IndexesOK ==
    \A n \in Names, t \in TableNames :
        db[Rel(n)] \in IndexesOn(t) => db[Rel(t)] \in Tables
AddedOK ==
    \A r \in Runs, n \in Names, t \in TableNames :
        delta[r][Rel(n)] \in IndexesOn(t) => See(r, Rel(t)) \in Tables

\* A transaction that drops a table sees no index on it, and no other adds one.
DroppedOK ==
    \A r \in Runs, t \in TableNames : delta[r][Rel(t)] = None =>
        \A n \in Names : /\ See(r, Rel(n)) \notin IndexesOn(t)
                         /\ \A q \in Runs : delta[q][Rel(n)] \notin IndexesOn(t)

\* What the cleanup queries returned.
TodropOK ==
    \A r \in Runs :
        /\ at[r].stage = "dropIndexes" => todrop[r] \cap (TableNames \cup {Meta}) = {}
        /\ at[r].stage = "dropTables" => todrop[r] \subseteq TableNames

MetaInv ==
    /\ NamesOK /\ LocksOK /\ PairsOK
    /\ IndexesOK /\ AddedOK /\ DroppedOK /\ TodropOK

-----------------------------------------------------------------------------
(* Objects and definitions.                                                *)

LEMMA ObjectsApart ==
    /\ \A n \in Names : Rel(n) \in Objects /\ Row(n) \in Objects
    /\ \A m, n \in Names : Rel(m) # Row(n)
    /\ \A m, n \in Names : Rel(m) = Rel(n) => m = n
    /\ \A m, n \in Names : Row(m) = Row(n) => m = n
BY DEF Rel, Row, Objects

LEMMA TableNamesApart == Meta \notin TableNames /\ TableNames \subseteq Names /\ Meta \in Names
BY ConfigsAssumption, NamesAssumption DEF TableNames

LEMMA Marks ==
    /\ None # Same
    /\ None \notin Relations /\ Same \notin Relations
    /\ None \notin Tables /\ Same \notin Tables /\ None \notin Indexes /\ Same \notin Indexes
    /\ TableNames # {} => None \notin Keys /\ Same \notin Keys
<1>1. None # Same /\ \A o \in Objects : DefinitionsOf(o, {}) \cap {None, Same} = {}
    BY MarksAssumption
<1>2. DefinitionsOf(Rel(Meta), {}) = {} \cup Relations /\ Rel(Meta) \in Objects
    BY RelationDefinitions, NamesAssumption
<1>3. None \notin Relations /\ Same \notin Relations
    BY <1>1, <1>2
<1>4. Tables \subseteq Relations /\ Indexes \subseteq Relations
    BY DEF Tables, Indexes, Relations
<1>5. ASSUME NEW n \in TableNames PROVE None \notin Keys /\ Same \notin Keys
    <2>1. DefinitionsOf(Row(n), {}) = {} \cup Keys /\ Row(n) \in Objects
        BY TableNamesApart, RowDefinitions
    <2> QED
        BY <1>1, <2>1
<1> QED
    BY <1>1, <1>3, <1>4, <1>5

\* The cases of a definition.
LEMMA RelationCases ==
    ASSUME TypeOK, NEW n \in Names
    PROVE  /\ db[Rel(n)] \in {None} \cup Tables \cup Indexes
           /\ \A r \in Runs : /\ delta[r][Rel(n)] \in {None, Same} \cup Tables \cup Indexes
                              /\ See(r, Rel(n)) \in {None} \cup Tables \cup Indexes
<1>1. Relations = Tables \cup Indexes
    BY DEF Relations, Tables, Indexes
<1>2. db[Rel(n)] \in {None} \cup Relations
    BY RelationDefinitions, PartsOfType DEF TypeParts, DbOK
<1>3. \A r \in Runs : delta[r][Rel(n)] \in {None, Same} \cup Relations
    BY RelationDefinitions, PartsOfType DEF TypeParts, DeltaOK
<1> QED
    BY <1>1, <1>2, <1>3 DEF See

LEMMA RowCases ==
    ASSUME TypeOK, NEW n \in Names, n # Meta
    PROVE  /\ db[Row(n)] \in {None} \cup Keys
           /\ \A r \in Runs : /\ delta[r][Row(n)] \in {None, Same} \cup Keys
                              /\ See(r, Row(n)) \in {None} \cup Keys
<1>1. db[Row(n)] \in {None} \cup Keys
    BY RowDefinitions, PartsOfType DEF TypeParts, DbOK
<1>2. \A r \in Runs : delta[r][Row(n)] \in {None, Same} \cup Keys
    BY RowDefinitions, PartsOfType DEF TypeParts, DeltaOK
<1> QED
    BY <1>1, <1>2 DEF See

LEMMA Kinds ==
    ASSUME NEW d \in {None} \cup Tables \cup Indexes
    PROVE  /\ IsTable(d) <=> d \in Tables
           /\ \A n : IsIndexOn(d, n) <=> d \in IndexesOn(n)
<1>1. CASE d = None
    BY <1>1, Marks DEF IsTable, IsIndexOn, IndexesOn
<1>2. CASE d \in Tables
    BY <1>2, Marks DEF IsTable, IsIndexOn, IndexesOn, Tables, Indexes
<1>3. CASE d \in Indexes
    BY <1>3, Marks DEF IsTable, IsIndexOn, IndexesOn, Tables, Indexes
<1> QED
    BY <1>1, <1>2, <1>3

LEMMA KindsApart == Tables \cap Indexes = {} /\ \A t : IndexesOn(t) \subseteq Indexes
BY DEF Tables, Indexes, IndexesOn

-----------------------------------------------------------------------------
(* What a transaction sees is as coherent as what is committed.            *)

LEMMA SeeFits ==
    ASSUME TypeOK, MetaInv, NEW r \in Runs, NEW n \in Names
    PROVE  /\ RelFits(n, See(r, Rel(n))) /\ RowFits(n, See(r, Row(n)))
           /\ n \in TableNames => PairFits(See(r, Row(n)), See(r, Rel(n)))
<1>1. RelFits(n, See(r, Rel(n))) /\ RowFits(n, See(r, Row(n)))
    BY DEF MetaInv, NamesOK, See
<1>2. n \in TableNames => PairFits(See(r, Row(n)), See(r, Rel(n)))
    BY DEF MetaInv, PairsOK, See
<1> QED
    BY <1>1, <1>2

LEMMA SeeIndexes ==
    ASSUME TypeOK, MetaInv, NEW r \in Runs, NEW n \in Names, NEW t \in TableNames,
           See(r, Rel(n)) \in IndexesOn(t)
    PROVE  See(r, Rel(t)) \in Tables
<1>1. CASE delta[r][Rel(n)] # Same
    BY <1>1 DEF MetaInv, AddedOK, See
<1>2. CASE delta[r][Rel(n)] = Same
    <2>1. db[Rel(t)] \in Tables
        BY <1>2 DEF MetaInv, IndexesOK, See
    <2>2. delta[r][Rel(t)] # None
        BY DEF MetaInv, DroppedOK
    <2>3. delta[r][Rel(t)] \in {Same} \cup Tables
        <3>1. t \in Names /\ RelFits(t, delta[r][Rel(t)])
            BY TableNamesApart DEF MetaInv, NamesOK
        <3> QED
            BY <2>2, <3>1, RelationCases DEF RelFits
    <2> QED
        BY <2>1, <2>3 DEF See
<1> QED
    BY <1>1, <1>2

-----------------------------------------------------------------------------
(* What a statement changes.                                               *)

LEMMA Changes ==
    ASSUME TypeOK, LocksOK, NEW r \in Runs, NEW new, Change(r, new), UNCHANGED db
    PROVE  /\ \A q \in Runs \ {r} : delta'[q] = delta[q]
           /\ \A q \in Runs \ {r}, o \in Objects : See(q, o)' = See(q, o)
           /\ \A o \in Objects \ DOMAIN new : /\ delta'[r][o] = delta[r][o]
                                             /\ See(r, o)' = See(r, o)
           /\ \A o \in Objects \cap DOMAIN new :
                 /\ delta'[r][o] = new[o]
                 /\ new[o] # Same => See(r, o)' = new[o]
                 /\ \A q \in Runs \ {r} : delta[q][o] = Same
           /\ LocksOK'
<1>1. /\ \A o \in DOMAIN new : ~Locked(r, o)
      /\ delta' = [delta EXCEPT ![r] =
                     [o \in Objects |-> IF o \in DOMAIN new THEN new[o] ELSE @[o]]]
    BY DEF Change
<1>2. DOMAIN delta = Runs
    BY DEF TypeOK
<1>3. \A q \in Runs \ {r} : delta'[q] = delta[q]
    BY <1>1, <1>2
<1>4. \A o \in Objects : delta'[r][o] = IF o \in DOMAIN new THEN new[o] ELSE delta[r][o]
    BY <1>1, <1>2
<1>5. \A o \in Objects \cap DOMAIN new, q \in Runs \ {r} : delta[q][o] = Same
    BY <1>1 DEF Locked
<1>6. LocksOK'
    <2> SUFFICES ASSUME NEW p \in Runs, NEW q \in Runs, NEW o \in Objects,
                        delta'[p][o] # Same, delta'[q][o] # Same
                 PROVE  p = q
        BY DEF LocksOK
    <2>1. CASE o \in DOMAIN new
        BY <1>3, <1>5, <2>1
    <2>2. CASE o \notin DOMAIN new
        BY <1>3, <1>4, <2>2 DEF LocksOK
    <2> QED
        BY <2>1, <2>2
<1> QED
    BY <1>3, <1>4, <1>5, <1>6 DEF See

\* A statement that changes nothing, or only the row with the hash.
LEMMA UntouchedInv ==
    ASSUME TypeOK, MetaInv, UNCHANGED <<db, delta>>, TodropOK'
    PROVE  MetaInv'
BY DEF MetaInv, NamesOK, LocksOK, PairsOK, IndexesOK, AddedOK, DroppedOK, See

\* A statement on relations and rows that are no table's nor an index keeps
\* everything.
LEMMA AsideInv ==
    ASSUME TypeOK, TypeOK', MetaInv, TodropOK', NEW r \in Runs, NEW new, Change(r, new), UNCHANGED db,
           \A n \in TableNames : Rel(n) \notin DOMAIN new /\ Row(n) \notin DOMAIN new,
           \A n \in Names : Rel(n) \in DOMAIN new =>
               RelFits(n, new[Rel(n)]) /\ new[Rel(n)] \notin Indexes,
           \A n \in Names : Row(n) \in DOMAIN new => RowFits(n, new[Row(n)]),
           \A o \in DOMAIN new : new[o] # Same
    PROVE  MetaInv'
<1> USE ObjectsApart, TableNamesApart
<1>0. LocksOK
    BY DEF MetaInv
<1>1. /\ \A q \in Runs \ {r} : delta'[q] = delta[q]
      /\ \A q \in Runs \ {r}, o \in Objects : See(q, o)' = See(q, o)
      /\ \A o \in Objects \ DOMAIN new : delta'[r][o] = delta[r][o] /\ See(r, o)' = See(r, o)
      /\ \A o \in Objects \cap DOMAIN new : delta'[r][o] = new[o] /\ See(r, o)' = new[o]
      /\ LocksOK'
    BY <1>0, Changes
<1>2. NamesOK'
    BY <1>1 DEF MetaInv, NamesOK
<1>3. PairsOK'
    BY <1>1 DEF MetaInv, PairsOK
<1>4. IndexesOK'
    BY DEF MetaInv, IndexesOK
<1>5. AddedOK'
    <2> SUFFICES ASSUME NEW q \in Runs, NEW n \in Names, NEW t \in TableNames,
                        delta'[q][Rel(n)] \in IndexesOn(t)
                 PROVE  See(q, Rel(t))' \in Tables
        BY DEF AddedOK
    <2>1. delta'[q][Rel(n)] = delta[q][Rel(n)]
        BY <1>1, KindsApart
    <2> QED
        BY <1>1, <2>1 DEF MetaInv, AddedOK
<1>6. DroppedOK'
    <2> SUFFICES ASSUME NEW p \in Runs, NEW t \in TableNames, delta'[p][Rel(t)] = None, NEW n \in Names
                 PROVE  /\ See(p, Rel(n))' \notin IndexesOn(t)
                        /\ \A q \in Runs : delta'[q][Rel(n)] \notin IndexesOn(t)
        BY DEF DroppedOK
    <2>1. delta[p][Rel(t)] = None
        BY <1>1
    <2> QED
        BY <1>1, <2>1, KindsApart DEF MetaInv, DroppedOK
<1> QED
    BY <1>1, <1>2, <1>3, <1>4, <1>5, <1>6 DEF MetaInv

LEMMA CreateTableInv ==
    ASSUME TypeOK, TypeOK', MetaInv, TodropOK', NEW r \in Runs, NEW new, Change(r, new), UNCHANGED db,
           NEW n \in TableNames, DOMAIN new = {Row(n), Rel(n)},
           new[Row(n)] \in Keys, new[Rel(n)] \in Tables,
           new[Rel(n)].hasRK = (new[Row(n)].rk # NoField)
    PROVE  MetaInv'
<1> USE ObjectsApart, TableNamesApart, Marks
<1>0. LocksOK
    BY DEF MetaInv
<1>1. /\ \A q \in Runs \ {r} : delta'[q] = delta[q]
      /\ \A q \in Runs \ {r}, o \in Objects : See(q, o)' = See(q, o)
      /\ \A o \in Objects \ DOMAIN new : delta'[r][o] = delta[r][o] /\ See(r, o)' = See(r, o)
      /\ \A o \in Objects \cap DOMAIN new : /\ delta'[r][o] = new[o]
                                            /\ new[o] # Same => See(r, o)' = new[o]
      /\ LocksOK'
    BY <1>0, Changes
<1>2. Row(n) \in Objects /\ Rel(n) \in Objects /\ new[Row(n)] # Same /\ new[Rel(n)] # Same
    OBVIOUS
<1>3. NamesOK'
    <2> SUFFICES ASSUME NEW m \in Names
                 PROVE  /\ \A q \in Runs : /\ RelFits(m, delta'[q][Rel(m)])
                                          /\ RowFits(m, delta'[q][Row(m)])
        BY DEF MetaInv, NamesOK
    <2>1. CASE m = n
        BY <1>1, <1>2, <2>1, KindsApart DEF MetaInv, NamesOK, RelFits, RowFits
    <2>2. CASE m # n
        BY <1>1, <2>2 DEF MetaInv, NamesOK
    <2> QED
        BY <2>1, <2>2
<1>4. PairsOK'
    <2> SUFFICES ASSUME NEW m \in TableNames, NEW q \in Runs
                 PROVE  /\ delta'[q][Row(m)] = Same <=> delta'[q][Rel(m)] = Same
                        /\ PairFits(delta'[q][Row(m)], delta'[q][Rel(m)])
        BY DEF MetaInv, PairsOK
    <2>1. CASE m = n /\ q = r
        BY <1>1, <1>2, <2>1 DEF PairFits
    <2>2. CASE m # n \/ q # r
        BY <1>1, <2>2 DEF MetaInv, PairsOK
    <2> QED
        BY <2>1, <2>2
<1>5. IndexesOK'
    BY DEF MetaInv, IndexesOK
<1>6. AddedOK'
    <2> SUFFICES ASSUME NEW q \in Runs, NEW m \in Names, NEW t \in TableNames,
                        delta'[q][Rel(m)] \in IndexesOn(t)
                 PROVE  See(q, Rel(t))' \in Tables
        BY DEF AddedOK
    <2>1. ~(q = r /\ m = n)
        BY <1>1, <1>2, KindsApart
    <2>2. See(q, Rel(t)) \in Tables
        BY <1>1, <2>1 DEF MetaInv, AddedOK
    <2> QED
        BY <1>1, <1>2, <2>2
<1>7. DroppedOK'
    <2> SUFFICES ASSUME NEW p \in Runs, NEW t \in TableNames, delta'[p][Rel(t)] = None, NEW m \in Names
                 PROVE  /\ See(p, Rel(m))' \notin IndexesOn(t)
                        /\ \A q \in Runs : delta'[q][Rel(m)] \notin IndexesOn(t)
        BY DEF DroppedOK
    <2>1. delta[p][Rel(t)] = None
        BY <1>1, <1>2
    <2>2. See(p, Rel(m)) \notin IndexesOn(t) /\ \A q \in Runs : delta[q][Rel(m)] \notin IndexesOn(t)
        BY <2>1 DEF MetaInv, DroppedOK
    <2> QED
        BY <1>1, <1>2, <2>2, KindsApart
<1> QED
    BY <1>1, <1>3, <1>4, <1>5, <1>6, <1>7 DEF MetaInv

LEMMA CreateIndexInv ==
    ASSUME TypeOK, TypeOK', MetaInv, TodropOK', NEW r \in Runs, NEW new, Change(r, new), UNCHANGED db,
           NEW n \in Names \ (TableNames \cup {Meta}), NEW s \in TableNames, DOMAIN new = {Rel(n)},
           new[Rel(n)] \in IndexesOn(s), See(r, Rel(s)) \in Tables, ~Locked(r, Rel(s))
    PROVE  MetaInv'
<1> USE ObjectsApart, TableNamesApart, Marks, KindsApart
<1>0. LocksOK
    BY DEF MetaInv
<1>1. /\ \A q \in Runs \ {r} : delta'[q] = delta[q]
      /\ \A q \in Runs \ {r}, o \in Objects : See(q, o)' = See(q, o)
      /\ \A o \in Objects \ DOMAIN new : delta'[r][o] = delta[r][o] /\ See(r, o)' = See(r, o)
      /\ \A o \in Objects \cap DOMAIN new : /\ delta'[r][o] = new[o]
                                            /\ new[o] # Same => See(r, o)' = new[o]
      /\ LocksOK'
    BY <1>0, Changes
<1>2. Rel(n) \in Objects /\ new[Rel(n)] # Same /\ new[Rel(n)] \in Indexes /\ new[Rel(n)].on = s
    BY DEF IndexesOn
<1>3. NamesOK'
    <2> SUFFICES ASSUME NEW m \in Names, NEW q \in Runs
                 PROVE  RelFits(m, delta'[q][Rel(m)]) /\ RowFits(m, delta'[q][Row(m)])
        BY DEF MetaInv, NamesOK
    <2>1. CASE m = n /\ q = r
        <3>1. RelFits(m, delta'[q][Rel(m)])
            BY <1>1, <1>2, <2>1 DEF RelFits
        <3>2. RowFits(m, delta'[q][Row(m)])
            BY <1>1, <2>1 DEF MetaInv, NamesOK
        <3> QED
            BY <3>1, <3>2
    <2>2. CASE m # n \/ q # r
        BY <1>1, <2>2 DEF MetaInv, NamesOK
    <2> QED
        BY <2>1, <2>2
<1>4. PairsOK'
    BY <1>1 DEF MetaInv, PairsOK
<1>5. IndexesOK'
    BY DEF MetaInv, IndexesOK
<1>6. AddedOK'
    <2> SUFFICES ASSUME NEW q \in Runs, NEW m \in Names, NEW t \in TableNames,
                        delta'[q][Rel(m)] \in IndexesOn(t)
                 PROVE  See(q, Rel(t))' \in Tables
        BY DEF AddedOK
    <2>1. See(q, Rel(t))' = See(q, Rel(t))
        BY <1>1
    <2>2. CASE q = r /\ m = n
        <3>1. t = s
            BY <1>1, <1>2, <2>2 DEF IndexesOn
        <3> QED
            BY <2>1, <2>2, <3>1
    <2>3. CASE ~(q = r /\ m = n)
        BY <1>1, <2>1, <2>3 DEF MetaInv, AddedOK
    <2> QED
        BY <2>2, <2>3
<1>7. DroppedOK'
    <2> SUFFICES ASSUME NEW p \in Runs, NEW t \in TableNames, delta'[p][Rel(t)] = None, NEW m \in Names
                 PROVE  /\ See(p, Rel(m))' \notin IndexesOn(t)
                        /\ \A q \in Runs : delta'[q][Rel(m)] \notin IndexesOn(t)
        BY DEF DroppedOK
    <2>1. delta[p][Rel(t)] = None
        BY <1>1
    <2>2. See(p, Rel(m)) \notin IndexesOn(t) /\ \A q \in Runs : delta[q][Rel(m)] \notin IndexesOn(t)
        BY <2>1 DEF MetaInv, DroppedOK
    <2>3. t # s
        <3>1. CASE p = r
            BY <2>1, <3>1 DEF See
        <3>2. CASE p # r
            BY <2>1, <3>2 DEF Locked
        <3> QED
            BY <3>1, <3>2
    <2>4. new[Rel(n)] \notin IndexesOn(t)
        BY <1>2, <2>3 DEF IndexesOn
    <2> QED
        BY <1>1, <1>2, <2>2, <2>4
<1> QED
    BY <1>1, <1>3, <1>4, <1>5, <1>6, <1>7 DEF MetaInv

\* DROP TABLE with the table's indexes and its row.
LEMMA DropTablesInv ==
    ASSUME TypeOK, TypeOK', MetaInv, TodropOK', NEW r \in Runs, NEW new, Change(r, new), UNCHANGED db,
           NEW ns \in SUBSET TableNames, \A o \in DOMAIN new : new[o] = None,
           \A n \in Names : Row(n) \in DOMAIN new <=> n \in ns /\ See(r, Row(n)) # None,
           \A n \in Names : Rel(n) \in DOMAIN new <=>
               \/ n \in ns /\ See(r, Rel(n)) # None
               \/ \E t \in ns : See(r, Rel(n)) \in IndexesOn(t),
           \A q \in Runs \ {r}, n \in Names, t \in ns : delta[q][Rel(n)] \notin IndexesOn(t)
    PROVE  MetaInv'
<1> USE ObjectsApart, TableNamesApart, Marks, KindsApart
<1>0. LocksOK
    BY DEF MetaInv
<1>1. /\ \A q \in Runs \ {r} : delta'[q] = delta[q]
      /\ \A q \in Runs \ {r}, o \in Objects : See(q, o)' = See(q, o)
      /\ \A o \in Objects \ DOMAIN new : delta'[r][o] = delta[r][o] /\ See(r, o)' = See(r, o)
      /\ \A o \in Objects \cap DOMAIN new : delta'[r][o] = None /\ See(r, o)' = None
      /\ LocksOK'
    BY <1>0, Changes
<1>2. NamesOK'
    <2> SUFFICES ASSUME NEW m \in Names, NEW q \in Runs
                 PROVE  RelFits(m, delta'[q][Rel(m)]) /\ RowFits(m, delta'[q][Row(m)])
        BY DEF MetaInv, NamesOK
    <2>1. RelFits(m, delta'[q][Rel(m)])
        BY <1>1 DEF MetaInv, NamesOK, RelFits
    <2>2. RowFits(m, delta'[q][Row(m)])
        BY <1>1 DEF MetaInv, NamesOK, RowFits
    <2> QED
        BY <2>1, <2>2
<1>3. PairsOK'
    <2> SUFFICES ASSUME NEW m \in TableNames, NEW q \in Runs
                 PROVE  /\ delta'[q][Row(m)] = Same <=> delta'[q][Rel(m)] = Same
                        /\ PairFits(delta'[q][Row(m)], delta'[q][Rel(m)])
        BY DEF MetaInv, PairsOK
    <2>1. Row(m) \in DOMAIN new <=> Rel(m) \in DOMAIN new
        <3>1. See(r, Row(m)) \in {None} \cup Keys /\ See(r, Rel(m)) \in {None} \cup Tables \cup Indexes
            BY RowCases, RelationCases
        <3>2. RelFits(m, See(r, Rel(m))) /\ PairFits(See(r, Row(m)), See(r, Rel(m)))
            BY SeeFits
        <3>3. See(r, Rel(m)) \notin Indexes
            BY <3>2 DEF RelFits
        <3> QED
            BY <3>1, <3>2, <3>3 DEF PairFits
    <2>2. CASE q = r /\ Rel(m) \in DOMAIN new
        BY <1>1, <2>1, <2>2 DEF PairFits
    <2>3. CASE ~(q = r /\ Rel(m) \in DOMAIN new)
        BY <1>1, <2>1, <2>3 DEF MetaInv, PairsOK
    <2> QED
        BY <2>2, <2>3
<1>4. IndexesOK'
    BY DEF MetaInv, IndexesOK
<1>5. AddedOK'
    <2> SUFFICES ASSUME NEW q \in Runs, NEW m \in Names, NEW t \in TableNames,
                        delta'[q][Rel(m)] \in IndexesOn(t)
                 PROVE  See(q, Rel(t))' \in Tables
        BY DEF AddedOK
    <2>1. delta'[q][Rel(m)] = delta[q][Rel(m)]
        BY <1>1
    <2>2. See(q, Rel(t)) \in Tables
        BY <2>1 DEF MetaInv, AddedOK
    <2>3. q = r => Rel(t) \notin DOMAIN new
        <3> SUFFICES ASSUME q = r, Rel(t) \in DOMAIN new PROVE FALSE
            OBVIOUS
        <3>1. t \in ns
            BY <2>2
        <3>2. See(r, Rel(m)) = delta[r][Rel(m)]
            BY <2>1 DEF See
        <3>3. Rel(m) \in DOMAIN new
            BY <2>1, <3>1, <3>2
        <3> QED
            BY <1>1, <3>3
    <2> QED
        BY <1>1, <2>2, <2>3
<1>6. DroppedOK'
    <2> SUFFICES ASSUME NEW p \in Runs, NEW t \in TableNames, delta'[p][Rel(t)] = None, NEW m \in Names
                 PROVE  /\ See(p, Rel(m))' \notin IndexesOn(t)
                        /\ \A q \in Runs : delta'[q][Rel(m)] \notin IndexesOn(t)
        BY DEF DroppedOK
    <2>1. CASE delta[p][Rel(t)] = None
        <3>1. See(p, Rel(m)) \notin IndexesOn(t) /\ \A q \in Runs : delta[q][Rel(m)] \notin IndexesOn(t)
            BY <2>1 DEF MetaInv, DroppedOK
        <3> QED
            BY <1>1, <3>1
    <2>2. CASE delta[p][Rel(t)] # None
        <3>1. p = r /\ Rel(t) \in DOMAIN new
            BY <1>1, <2>2
        <3>2. t \in ns
            <4>1. See(r, Rel(t)) \notin Indexes
                BY SeeFits DEF RelFits
            <4> QED
                BY <3>1, <4>1
        <3>3. See(r, Rel(m))' \notin IndexesOn(t)
            BY <1>1, <3>2
        <3>4. delta'[r][Rel(m)] \notin IndexesOn(t)
            BY <1>1, <3>3 DEF See
        <3>5. \A q \in Runs \ {r} : delta'[q][Rel(m)] \notin IndexesOn(t)
            BY <1>1, <3>2
        <3> QED
            BY <3>1, <3>3, <3>4, <3>5
    <2> QED
        BY <2>1, <2>2
<1> QED
    BY <1>1, <1>2, <1>3, <1>4, <1>5, <1>6 DEF MetaInv

\* The end of a transaction without a commit.
LEMMA ForgetInv ==
    ASSUME TypeOK, MetaInv, TodropOK', NEW r \in Runs, UNCHANGED db,
           delta' = [delta EXCEPT ![r] = Untouched]
    PROVE  MetaInv'
<1> USE ObjectsApart, TableNamesApart, Marks, KindsApart
<1>1. /\ \A q \in Runs \ {r} : delta'[q] = delta[q]
      /\ \A q \in Runs \ {r}, o \in Objects : See(q, o)' = See(q, o)
      /\ \A o \in Objects : delta'[r][o] = Same
    BY DEF TypeOK, Untouched, See
<1>2. NamesOK' /\ PairsOK' /\ LocksOK' /\ IndexesOK'
    <2>1. NamesOK'
        <3> SUFFICES ASSUME NEW m \in Names, NEW q \in Runs
                     PROVE  RelFits(m, delta'[q][Rel(m)]) /\ RowFits(m, delta'[q][Row(m)])
            BY DEF MetaInv, NamesOK
        <3> QED
            BY <1>1 DEF MetaInv, NamesOK, RelFits, RowFits
    <2>2. PairsOK'
        BY <1>1 DEF MetaInv, PairsOK, PairFits
    <2>3. LocksOK'
        BY <1>1 DEF MetaInv, LocksOK
    <2>4. IndexesOK'
        BY DEF MetaInv, IndexesOK
    <2> QED
        BY <2>1, <2>2, <2>3, <2>4
<1>3. AddedOK'
    <2> SUFFICES ASSUME NEW q \in Runs, NEW m \in Names, NEW t \in TableNames,
                        delta'[q][Rel(m)] \in IndexesOn(t)
                 PROVE  See(q, Rel(t))' \in Tables
        BY DEF AddedOK
    <2>1. q # r
        BY <1>1
    <2> QED
        BY <1>1, <2>1 DEF MetaInv, AddedOK
<1>4. DroppedOK'
    <2> SUFFICES ASSUME NEW p \in Runs, NEW t \in TableNames, delta'[p][Rel(t)] = None, NEW m \in Names
                 PROVE  /\ See(p, Rel(m))' \notin IndexesOn(t)
                        /\ \A q \in Runs : delta'[q][Rel(m)] \notin IndexesOn(t)
        BY DEF DroppedOK
    <2>1. p # r
        BY <1>1
    <2> QED
        BY <1>1, <2>1 DEF MetaInv, DroppedOK
<1> QED
    BY <1>2, <1>3, <1>4 DEF MetaInv

\* What a transaction has dropped or put in place.
LEMMA TouchedTables ==
    ASSUME TypeOK, MetaInv, NEW r \in Runs, NEW t \in TableNames, db[Rel(t)] \in Tables
    PROVE  See(r, Rel(t)) \in Tables \/ delta[r][Rel(t)] = None
<1>1. t \in Names /\ RelFits(t, delta[r][Rel(t)])
    BY TableNamesApart DEF MetaInv, NamesOK
<1>2. delta[r][Rel(t)] \in {None, Same} \cup Tables
    BY <1>1, RelationCases DEF RelFits
<1> QED
    BY <1>2, Marks DEF See

LEMMA CommitInv ==
    ASSUME TypeOK, MetaInv, TodropOK', NEW r \in Runs,
           db' = [o \in Objects |-> See(r, o)], delta' = [delta EXCEPT ![r] = Untouched]
    PROVE  MetaInv'
<1> USE ObjectsApart, TableNamesApart, Marks, KindsApart
<1>1. /\ \A q \in Runs \ {r} : delta'[q] = delta[q]
      /\ \A o \in Objects : delta'[r][o] = Same /\ db'[o] = See(r, o)
    BY DEF TypeOK, Untouched
<1>2. \A q \in Runs \ {r}, o \in Objects :
          See(q, o)' = IF delta[q][o] = Same THEN See(r, o) ELSE delta[q][o]
    BY <1>1 DEF See
<1>3. NamesOK'
    <2> SUFFICES ASSUME NEW m \in Names
                 PROVE  /\ RelFits(m, db'[Rel(m)]) /\ RowFits(m, db'[Row(m)])
                        /\ \A q \in Runs : /\ RelFits(m, delta'[q][Rel(m)])
                                          /\ RowFits(m, delta'[q][Row(m)])
        BY DEF NamesOK
    <2>1. RelFits(m, db'[Rel(m)]) /\ RowFits(m, db'[Row(m)])
        BY <1>1, SeeFits
    <2>2. ASSUME NEW q \in Runs PROVE RelFits(m, delta'[q][Rel(m)]) /\ RowFits(m, delta'[q][Row(m)])
        BY <1>1 DEF MetaInv, NamesOK, RelFits, RowFits
    <2> QED
        BY <2>1, <2>2
<1>4. PairsOK'
    <2> SUFFICES ASSUME NEW m \in TableNames
                 PROVE  /\ PairFits(db'[Row(m)], db'[Rel(m)])
                        /\ \A q \in Runs : /\ delta'[q][Row(m)] = Same <=> delta'[q][Rel(m)] = Same
                                          /\ PairFits(delta'[q][Row(m)], delta'[q][Rel(m)])
        BY DEF PairsOK
    <2>1. PairFits(db'[Row(m)], db'[Rel(m)])
        BY <1>1, SeeFits
    <2>2. ASSUME NEW q \in Runs
          PROVE  /\ delta'[q][Row(m)] = Same <=> delta'[q][Rel(m)] = Same
                 /\ PairFits(delta'[q][Row(m)], delta'[q][Rel(m)])
        BY <1>1 DEF MetaInv, PairsOK, PairFits
    <2> QED
        BY <2>1, <2>2
<1>5. LocksOK'
    BY <1>1 DEF MetaInv, LocksOK
<1>6. IndexesOK'
    <2> SUFFICES ASSUME NEW m \in Names, NEW t \in TableNames, db'[Rel(m)] \in IndexesOn(t)
                 PROVE  db'[Rel(t)] \in Tables
        BY DEF IndexesOK
    <2> QED
        BY <1>1, SeeIndexes
<1>7. AddedOK'
    <2> SUFFICES ASSUME NEW q \in Runs, NEW m \in Names, NEW t \in TableNames,
                        delta'[q][Rel(m)] \in IndexesOn(t)
                 PROVE  See(q, Rel(t))' \in Tables
        BY DEF AddedOK
    <2>1. q # r /\ delta[q][Rel(m)] \in IndexesOn(t)
        BY <1>1
    <2>2. See(q, Rel(t)) \in Tables
        BY <2>1 DEF MetaInv, AddedOK
    <2>3. delta[r][Rel(t)] # None
        BY <2>1 DEF MetaInv, DroppedOK
    <2>4. CASE delta[q][Rel(t)] = Same
        <3>1. See(r, Rel(t)) \in Tables
            BY <2>2, <2>3, <2>4, TouchedTables DEF See
        <3> QED
            BY <1>2, <2>1, <2>4, <3>1
    <2>5. CASE delta[q][Rel(t)] # Same
        BY <1>2, <2>1, <2>2, <2>5 DEF See
    <2> QED
        BY <2>4, <2>5
<1>8. DroppedOK'
    <2> SUFFICES ASSUME NEW p \in Runs, NEW t \in TableNames, delta'[p][Rel(t)] = None, NEW m \in Names
                 PROVE  /\ See(p, Rel(m))' \notin IndexesOn(t)
                        /\ \A q \in Runs : delta'[q][Rel(m)] \notin IndexesOn(t)
        BY DEF DroppedOK
    <2>1. p # r /\ delta[p][Rel(t)] = None
        BY <1>1
    <2>2. See(p, Rel(m)) \notin IndexesOn(t) /\ \A q \in Runs : delta[q][Rel(m)] \notin IndexesOn(t)
        BY <2>1 DEF MetaInv, DroppedOK
    <2>3. \A q \in Runs : delta'[q][Rel(m)] \notin IndexesOn(t)
        BY <1>1, <2>2
    <2>4. See(p, Rel(m))' \notin IndexesOn(t)
        BY <1>2, <2>1, <2>2 DEF See
    <2> QED
        BY <2>3, <2>4
<1> QED
    BY <1>3, <1>4, <1>5, <1>6, <1>7, <1>8 DEF MetaInv

-----------------------------------------------------------------------------
(* The steps.                                                              *)

LEMMA TodropKept ==
    ASSUME TypeOK, TodropOK, NEW r \in Runs, NEW p, at' = [at EXCEPT ![r] = p],
           \A q \in Runs \ {r} : todrop'[q] = todrop[q],
           p.stage = "dropIndexes" => todrop'[r] \cap (TableNames \cup {Meta}) = {},
           p.stage = "dropTables" => todrop'[r] \subseteq TableNames
    PROVE  TodropOK'
<1>1. at'[r] = p /\ \A q \in Runs \ {r} : at'[q] = at[q]
    BY DEF TypeOK
<1> QED
    BY <1>1 DEF TodropOK

\* Only the cleanup queries go to the stages that drop.
LEMMA NoDropAhead ==
    ASSUME NEW r \in Runs, NEW i, NEW j
    PROVE  /\ AfterTable(r, i).stage \notin {"dropIndexes", "dropTables"}
           /\ AfterIndex(r, i, j).stage \notin {"dropIndexes", "dropTables"}
BY DEF AfterTable, AfterIndex, Place

LEMMA ConfiguredNames ==
    ASSUME TypeOK, NEW r \in Runs, Running(r), NEW i \in DOMAIN Config(r)
    PROVE  Config(r)[i].name \in TableNames
<1>1. RunsOK
    BY PartsOfType DEF TypeParts
<1> QED
    BY <1>1, JobTyped, TableTyped DEF TableNames

LEMMA StatementMeta ==
    ASSUME TypeOK, MetaInv, NEW r \in Runs, NEW p, GoTo(r, p), UNCHANGED delta, TodropOK'
    PROVE  MetaInv'
BY UntouchedInv DEF GoTo

LEMMA CreateMetaTableMeta ==
    ASSUME TypeOK, TypeOK', MetaInv, NEW r \in Runs, CreateMetaTable(r)
    PROVE  MetaInv'
<1>1. TodropOK'
    BY TodropKept DEF MetaInv, CreateMetaTable, GoTo, Place
<1>2. CASE See(r, Rel(Meta)) = None
    <2> DEFINE new == [o \in {Rel(Meta)} |-> Table(FALSE)]
    <2>1. Change(r, new) /\ UNCHANGED db
        BY <1>2 DEF CreateMetaTable, Create, GoTo
    <2>2. Table(FALSE) \in Tables
        BY DEF Table, Tables
    <2>3. \A n \in Names : Rel(n) \in DOMAIN new =>
               RelFits(n, new[Rel(n)]) /\ new[Rel(n)] \notin Indexes
        BY <2>2, ObjectsApart, TableNamesApart, KindsApart DEF RelFits
    <2> HIDE DEF new
    <2>4. /\ DOMAIN new = {Rel(Meta)}
          /\ \A o \in DOMAIN new : new[o] # Same
        BY <2>2, Marks DEF new
    <2> QED
        BY <1>1, <2>1, <2>3, <2>4, AsideInv, ObjectsApart, TableNamesApart
<1>3. CASE See(r, Rel(Meta)) # None
    BY <1>1, <1>3, StatementMeta DEF CreateMetaTable
<1> QED
    BY <1>2, <1>3

LEMMA RollbackMeta ==
    ASSUME TypeOK, MetaInv, NEW r \in Runs, NEW stage \in Resting, Rollback(r, stage)
    PROVE  MetaInv'
<1>1. \A q \in Runs \ {r} : todrop'[q] = todrop[q]
    BY DEF Rollback, TypeOK
<1>2. TodropOK'
    BY <1>1, TodropKept DEF MetaInv, Rollback, Place, Resting
<1> QED
    BY <1>2, ForgetInv DEF Rollback

LEMMA ReconcileTableMeta ==
    ASSUME NamesApart, TypeOK, TypeOK', MetaInv, NEW r \in Runs, ReconcileTable(r)
    PROVE  MetaInv'
<1> DEFINE t == TableAt(r)
           row == See(r, Row(t.name))
           rel == Rel(Ident[t.name])
           next == AfterIndex(r, at[r].table, 0)
           new == [o \in {Row(t.name)} \cup (IF See(r, rel) = None THEN {rel} ELSE {})
                     |-> IF o = rel THEN Table(t.rk # NoField) ELSE KeysOf(t)]
<1>1. at[r].stage = "table" /\ Running(r) /\ RunsOK /\ at[r].table \in DOMAIN Config(r)
    BY PartsOfType DEF ReconcileTable, Running, Resting, TypeParts, RunsOK, PlaceOK
<1>2. t.name \in TableNames /\ Ident[t.name] = t.name /\ KeysOf(t) \in Keys
    BY <1>1, ConfiguredNames, TableTyped DEF TableAt, NamesApart
<1>3. GoTo(r, next) /\ UNCHANGED todrop => TodropOK'
    <2>1. next.stage \notin {"dropIndexes", "dropTables"}
        BY NoDropAhead
    <2> QED
        BY <2>1, TodropKept DEF MetaInv, GoTo
<1>4. ASSUME row = None, Change(r, new), GoTo(r, next), UNCHANGED todrop
      PROVE  MetaInv'
    <2>1. See(r, rel) = None
        <3>1. t.name \in Names /\ rel = Rel(t.name)
            BY <1>2, TableNamesApart
        <3>2. See(r, rel) \notin Tables
            BY <1>2, <1>4, <3>1, SeeFits, Marks DEF PairFits
        <3>3. See(r, rel) \notin Indexes
            BY <1>2, <3>1, SeeFits DEF RelFits
        <3> QED
            BY <3>1, <3>2, <3>3, RelationCases
    <2>2. /\ DOMAIN new = {Row(t.name), Rel(t.name)}
          /\ new[Rel(t.name)] = Table(t.rk # NoField) /\ new[Row(t.name)] = KeysOf(t)
        BY <1>2, <2>1, ObjectsApart, TableNamesApart
    <2>3. /\ Table(t.rk # NoField) \in Tables
          /\ Table(t.rk # NoField).hasRK = (KeysOf(t).rk # NoField)
        BY DEF Table, Tables, KeysOf
    <2>4. UNCHANGED db
        BY <1>4 DEF GoTo
    <2> HIDE DEF new, next, row, rel
    <2> QED
        BY <1>2, <1>3, <1>4, <2>2, <2>3, <2>4, CreateTableInv
<1>5. ASSUME GoTo(r, next), UNCHANGED <<delta, todrop>> PROVE MetaInv'
    BY <1>3, <1>5, StatementMeta
<1>6. Rollback(r, "failed") => MetaInv'
    BY RollbackMeta DEF Resting
<1> QED
    BY <1>4, <1>5, <1>6 DEF ReconcileTable

LEMMA ReconcileIndexMeta ==
    ASSUME NamesApart, TypeOK, TypeOK', MetaInv, NEW r \in Runs, ReconcileIndex(r)
    PROVE  MetaInv'
<1> DEFINE t == TableAt(r)
           i == IndexAt(r)
           n == Ident[IndexName[<<t.name, i.name>>]]
           rel == Rel(n)
           next == AfterIndex(r, at[r].table, at[r].index)
           new == [o \in {rel} |-> Index(t.name, i.pk, i.rk)]
<1>1. /\ at[r].stage = "index" /\ Running(r) /\ RunsOK
      /\ at[r].table \in DOMAIN Config(r) /\ at[r].index \in DOMAIN t.indexes
    BY PartsOfType DEF ReconcileIndex, Running, Resting, TypeParts, RunsOK, PlaceOK
<1>2. t.name \in TableNames /\ Ident[t.name] = t.name /\ t.indexes \in Seq(IndexConfigs)
    BY <1>1, ConfiguredNames, TableTyped DEF TableAt, NamesApart
<1>3. i \in IndexConfigs
    BY <1>1, <1>2 DEF IndexAt
<1>4. n \in Names \ (TableNames \cup {Meta})
    BY <1>2, <1>3, TableNamesApart, NamesAssumption DEF NamesApart, IndexConfigs
<1>5. GoTo(r, next) /\ UNCHANGED todrop
    BY DEF ReconcileIndex
<1>6. TodropOK'
    <2>1. next.stage \notin {"dropIndexes", "dropTables"}
        BY NoDropAhead
    <2> QED
        BY <1>5, <2>1, TodropKept DEF MetaInv, GoTo
<1>7. ASSUME Change(r, new), ~Locked(r, Rel(t.name)), IsTable(See(r, Rel(t.name)))
      PROVE  MetaInv'
    <2>1. See(r, Rel(t.name)) \in Tables
        BY <1>2, <1>7, TableNamesApart, RelationCases, Kinds
    <2>2. Index(t.name, i.pk, i.rk) \in IndexesOn(t.name)
        BY <1>2, <1>3, TableNamesApart DEF Index, IndexesOn, Indexes, IndexConfigs
    <2>3. UNCHANGED db
        BY <1>5 DEF GoTo
    <2>4. DOMAIN new = {Rel(n)} /\ new[Rel(n)] \in IndexesOn(t.name)
        BY <2>2
    <2> HIDE DEF new, n, next
    <2> QED
        BY <1>2, <1>4, <1>6, <1>7, <2>1, <2>3, <2>4, CreateIndexInv
<1>8. UNCHANGED delta => MetaInv'
    BY <1>5, <1>6, StatementMeta
<1>9. UNCHANGED delta \/ (Change(r, new) /\ ~Locked(r, Rel(t.name)) /\ IsTable(See(r, Rel(t.name))))
    BY <1>2 DEF ReconcileIndex, Create
<1> QED
    BY <1>7, <1>8, <1>9

LEMMA ListStaleIndexesMeta ==
    ASSUME TypeOK, MetaInv, NEW r \in Runs, ListStaleIndexes(r)
    PROVE  MetaInv'
<1> DEFINE t == TableAt(r)
           S == {n \in Names : IsIndexOn(See(r, Rel(n)), Ident[t.name]) /\ n \notin Desired(t)}
           next == IF job[r].dry THEN AfterTable(r, at[r].table)
                   ELSE Place("dropIndexes", at[r].table, 0)
<1>1. GoTo(r, next) /\ UNCHANGED delta /\ todrop' = [todrop EXCEPT ![r] = S]
    BY DEF ListStaleIndexes
<1>2. S \cap (TableNames \cup {Meta}) = {}
    <2> SUFFICES ASSUME NEW n \in S PROVE n \notin TableNames \cup {Meta}
        OBVIOUS
    <2>1. See(r, Rel(n)) \in Indexes
        BY RelationCases, Kinds, KindsApart
    <2> QED
        BY <2>1, SeeFits DEF RelFits
<1>3. todrop'[r] = S /\ \A q \in Runs \ {r} : todrop'[q] = todrop[q]
    BY <1>1 DEF TypeOK
<1>4. next.stage # "dropTables"
    BY NoDropAhead DEF Place
<1>5. TodropOK'
    <2> HIDE DEF S, next
    <2> QED
        BY <1>1, <1>2, <1>3, <1>4, TodropKept DEF MetaInv, GoTo
<1> QED
    BY <1>1, <1>5, StatementMeta

LEMMA DropStaleIndexesMeta ==
    ASSUME TypeOK, TypeOK', MetaInv, NEW r \in Runs, DropStaleIndexes(r)
    PROVE  MetaInv'
<1> DEFINE os == {Rel(n) : n \in {m \in todrop[r] : See(r, Rel(m)) # None}}
           new == [o \in os |-> None]
<1>1. /\ at[r].stage = "dropIndexes" /\ Change(r, new) /\ UNCHANGED db
      /\ at' = [at EXCEPT ![r] = AfterTable(r, at[r].table)]
      /\ \A q \in Runs \ {r} : todrop'[q] = todrop[q]
    BY DEF DropStaleIndexes, Drop, GoTo, TypeOK
<1>2. TodropOK'
    BY <1>1, NoDropAhead, TodropKept DEF MetaInv
<1>3. todrop[r] \subseteq Names /\ todrop[r] \cap (TableNames \cup {Meta}) = {}
    BY <1>1 DEF TypeOK, MetaInv, TodropOK
<1>4. \A n \in TableNames : Rel(n) \notin DOMAIN new /\ Row(n) \notin DOMAIN new
    BY <1>3, ObjectsApart, TableNamesApart
<1>5. \A n \in Names : Row(n) \notin DOMAIN new
    BY <1>3, ObjectsApart
<1>6. \A o \in DOMAIN new : new[o] = None
    OBVIOUS
<1>7. \A n \in Names : Rel(n) \in DOMAIN new =>
          RelFits(n, new[Rel(n)]) /\ new[Rel(n)] \notin Indexes
    BY <1>6, Marks DEF RelFits
<1> HIDE DEF new
<1> QED
    BY <1>1, <1>2, <1>4, <1>5, <1>6, <1>7, Marks, AsideInv

LEMMA ListTablesMeta ==
    ASSUME TypeOK, MetaInv, NEW r \in Runs, ListTables(r)
    PROVE  MetaInv'
<1> DEFINE S == {n \in Names : /\ See(r, Row(n)) # None
                               /\ n # Meta
                               /\ n \notin Configured(r)}
           next == Place(IF job[r].dry THEN "hash" ELSE "dropTables", 0, 0)
<1>1. GoTo(r, next) /\ UNCHANGED delta /\ todrop' = [todrop EXCEPT ![r] = S]
    BY DEF ListTables
<1>2. S \subseteq TableNames
    <2> SUFFICES ASSUME NEW n \in S PROVE n \in TableNames
        OBVIOUS
    <2>1. See(r, Row(n)) \in Keys /\ n # Meta
        BY RowCases
    <2>2. See(r, Row(n)) # Same
        <3>1. DefinitionsOf(Row(n), {}) = {} \cup Keys /\ Row(n) \in Objects
            BY <2>1, RowDefinitions
        <3> QED
            BY <2>1, <3>1, MarksAssumption
    <2> QED
        BY <2>1, <2>2, SeeFits DEF RowFits
<1>3. todrop'[r] = S /\ \A q \in Runs \ {r} : todrop'[q] = todrop[q]
    BY <1>1 DEF TypeOK
<1>4. next.stage # "dropIndexes"
    BY DEF Place
<1>5. TodropOK'
    <2> HIDE DEF S, next
    <2> QED
        BY <1>1, <1>2, <1>3, <1>4, TodropKept DEF MetaInv, GoTo
<1> QED
    BY <1>1, <1>5, StatementMeta

LEMMA DropTablesMeta ==
    ASSUME NamesApart, TypeOK, TypeOK', MetaInv, NEW r \in Runs, DropTables(r)
    PROVE  MetaInv'
<1> DEFINE ns == todrop[r]
           tables == {Ident[n] : n \in todrop[r]}
           indexes == {n \in Names : \E t \in tables : IsIndexOn(See(r, Rel(n)), t)}
           present == {n \in tables : See(r, Rel(n)) # None}
           os == {Rel(n) : n \in present \cup indexes} \cup
                 {Row(n) : n \in {m \in todrop[r] : See(r, Row(m)) # None}}
           new == [o \in os |-> None]
<1>1. /\ at[r].stage = "dropTables" /\ Change(r, new) /\ UNCHANGED db
      /\ at' = [at EXCEPT ![r] = Place("hash", 0, 0)]
      /\ \A q \in Runs \ {r} : todrop'[q] = todrop[q]
    BY DEF DropTables, Drop, GoTo, TypeOK
<1>2. TodropOK'
    BY <1>1, TodropKept DEF MetaInv, Place
<1>3. ns \in SUBSET TableNames
    BY <1>1 DEF MetaInv, TodropOK
<1>4. tables = ns
    BY <1>3 DEF NamesApart
<1>5. \A n \in Names : (\E t \in tables : IsIndexOn(See(r, Rel(n)), t)) <=>
                        \E t \in ns : See(r, Rel(n)) \in IndexesOn(t)
    BY <1>4, RelationCases, Kinds
<1>6. \A n \in Names : Row(n) \in DOMAIN new <=> n \in ns /\ See(r, Row(n)) # None
    BY <1>3, <1>4, ObjectsApart, TableNamesApart
<1>7. \A n \in Names : Rel(n) \in DOMAIN new <=> n \in present \cup indexes
    BY <1>3, <1>4, ObjectsApart, TableNamesApart
<1>8. \A n \in Names : Rel(n) \in DOMAIN new <=>
               \/ n \in ns /\ See(r, Rel(n)) # None
               \/ \E t \in ns : See(r, Rel(n)) \in IndexesOn(t)
    BY <1>4, <1>5, <1>7
<1>9. \A q \in Runs \ {r}, n \in Names, t \in ns : delta[q][Rel(n)] \notin IndexesOn(t)
    <2> SUFFICES ASSUME NEW q \in Runs \ {r}, NEW n \in Names, NEW t \in ns,
                        delta[q][Rel(n)] \in IndexesOn(t)
                 PROVE  FALSE
        OBVIOUS
    <2>1. delta[q][Rel(n)] \in Indexes /\ delta[q][Rel(n)] # Same
        BY KindsApart, Marks
    <2>2. IsIndexOn(delta[q][Rel(n)], t)
        BY <2>1, Kinds
    <2> QED
        BY <1>4, <2>1, <2>2 DEF DropTables
<1>10. \A o \in DOMAIN new : new[o] = None
    OBVIOUS
<1> HIDE DEF new, ns
<1> QED
    BY <1>1, <1>2, <1>3, <1>6, <1>8, <1>9, <1>10, DropTablesInv

LEMMA HashMeta ==
    ASSUME TypeOK, TypeOK', MetaInv, NEW r \in Runs, UpsertTablesConfigHash(r)
    PROVE  MetaInv'
<1> DEFINE new == [o \in {Row(Meta)} |-> Minimal(Config(r))]
<1>1. at[r].stage = "hash" /\ GoTo(r, Place("end", 0, 0)) /\ UNCHANGED todrop
    BY DEF UpsertTablesConfigHash
<1>2. TodropOK'
    BY <1>1, TodropKept DEF MetaInv, GoTo, Place
<1>3. ASSUME Change(r, new) PROVE MetaInv'
    <2>1. RunsOK /\ Running(r)
        BY <1>1, PartsOfType DEF TypeParts, Running, Resting
    <2>2. Minimal(Config(r)) # Same
        <3>1. Minimal(Config(r)) \in DefinitionsOf(Row(Meta), {}) /\ Row(Meta) \in Objects
            BY <2>1, JobTyped, HashDefinitions
        <3> QED
            BY <3>1, MarksAssumption
    <2>3. DOMAIN new = {Row(Meta)} /\ \A o \in DOMAIN new : new[o] # Same
        BY <2>2
    <2>4. \A n \in Names : Row(n) \in DOMAIN new => RowFits(n, new[Row(n)])
        BY <2>3, ObjectsApart, TableNamesApart DEF RowFits
    <2>5. UNCHANGED db
        BY <1>1 DEF GoTo
    <2> HIDE DEF new
    <2> QED
        BY <1>2, <1>3, <2>3, <2>4, <2>5, AsideInv, ObjectsApart, TableNamesApart
<1>4. UNCHANGED delta => MetaInv'
    BY <1>1, <1>2, StatementMeta
<1> QED
    BY <1>3, <1>4 DEF UpsertTablesConfigHash, Create

LEMMA CommitMeta ==
    ASSUME TypeOK, MetaInv, NEW r \in Runs, Commit(r)
    PROVE  MetaInv'
<1>1. PICK stage \in {"done", "failed"} : at' = [at EXCEPT ![r] = Place(stage, 0, 0)]
    BY DEF Commit
<1>2. TodropOK'
    BY <1>1, TodropKept DEF MetaInv, Commit, Place
<1> QED
    BY <1>2, CommitInv DEF Commit

LEMMA BeginMeta ==
    ASSUME TypeOK, MetaInv, NEW r \in Runs, Begin(r)
    PROVE  MetaInv'
<1>1. TodropOK'
    BY TodropKept DEF MetaInv, Begin, Place
<1> QED
    BY <1>1, UntouchedInv DEF Begin

LEMMA InitMeta == Init => MetaInv
<1> SUFFICES ASSUME Init PROVE MetaInv
    OBVIOUS
<1>1. /\ \A o \in Objects : db[o] = None
      /\ \A r \in Runs, o \in Objects : delta[r][o] = Same
    BY DEF Init, Untouched
<1>2. /\ \A n \in Names : db[Rel(n)] = None /\ db[Row(n)] = None
      /\ \A r \in Runs, n \in Names : delta[r][Rel(n)] = Same /\ delta[r][Row(n)] = Same
    BY <1>1, ObjectsApart
<1>3. NamesOK
    BY <1>2, Marks DEF NamesOK, RelFits, RowFits
<1>4. LocksOK
    BY <1>1 DEF LocksOK
<1>5. PairsOK
    BY <1>2, Marks, TableNamesApart DEF PairsOK, PairFits
<1>6. IndexesOK /\ AddedOK
    BY <1>2, Marks, KindsApart DEF IndexesOK, AddedOK
<1>7. DroppedOK
    BY <1>2, Marks, TableNamesApart DEF DroppedOK
<1>8. TodropOK
    BY DEF Init, TodropOK, Place
<1> QED
    BY <1>3, <1>4, <1>5, <1>6, <1>7, <1>8 DEF MetaInv

LEMMA StepMeta == NamesApart /\ TypeOK /\ TypeOK' /\ MetaInv /\ [Next]_vars => MetaInv'
<1> SUFFICES ASSUME NamesApart, TypeOK, TypeOK', MetaInv, [Next]_vars PROVE MetaInv'
    OBVIOUS
<1>1. CASE UNCHANGED vars
    BY <1>1, UntouchedInv DEF vars, MetaInv, TodropOK
<1>2. ASSUME NEW r \in Runs, Begin(r) \/ Step(r) \/ Fail(r) PROVE MetaInv'
    <2>1. EndDryRun(r) => MetaInv'
        BY RollbackMeta DEF EndDryRun, Resting
    <2>2. Fail(r) => MetaInv'
        BY RollbackMeta DEF Fail, Resting
    <2> QED
        BY <1>2, <2>1, <2>2, BeginMeta, CreateMetaTableMeta, ReconcileTableMeta,
           ReconcileIndexMeta, ListStaleIndexesMeta, DropStaleIndexesMeta,
           ListTablesMeta, DropTablesMeta, HashMeta, CommitMeta DEF Step
<1> QED
    BY <1>1, <1>2 DEF Next

LEMMA MetaInvTells == TypeOK /\ MetaInv => MetaTellsTables
<1> SUFFICES ASSUME TypeOK, MetaInv, NEW n \in Names \ {Meta}
             PROVE  /\ db[Row(n)] # None <=> IsTable(db[Rel(n)])
                    /\ db[Row(n)] # None => db[Rel(n)].hasRK = (db[Row(n)].rk # NoField)
                    /\ db[Rel(n)] # None /\ db[Rel(n)].kind = "index" => IsTable(db[Rel(db[Rel(n)].on)])
    BY DEF MetaTellsTables
<1>1. /\ db[Row(n)] \in {None} \cup Keys /\ db[Rel(n)] \in {None} \cup Tables \cup Indexes
      /\ RelFits(n, db[Rel(n)]) /\ RowFits(n, db[Row(n)])
    BY RowCases, RelationCases DEF MetaInv, NamesOK
<1>2. IsTable(db[Rel(n)]) <=> db[Rel(n)] \in Tables
    BY <1>1, Kinds
<1>3. db[Row(n)] # None => n \in TableNames
    <2>1. DefinitionsOf(Row(n), {}) = {} \cup Keys /\ Row(n) \in Objects
        BY RowDefinitions
    <2> QED
        BY <1>1, <2>1, MarksAssumption DEF RowFits
<1>4. n \in TableNames => PairFits(db[Row(n)], db[Rel(n)])
    BY DEF MetaInv, PairsOK
<1>5. /\ db[Row(n)] # None <=> IsTable(db[Rel(n)])
      /\ db[Row(n)] # None => db[Rel(n)].hasRK = (db[Row(n)].rk # NoField)
    BY <1>1, <1>2, <1>3, <1>4, Marks DEF PairFits, RelFits
<1>6. ASSUME db[Rel(n)] # None, db[Rel(n)].kind = "index" PROVE IsTable(db[Rel(db[Rel(n)].on)])
    <2>1. db[Rel(n)] \in Indexes
        BY <1>1, <1>6 DEF Tables
    <2> DEFINE t == db[Rel(n)].on
    <2>2. t \in TableNames /\ db[Rel(n)] \in IndexesOn(t)
        BY <1>1, <2>1 DEF RelFits, IndexesOn
    <2>3. db[Rel(t)] \in Tables
        BY <2>2 DEF MetaInv, IndexesOK
    <2> QED
        BY <2>3, Kinds
<1> QED
    BY <1>5, <1>6

\* The inductive invariant, for any number of overlapping runs: it speaks of what
\* each transaction has made and sees as well as of what is committed.
THEOREM MetaInvariance == NamesApart => (Spec => []MetaInv)
<1> SUFFICES ASSUME NamesApart PROVE Spec => []MetaInv
    OBVIOUS
<1>1. Init => MetaInv
    BY InitMeta
<1>2. TypeOK /\ TypeOK' /\ MetaInv /\ [Next]_vars => MetaInv'
    BY StepMeta
<1> QED
    BY <1>1, <1>2, TypeCorrect, PTL DEF Spec

\* Whatever migrations begin, overlap, fail, are killed or commit, _meta has a row
\* for each table and for nothing else, with its key layout, and no index is left
\* without its table (reconcileTable, reconcileIndexes and cleanupTables under
\* PostgreSQL's locks), when names are not cut off and do not coincide.
THEOREM MetaTells == NamesApart => (Spec => []MetaTellsTables)
<1> SUFFICES ASSUME NamesApart PROVE Spec => []MetaTellsTables
    OBVIOUS
<1>1. TypeOK /\ MetaInv => MetaTellsTables
    BY MetaInvTells
<1> QED
    BY <1>1, TypeCorrect, MetaInvariance, PTL
=============================================================================
