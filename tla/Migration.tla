----------------------------- MODULE Migration -----------------------------
(***************************************************************************)
(* The migrate command and the startup check of the api command            *)
(* (internal/database/migrate.go, internal/database/config_hash.go).       *)
(*                                                                         *)
(* A migration is one transaction at READ COMMITTED: a statement sees what *)
(* is committed when it starts and what its own transaction has done, and  *)
(* waits for another transaction that has touched what it writes.  Any     *)
(* statement may fail, and the command may be killed at any point; then    *)
(* the transaction is rolled back.                                         *)
(***************************************************************************)
EXTENDS Integers, Sequences, FiniteSets

CONSTANTS
    Runs,        \* runs of the migrate command, numbered in the order they begin,
                 \* which bounds a behaviour
    AtOnce,      \* how many of them may be under way at a time
    Configs,     \* configurations, each accepted by config.Validate
    Cleanups,    \* values of the -cleanup flag
    Names,       \* names of tables and other relations
    IndexNames,  \* names of indexes, as the configuration has them
    Fields,      \* names of key fields
    NoField,     \* no range key
    Meta,        \* the name of the _meta table, and of its row with the hash
    IndexName,   \* idx_<table>_<index>, for a table and an index name
    Ident,       \* the name PostgreSQL keeps for one: its first 63 bytes
    None,        \* no such row or relation
    Same         \* not touched by a transaction

Keys == [pk : Fields, rk : Fields \cup {NoField}]
IndexConfigs == [name : IndexNames, pk : Fields, rk : Fields \cup {NoField}]
TableConfigs == [name : Names, pk : Fields, rk : Fields \cup {NoField},
                 indexes : Seq(IndexConfigs)]

ASSUME RunsAssumption == Runs \subseteq Nat /\ AtOnce \in Nat /\ Cleanups \subseteq BOOLEAN
ASSUME ConfigsAssumption ==
    /\ Configs \subseteq Seq(TableConfigs)
    /\ \A c \in Configs :
        /\ c # <<>>
        /\ \A i, j \in DOMAIN c : c[i].name = c[j].name => i = j
        /\ \A i \in DOMAIN c :
            /\ c[i].name # Meta
            /\ \A j, k \in DOMAIN c[i].indexes :
                  c[i].indexes[j].name = c[i].indexes[k].name => j = k
ASSUME NamesAssumption ==
    /\ Meta \in Names
    /\ NoField \notin Fields
    /\ IndexName \in [Names \X IndexNames -> Names]
    /\ Ident \in [Names -> Names]

VARIABLES
    db,        \* what is committed: object -> its definition, or None
    delta,     \* run -> object -> what its transaction made of it, or Same
    at,        \* run -> where it stands
    job,       \* run -> its configuration and flags
    todrop,    \* run -> the names its last cleanup query returned
    raced      \* history: a migration with -cleanup ran at the same time as another

vars == <<db, delta, at, job, todrop, raced>>

\* Relations share one name space; _meta has a row per table, and one of its
\* own name.
Rel(n) == <<"relation", n>>
Row(n) == <<"row", n>>
Objects == {"relation", "row"} \X Names

\* Mutant: the index has its columns swapped.
SwappedIndex(on, pk, rk) == [kind |-> "index", on |-> on, pk |-> rk, rk |-> pk]

Table(hasRK) == [kind |-> "table", hasRK |-> hasRK]
Index(on, pk, rk) == [kind |-> "index", on |-> on, pk |-> pk, rk |-> rk]

KeysOf(t) == [pk |-> t.pk, rk |-> t.rk]

\* The minimal structure, which the stored hash stands for: the order of
\* tables and indexes does not matter.
Minimal(config) ==
    {[name |-> config[i].name, keys |-> KeysOf(config[i]),
      indexes |-> {config[i].indexes[j] : j \in DOMAIN config[i].indexes}]
        : i \in DOMAIN config}

Relations == [kind : {"table"}, hasRK : BOOLEAN]
             \cup [kind : {"index"}, on : Names, pk : Fields, rk : Fields \cup {NoField}]

\* What can be the definition of an object, with the marks that stand for none.
DefinitionsOf(o, marks) ==
    marks \cup (CASE o[1] = "relation" -> Relations
                  [] o = Row(Meta)     -> {Minimal(c) : c \in Configs}
                  [] OTHER             -> Keys)

ASSUME MarksAssumption ==
    None # Same /\ \A o \in Objects : DefinitionsOf(o, {}) \cap {None, Same} = {}

Untouched == [o \in Objects |-> Same]
Place(stage, table, index) == [stage |-> stage, table |-> table, index |-> index]
Resting == {"idle", "done", "failed"}
Running(r) == at[r].stage \notin Resting

Init ==
    /\ db = [o \in Objects |-> None]
    /\ delta = [r \in Runs |-> Untouched]
    /\ at = [r \in Runs |-> Place("idle", 0, 0)]
    /\ job = [r \in Runs |-> None]
    /\ todrop = [r \in Runs |-> {}]
    /\ raced = FALSE

-----------------------------------------------------------------------------
(* Transactions.                                                           *)

See(r, o) == IF delta[r][o] = Same THEN db[o] ELSE delta[r][o]
Locked(r, o) == \E q \in Runs \ {r} : delta[q][o] # Same

IsTable(d) == d # None /\ d.kind = "table"
IsIndexOn(d, n) == d # None /\ d.kind = "index" /\ d.on = n

\* A statement gives the objects in its domain new definitions, once no other
\* transaction has touched them.
Change(r, new) ==
    /\ \A o \in DOMAIN new : ~Locked(r, o)
    /\ delta' = [delta EXCEPT ![r] =
                    [o \in Objects |-> IF o \in DOMAIN new THEN new[o] ELSE @[o]]]

\* Mutant: the row of a dropped table stays in _meta.
DropRelations(r, os) == Change(r, [o \in {x \in os : x[1] = "relation"} |-> None])

Create(r, os, d) == Change(r, [o \in os |-> d])
Drop(r, os) == Change(r, [o \in os |-> None])

\* The transaction is gone, and with it all it did.
Rollback(r, stage) ==
    /\ delta' = [delta EXCEPT ![r] = Untouched]
    /\ todrop' = [todrop EXCEPT ![r] = {}]
    /\ at' = [at EXCEPT ![r] = Place(stage, 0, 0)]
    /\ UNCHANGED <<db, job, raced>>

GoTo(r, place) == at' = [at EXCEPT ![r] = place] /\ UNCHANGED <<db, job, raced>>

-----------------------------------------------------------------------------
(* The order of the steps.                                                 *)

Config(r) == job[r].config
TableAt(r) == Config(r)[at[r].table]
IndexAt(r) == TableAt(r).indexes[at[r].index]

\* Mutant: tables are cleaned up without the flag.
ListsAlways(r, i) ==
    IF i < Len(Config(r)) THEN Place("table", i + 1, 0) ELSE Place("list", 0, 0)

AfterTable(r, i) ==
    IF i < Len(Config(r)) THEN Place("table", i + 1, 0)
    ELSE Place(IF job[r].cleanup THEN "list" ELSE "hash", 0, 0)

\* Mutant: a table without indexes in the configuration is not cleaned up.
AfterIndexIfAny(r, i, j) ==
    IF j < Len(Config(r)[i].indexes) THEN Place("index", i, j + 1)
    ELSE IF job[r].cleanup /\ j > 0 THEN Place("stale", i, 0)
    ELSE AfterTable(r, i)

AfterIndex(r, i, j) ==
    IF j < Len(Config(r)[i].indexes) THEN Place("index", i, j + 1)
    ELSE IF job[r].cleanup THEN Place("stale", i, 0)
    ELSE AfterTable(r, i)

-----------------------------------------------------------------------------
(* The steps of Migrate.                                                   *)

Begin(r) ==
    /\ at[r].stage = "idle"
    /\ \A q \in Runs : q < r => at[q].stage # "idle"
    /\ Cardinality({q \in Runs : Running(q)}) < AtOnce
    /\ \E config \in Configs, cleanup \in Cleanups, dry \in BOOLEAN :
        /\ job' = [job EXCEPT ![r] = [config |-> config, cleanup |-> cleanup, dry |-> dry]]
        /\ raced' = (raced \/ \E q \in Runs : /\ Running(q)
                                              /\ ~dry /\ ~job[q].dry
                                              /\ cleanup \/ job[q].cleanup)
    /\ at' = [at EXCEPT ![r] = Place("meta", 0, 0)]
    /\ UNCHANGED <<db, delta, todrop>>

\* This statement runs in a dry run too.
CreateMetaTable(r) ==
    /\ at[r].stage = "meta"
    /\ IF See(r, Rel(Meta)) = None THEN Create(r, {Rel(Meta)}, Table(FALSE))
                                   ELSE UNCHANGED delta
    /\ GoTo(r, Place("table", 1, 0))
    /\ UNCHANGED todrop

\* Mutant: the range key is not compared.
SamePrimaryKey(row, t) == row.pk = t.pk
\* The key fields are those the table was created with.
SameKeys(row, t) == row = KeysOf(t)

\* reconcileTable up to the indexes; both CREATE and INSERT, since what another
\* transaction does between them makes the INSERT fail or changes nothing.
ReconcileTable(r) ==
    /\ at[r].stage = "table"
    /\ LET t == TableAt(r)
           row == See(r, Row(t.name))
           rel == Rel(Ident[t.name])
           next == AfterIndex(r, at[r].table, 0)
       IN  \/ /\ row = None
              /\ \/ job[r].dry /\ UNCHANGED delta
                 \/ /\ ~job[r].dry
                    /\ Change(r, [o \in {Row(t.name)} \cup
                                         (IF See(r, rel) = None THEN {rel} ELSE {})
                                   |-> IF o = rel THEN Table(t.rk # NoField) ELSE KeysOf(t)])
              /\ GoTo(r, next)
              /\ UNCHANGED todrop
           \/ /\ row # None
              /\ SameKeys(row, t)
              /\ GoTo(r, next)
              /\ UNCHANGED <<delta, todrop>>
           \/ /\ row # None
              /\ ~SameKeys(row, t)
              /\ Rollback(r, "failed")

\* The check and CREATE INDEX IF NOT EXISTS, which skips when a relation of
\* that name exists, whatever it is.  Without its table the statement can only
\* fail.
ReconcileIndex(r) ==
    /\ at[r].stage = "index"
    /\ LET t == TableAt(r)
           i == IndexAt(r)
           rel == Rel(Ident[IndexName[<<t.name, i.name>>]])
           exists == IsIndexOn(See(r, rel), Ident[t.name])
           table == Rel(Ident[t.name])
           next == AfterIndex(r, at[r].table, at[r].index)
       IN  \/ /\ exists \/ job[r].dry
              /\ GoTo(r, next)
              /\ UNCHANGED <<delta, todrop>>
           \/ /\ ~exists /\ ~job[r].dry
              /\ ~Locked(r, table)
              /\ IsTable(See(r, table))
              /\ IF See(r, rel) = None
                 THEN Create(r, {rel}, Index(Ident[t.name], i.pk, i.rk))
                 ELSE UNCHANGED delta
              /\ GoTo(r, next)
              /\ UNCHANGED todrop

Desired(t) == {IndexName[<<t.name, t.indexes[j].name>>] : j \in DOMAIN t.indexes}

\* The query for indexes to clean up.
ListStaleIndexes(r) ==
    /\ at[r].stage = "stale"
    /\ LET t == TableAt(r) IN
       todrop' = [todrop EXCEPT ![r] =
                    {n \in Names : /\ IsIndexOn(See(r, Rel(n)), Ident[t.name])
                                   /\ n \notin Desired(t)}]
    /\ GoTo(r, IF job[r].dry THEN AfterTable(r, at[r].table)
               ELSE Place("dropIndexes", at[r].table, 0))
    /\ UNCHANGED delta

DropStaleIndexes(r) ==
    /\ at[r].stage = "dropIndexes"
    /\ Drop(r, {Rel(n) : n \in {m \in todrop[r] : See(r, Rel(m)) # None}})
    /\ todrop' = [todrop EXCEPT ![r] = {}]
    /\ GoTo(r, AfterTable(r, at[r].table))

Configured(r) == {Config(r)[i].name : i \in DOMAIN Config(r)}

\* The query of cleanupTables; the row with the hash is passed over.
ListTables(r) ==
    /\ at[r].stage = "list"
    /\ todrop' = [todrop EXCEPT ![r] =
                    {n \in Names : /\ See(r, Row(n)) # None
                                   /\ n # Meta
                                   /\ n \notin Configured(r)}]
    /\ GoTo(r, Place(IF job[r].dry THEN "hash" ELSE "dropTables", 0, 0))
    /\ UNCHANGED delta

\* DROP TABLE takes the table's indexes with it and waits for another
\* transaction that has created one on it; it can only fail when the name is
\* an index's.
DropTables(r) ==
    /\ at[r].stage = "dropTables"
    /\ LET tables == {Ident[n] : n \in todrop[r]}
           indexes == {n \in Names : \E t \in tables : IsIndexOn(See(r, Rel(n)), t)}
           present == {n \in tables : See(r, Rel(n)) # None}
       IN  /\ \A n \in present : IsTable(See(r, Rel(n)))
           /\ \A q \in Runs \ {r}, n \in Names, t \in tables :
                 delta[q][Rel(n)] # Same => ~IsIndexOn(delta[q][Rel(n)], t)
           /\ Drop(r, {Rel(n) : n \in present \cup indexes} \cup
                      {Row(n) : n \in {m \in todrop[r] : See(r, Row(m)) # None}})
    /\ todrop' = [todrop EXCEPT ![r] = {}]
    /\ GoTo(r, Place("hash", 0, 0))

UpsertTablesConfigHash(r) ==
    /\ at[r].stage = "hash"
    /\ IF job[r].dry THEN UNCHANGED delta
       ELSE Create(r, {Row(Meta)}, Minimal(Config(r)))
    /\ GoTo(r, Place("end", 0, 0))
    /\ UNCHANGED todrop

\* Mutant: a dry run is committed as well.
CommitAlways(r) ==
    /\ at[r].stage = "end"
    /\ db' = [o \in Objects |-> See(r, o)]
    /\ delta' = [delta EXCEPT ![r] = Untouched]
    /\ \E stage \in {"done", "failed"} : at' = [at EXCEPT ![r] = Place(stage, 0, 0)]
    /\ UNCHANGED <<job, todrop, raced>>

\* The commit; it may have taken place although the command could not be told.
Commit(r) ==
    /\ at[r].stage = "end"
    /\ ~job[r].dry
    /\ db' = [o \in Objects |-> See(r, o)]
    /\ delta' = [delta EXCEPT ![r] = Untouched]
    /\ \E stage \in {"done", "failed"} : at' = [at EXCEPT ![r] = Place(stage, 0, 0)]
    /\ UNCHANGED <<job, todrop, raced>>

EndDryRun(r) ==
    /\ at[r].stage = "end"
    /\ job[r].dry
    /\ Rollback(r, "done")

\* A statement fails (PostgreSQL breaks a deadlock that way too), or the
\* command or its connection is lost.
Fail(r) ==
    /\ Running(r)
    /\ Rollback(r, "failed")

Step(r) ==
    \/ CreateMetaTable(r) \/ ReconcileTable(r) \/ ReconcileIndex(r)
    \/ ListStaleIndexes(r) \/ DropStaleIndexes(r)
    \/ ListTables(r) \/ DropTables(r)
    \/ UpsertTablesConfigHash(r) \/ Commit(r) \/ EndDryRun(r)

Next == \E r \in Runs : Begin(r) \/ Step(r) \/ Fail(r)

Spec == Init /\ [][Next]_vars

-----------------------------------------------------------------------------
(* The startup check of the api command (ValidateTablesConfigHash).        *)

ValidateTablesConfigHash(config) ==
    /\ db[Rel(Meta)] # None
    /\ db[Row(Meta)] # None
    /\ db[Row(Meta)] = Minimal(config)

-----------------------------------------------------------------------------
(* Properties.                                                             *)

Jobs == [config : Configs, cleanup : Cleanups, dry : BOOLEAN]

\* A run that is under way stands at a place in its configuration.
PlaceOK(r) ==
    /\ Running(r) => job[r] \in Jobs
    /\ at[r].stage \in {"table", "index", "stale", "dropIndexes"} =>
          at[r].table \in DOMAIN Config(r)
    /\ at[r].stage = "index" => at[r].index \in DOMAIN TableAt(r).indexes

\* Type invariant.
TypeOK ==
    /\ DOMAIN db = Objects /\ DOMAIN delta = Runs
    /\ \A o \in Objects :
        /\ db[o] \in DefinitionsOf(o, {None})
        /\ \A r \in Runs : delta[r][o] \in DefinitionsOf(o, {None, Same})
    /\ at \in [Runs -> [stage : Resting \cup {"meta", "table", "index", "stale", "dropIndexes",
                                           "list", "dropTables", "hash", "end"},
                        table : Nat, index : Nat]]
    /\ job \in [Runs -> {None} \cup Jobs]
    /\ \A r \in Runs : PlaceOK(r)
    /\ todrop \in [Runs -> SUBSET Names]
    /\ raced \in BOOLEAN

\* Every table of the configuration is there with its key layout, recorded in
\* _meta, and every index on its fields.
Conforms(config) ==
    \A i \in DOMAIN config :
        LET t == config[i] IN
        /\ db[Row(t.name)] = KeysOf(t)
        /\ db[Rel(Ident[t.name])] = Table(t.rk # NoField)
        /\ \A j \in DOMAIN t.indexes :
              db[Rel(Ident[IndexName[<<t.name, t.indexes[j].name>>]])]
                  = Index(Ident[t.name], t.indexes[j].pk, t.indexes[j].rk)

\* The api command starts only on a database that has all its configuration
\* asks for: whatever migrations ran before, failed or were killed on the way,
\* a hash that matches means that none is needed (USAGE.md: "The API will
\* refuse to start by default if a migration is needed but has not been
\* applied").
HashTells == \A c \in Configs : ValidateTablesConfigHash(c) => Conforms(c)

\* The same as long as no migration that cleans up has run at the same time as
\* another.
HashTellsUnlessRaced == ~raced => HashTells

\* _meta lists exactly the tables there are, and knows their key layout; an
\* index is on a table that exists.
MetaTellsTables ==
    \A n \in Names \ {Meta} :
        /\ db[Row(n)] # None <=> IsTable(db[Rel(n)])
        /\ db[Row(n)] # None => db[Rel(n)].hasRK = (db[Row(n)].rk # NoField)
        /\ db[Rel(n)] # None /\ db[Rel(n)].kind = "index" => IsTable(db[Rel(db[Rel(n)].on)])

\* Once a migration with -cleanup has committed there is no table and no index
\* but those of its configuration (DATABASE.md: "-cleanup removes
\* tables/indexes no longer present in config"), as long as no other migration
\* ran at the same time.
CleanupLeavesConfigured ==
    [][\A r \in Runs :
        Commit(r) /\ job[r].cleanup /\ ~raced =>
            \A n \in Names : db'[Rel(n)] # None =>
                \/ n \in Configured(r) \cup {Meta}
                \/ \E i \in DOMAIN Config(r) : n \in Desired(Config(r)[i])]_vars

\* A dry run leaves the database as it is, the _meta table it creates on the
\* way included.
DryRunKeeps ==
    [][\A r \in Runs : at'[r] # at[r] /\ job'[r].dry => db' = db]_vars
=============================================================================
