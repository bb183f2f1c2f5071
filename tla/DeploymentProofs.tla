-------------------------- MODULE DeploymentProofs --------------------------
(***************************************************************************)
(* Proofs about Deployment, for any number of servers, requests and        *)
(* migrations and any configurations: open requests are with processes     *)
(* that serve or drain, and what the startup check found stays true.       *)
(***************************************************************************)
EXTENDS Deployment, MigrationHashProofs

ServerStages == {"checked", "serving", "draining", "stopped", "failed"}
RequestTables == (UNION {Range(c) : c \in Configs}) \cup {None}

LEMMA ServersInit == Start => ServersOK
BY DEF Start, ServersOK, OpenAt, Open, Live,
       Process, At, Idle

-----------------------------------------------------------------------------
(* Steps of a server.                                                      *)

\* A server that begins another stage of its life keeps its requests.
LEMMA EnterInv ==
    ASSUME ServersOK, NEW s \in Servers, NEW stage \in {"serving", "draining"},
           Live(s), Enter(s, stage), UNCHANGED request
    PROVE  ServersOK'
BY DEF ServersOK, OpenAt, Open, Live, Enter

\* A server that ends has no requests left, or gives them up.
LEMMA ExitInv ==
    ASSUME ServersOK, NEW s \in Servers, NEW stage \in {"stopped", "failed"},
           Exit(s, stage),
           request' \in [Requests -> [stage : {"none", "handling", "executed", "orphan"},
                                     server : Servers \cup {None}, table : RequestTables]],
           \A q \in Requests : Open(q)' => /\ Open(q) /\ request'[q] = request[q]
                                           /\ request[q].server # s
    PROVE  ServersOK'
BY DEF ServersOK, OpenAt, Open, Live, Exit, Process,
       RequestTables

\* What Abandon makes of the requests.
LEMMA AbandonGivesUp ==
    ASSUME ServersOK, NEW s \in Servers, Abandon(s)
    PROVE  /\ request' \in [Requests -> [stage : {"none", "handling", "executed", "orphan"},
                                        server : Servers \cup {None}, table : RequestTables]]
           /\ \A q \in Requests : Open(q)' => /\ Open(q) /\ request'[q] = request[q]
                                              /\ request[q].server # s
BY DEF ServersOK, OpenAt, Open, Abandon, At, Idle, RequestTables

LEMMA ServerStepInv ==
    ASSUME ServersOK, ServerStep
    PROVE  ServersOK'
<1> PICK s \in Servers : \/ Launch(s) \/ Listen(s) \/ Signal(s)
                         \/ ShutdownDone(s) \/ ShutdownTimeout(s) \/ Crash(s)
    BY DEF ServerStep
<1>0. \A q \in Requests : Open(q) => request[q].server \in Servers /\ Live(request[q].server)
    BY DEF ServersOK, Live
<1>1. CASE Launch(s)
    <2>1. PICK config \in Configs, skip \in BOOLEAN :
            IF skip \/ ValidateTablesConfigHash(config)
            THEN /\ server' = [server EXCEPT ![s] = Process("checked", config)]
                 /\ vouched' = [vouched EXCEPT ![s] = ~skip]
            ELSE Exit(s, "failed")
        BY <1>1 DEF Launch
    <2>2. ~Live(s) /\ UNCHANGED request
        BY <1>1 DEF Launch
    <2>3. \A q \in Requests : Open(q) => request[q].server # s
        BY <1>0, <2>2
    <2>4. CASE skip \/ ValidateTablesConfigHash(config)
        <3>1. /\ server' = [server EXCEPT ![s] = Process("checked", config)]
              /\ vouched' = [vouched EXCEPT ![s] = ~skip]
            BY <2>1, <2>4
        <3> QED
            BY <2>2, <2>3, <3>1
               DEF ServersOK, OpenAt, Open, Live, Process
    <2>5. CASE ~(skip \/ ValidateTablesConfigHash(config))
        <3>1. Exit(s, "failed")
            BY <2>1, <2>5
        <3>2. request' \in [Requests -> [stage : {"none", "handling", "executed", "orphan"},
                                        server : Servers \cup {None}, table : RequestTables]]
            BY <2>2 DEF ServersOK, RequestTables
        <3> QED
            BY <2>2, <2>3, <3>1, <3>2, ExitInv DEF Open
    <2> QED
        BY <2>4, <2>5
<1>2. CASE Listen(s)
    BY <1>2, EnterInv DEF Listen, Live
<1>3. CASE Signal(s)
    BY <1>3, EnterInv DEF Signal, Live
<1>4. CASE ShutdownDone(s)
    <2>1. OpenAt(s) = {} /\ Exit(s, "stopped") /\ UNCHANGED request
        BY <1>4 DEF ShutdownDone
    <2>2. request' \in [Requests -> [stage : {"none", "handling", "executed", "orphan"},
                                    server : Servers \cup {None}, table : RequestTables]]
        BY <2>1 DEF ServersOK, RequestTables
    <2> QED
        BY <2>1, <2>2, ExitInv DEF Open, OpenAt
<1>5. CASE ShutdownTimeout(s)
    BY <1>5, AbandonGivesUp, ExitInv DEF ShutdownTimeout
<1>6. CASE Crash(s)
    BY <1>6, AbandonGivesUp, ExitInv DEF Crash
<1> QED
    BY <1>1, <1>2, <1>3, <1>4, <1>5, <1>6

-----------------------------------------------------------------------------
(* Steps of requests and of migrations.                                    *)

LEMMA RequestStepInv ==
    ASSUME ServersOK, RequestStep
    PROVE  ServersOK'
<1> PICK q \in Requests : Accept(q) \/ Execute(q) \/ Answer(q)
    BY DEF RequestStep
<1>1. UNCHANGED <<server, vouched>>
    BY DEF Accept, Execute, Answer
<1>2. CASE Accept(q)
    <2>1. PICK s \in Servers :
            /\ server[s].stage = "serving"
            /\ \E i \in DOMAIN server[s].config :
                request' = [request EXCEPT ![q] = At("handling", s, server[s].config[i])]
        BY <1>2 DEF Accept
    <2>2. PICK i \in DOMAIN server[s].config :
              request' = [request EXCEPT ![q] = At("handling", s, server[s].config[i])]
        BY <2>1
    <2>3. server[s].config \in Configs
        BY <2>1 DEF ServersOK, Live
    <2>4. server[s].config[i] \in RequestTables
        BY <2>2, <2>3 DEF RequestTables, Range
    <2> QED
        BY <1>1, <2>1, <2>2, <2>4
           DEF ServersOK, OpenAt, Open, Live, At, RequestTables
<1>3. CASE Execute(q)
    BY <1>1, <1>3
       DEF Execute, ServersOK, OpenAt, Open, Live, At, Idle
<1>4. CASE Answer(q)
    BY <1>1, <1>4
       DEF Answer, ServersOK, OpenAt, Open, Live, At, Idle
<1> QED
    BY <1>2, <1>3, <1>4

LEMMA MigrationStepInv ==
    ASSUME ServersOK, MigrationStep
    PROVE  ServersOK'
<1> PICK r \in Runs : Beside(r)
    BY DEF MigrationStep
<1> QED
    BY DEF Beside, ServersOK, OpenAt, Open, Live

-----------------------------------------------------------------------------

\* In every deployment the types are right, and open requests are with processes
\* that serve or drain.
THEOREM ServersCorrect == DeploymentSpec => []ServersOK
<1>1. ServersOK /\ [Steps]_all => ServersOK'
    <2> SUFFICES ASSUME ServersOK, [Steps]_all PROVE ServersOK'
        OBVIOUS
    <2>1. CASE ServerStep
        BY <2>1, ServerStepInv
    <2>2. CASE RequestStep
        BY <2>2, RequestStepInv
    <2>3. CASE MigrationStep
        BY <2>3, MigrationStepInv
    <2>4. CASE UNCHANGED all
        BY <2>4 DEF all, ServersOK, OpenAt, Open, Live
    <2> QED
        BY <2>1, <2>2, <2>3, <2>4 DEF Steps
<1> QED
    BY <1>1, ServersInit, PTL DEF DeploymentSpec

-----------------------------------------------------------------------------
(* What the check found stays true.                                        *)

\* The invariants of Migration hold beside servers as well.
CatalogInv == TypeOK /\ MetaInv /\ HashInv

LEMMA MigrationNext ==
    ASSUME [Steps]_all
    PROVE  \/ UNCHANGED migration
           \/ /\ \E r \in Runs : (Begin(r) \/ Step(r) \/ Fail(r)) /\ Beside(r)
              /\ [Next]_vars
<1>1. CASE ServerStep
    BY <1>1 DEF ServerStep, Launch, Listen, Signal, ShutdownDone, ShutdownTimeout, Crash
<1>2. CASE RequestStep
    BY <1>2 DEF RequestStep, Accept, Execute, Answer
<1>3. CASE MigrationStep
    BY <1>3 DEF MigrationStep, Next
<1>4. CASE UNCHANGED all
    BY <1>4 DEF all, migration
<1> QED
    BY <1>1, <1>2, <1>3, <1>4 DEF Steps

\* The steps of servers and requests leave the catalog alone.
LEMMA DeploymentMigrates ==
    DeploymentSpec => Spec
<1>1. Start => Init
    BY DEF Start
<1>2. [Steps]_all => [Next]_vars
    BY MigrationNext DEF migration, vars
<1> QED
    BY <1>1, <1>2, PTL DEF DeploymentSpec, Spec

\* Any other definition of an object than the hash outlives a commit without cleanup.
LEMMA CommitAdds ==
    ASSUME CatalogInv, NEW r \in Runs, Commit(r), ~job[r].cleanup,
           NEW o \in Objects \ {Row(Meta)}, db[o] # None
    PROVE  db'[o] = db[o]
<1>1. db'[o] = See(r, o)
    BY DEF Commit
<1>2. delta[r][o] = Same
    BY DEF CatalogInv, HashInv, OnlyAdds
<1> QED
    BY <1>1, <1>2 DEF See

\* So what a configuration asks for stays there.
LEMMA CommitConforms ==
    ASSUME NamesApart, CatalogInv, NEW r \in Runs, Commit(r), ~job[r].cleanup,
           NEW c \in Configs, Conforms(c)
    PROVE  Conforms(c)'
<1> USE ObjectsApart, TableNamesApart, Marks, KindsApart
<1> SUFFICES ASSUME NEW i \in DOMAIN c
             PROVE  /\ db'[Row(c[i].name)] = KeysOf(c[i])
                    /\ db'[Rel(Ident[c[i].name])] = Table(c[i].rk # NoField)
                    /\ \A j \in DOMAIN c[i].indexes :
                          db'[Rel(Ident[IndexName[<<c[i].name, c[i].indexes[j].name>>]])]
                              = Index(Ident[c[i].name], c[i].indexes[j].pk, c[i].indexes[j].rk)
    BY DEF Conforms
<1>1. /\ c[i].name \in TableNames /\ KeysOf(c[i]) \in Keys /\ c[i].indexes \in Seq(IndexConfigs)
      /\ Ident[c[i].name] = c[i].name
    <2>1. c \in Seq(TableConfigs)
        BY ConfigsAssumption
    <2>2. c[i] \in TableConfigs
        BY <2>1
    <2> QED
        BY <2>2 DEF TableNames, TableConfigs, KeysOf, Keys, NamesApart
<1>2. /\ db[Row(c[i].name)] = KeysOf(c[i])
      /\ db[Rel(c[i].name)] = Table(c[i].rk # NoField)
      /\ \A j \in DOMAIN c[i].indexes :
            db[Rel(Ident[IndexName[<<c[i].name, c[i].indexes[j].name>>]])]
                = Index(c[i].name, c[i].indexes[j].pk, c[i].indexes[j].rk)
    BY <1>1 DEF Conforms
<1>3. db'[Row(c[i].name)] = KeysOf(c[i])
    <2>1. Row(c[i].name) \in Objects \ {Row(Meta)} /\ KeysOf(c[i]) # None
        BY <1>1
    <2> QED
        BY <1>2, <2>1, CommitAdds
<1>4. db'[Rel(c[i].name)] = Table(c[i].rk # NoField)
    <2>1. Rel(c[i].name) \in Objects \ {Row(Meta)} /\ Table(c[i].rk # NoField) \in Tables
        BY <1>1 DEF Table, Tables
    <2> QED
        BY <1>2, <2>1, CommitAdds
<1>5. ASSUME NEW j \in DOMAIN c[i].indexes
      PROVE  db'[Rel(Ident[IndexName[<<c[i].name, c[i].indexes[j].name>>]])]
                 = Index(c[i].name, c[i].indexes[j].pk, c[i].indexes[j].rk)
    <2>1. c[i].indexes[j] \in IndexConfigs /\ c[i].name \in Names
        BY <1>1
    <2>2. Ident[IndexName[<<c[i].name, c[i].indexes[j].name>>]] \in Names
        BY <2>1, NamesAssumption DEF IndexConfigs
    <2>3. Rel(Ident[IndexName[<<c[i].name, c[i].indexes[j].name>>]]) \in Objects \ {Row(Meta)}
        BY <2>2
    <2>4. Index(c[i].name, c[i].indexes[j].pk, c[i].indexes[j].rk) \in Indexes
        BY <2>1 DEF Index, Indexes, IndexConfigs
    <2> QED
        BY <1>2, <2>3, <2>4, CommitAdds
<1> QED
    BY <1>1, <1>3, <1>4, <1>5

\* A commit keeps what a server relies on, unless it was a cleanup that brought
\* another structure.
LEMMA CommitKeeps ==
    ASSUME NamesApart, IndexesKeepFields, CatalogInv, ~raced, NEW r \in Runs, Commit(r),
           NEW c \in Configs, Conforms(c),
           db' # db /\ job[r].cleanup => Minimal(Config(r)) = Minimal(c)
    PROVE  Conforms(c)'
<1>1. CASE ~job[r].cleanup
    BY <1>1, CommitConforms
<1>2. CASE db' = db
    BY <1>2 DEF Conforms
<1>3. CASE db' # db /\ job[r].cleanup
    <2>1. PICK d : d = Config(r)
        OBVIOUS
    <2>2. at[r].stage = "end" /\ Running(r) /\ ~job[r].dry /\ \A o \in Objects : db'[o] = See(r, o)
        BY DEF Commit, Running, Resting
    <2>3. Prepared(r) /\ d \in Configs
        BY <2>1, <2>2, ConfigOf DEF CatalogInv, HashInv, PreparedOK
    <2>4. Conforms(d)'
        BY <2>1, <2>2, <2>3, PreparedConforms DEF CatalogInv
    <2> QED
        BY <1>3, <2>1, <2>3, <2>4, MinimalConforms
<1> QED
    BY <1>1, <1>2, <1>3

\* The other steps of a migration commit nothing.
LEMMA OnlyCommitChanges ==
    ASSUME NEW r \in Runs, Begin(r) \/ Step(r) \/ Fail(r)
    PROVE  (UNCHANGED db \/ Commit(r)) /\ (raced => raced')
<1>1. CASE Begin(r)
    BY <1>1 DEF Begin
<1>2. CASE Commit(r)
    BY <1>2 DEF Commit
<1>3. CASE EndDryRun(r) \/ Fail(r)
    BY <1>3 DEF EndDryRun, Fail, Rollback
<1>4. CASE ReconcileTable(r) \/ ReconcileIndex(r)
    BY <1>4 DEF ReconcileTable, ReconcileIndex, GoTo, Rollback
<1>5. CASE CreateMetaTable(r) \/ UpsertTablesConfigHash(r)
    <2>1. GoTo(r, Place("table", 1, 0)) \/ GoTo(r, Place("end", 0, 0))
        BY <1>5 DEF CreateMetaTable, UpsertTablesConfigHash
    <2> QED
        BY <2>1 DEF GoTo
<1>6. CASE ListStaleIndexes(r) \/ ListTables(r)
    BY <1>6 DEF ListStaleIndexes, ListTables, GoTo
<1>7. CASE DropStaleIndexes(r) \/ DropTables(r)
    BY <1>7 DEF DropStaleIndexes, DropTables, GoTo
<1> QED
    BY <1>1, <1>2, <1>3, <1>4, <1>5, <1>6, <1>7 DEF Step

LEMMA MigrationStepConforms ==
    ASSUME NamesApart, IndexesKeepFields, CatalogInv, ServersOK, RunningServersConform,
           NEW r \in Runs, Begin(r) \/ Step(r) \/ Fail(r), Beside(r)
    PROVE  RunningServersConform'
<1> SUFFICES ASSUME ~raced', NEW s \in Servers, vouched'[s], NEW c, c = server[s].config
             PROVE  Conforms(c)'
    BY DEF RunningServersConform, Beside
<1>1. ~raced /\ vouched[s] /\ (db' # db /\ job[r].cleanup => Minimal(Config(r)) = Minimal(c))
    BY OnlyCommitChanges DEF Beside
<1>2. c \in Configs /\ Conforms(c)
    BY <1>1 DEF ServersOK, RunningServersConform
<1>3. CASE UNCHANGED db
    BY <1>2, <1>3 DEF Conforms
<1>4. CASE Commit(r)
    BY <1>1, <1>2, <1>4, CommitKeeps
<1> QED
    BY <1>3, <1>4, OnlyCommitChanges

LEMMA ServerStepConforms ==
    ASSUME CatalogInv, ServersOK, RunningServersConform, UNCHANGED migration, [Steps]_all
    PROVE  RunningServersConform'
<1>1. UNCHANGED <<db, raced>>
    BY DEF migration
<1>2. ASSUME ~raced, NEW s \in Servers, vouched'[s]
      PROVE  \E c \in Configs : c = server'[s].config /\ Conforms(c)
    <2>1. server \in [Servers -> [stage : ServerStages, config : Configs \cup {None}]]
          /\ vouched \in [Servers -> BOOLEAN]
        BY DEF ServersOK, ServerStages
    <2>2. CASE server'[s].config = server[s].config /\ vouched[s]
        BY <1>2, <2>1, <2>2 DEF ServersOK, RunningServersConform
    <2>3. ASSUME NEW t \in Servers, Launch(t)
          PROVE  \E c \in Configs : c = server'[s].config /\ Conforms(c)
        <3>1. PICK config \in Configs, skip \in BOOLEAN :
                IF skip \/ ValidateTablesConfigHash(config)
                THEN /\ server' = [server EXCEPT ![t] = Process("checked", config)]
                     /\ vouched' = [vouched EXCEPT ![t] = ~skip]
                ELSE Exit(t, "failed")
            BY <2>3 DEF Launch
        <3>2. CASE s = t
            <4>1. ~Exit(t, "failed")
                BY <1>2, <2>1, <3>2 DEF Exit
            <4>2. ~skip /\ server'[t] = Process("checked", config)
                BY <1>2, <2>1, <3>1, <3>2, <4>1
            <4>3. server'[s].config = config /\ ValidateTablesConfigHash(config)
                BY <3>1, <3>2, <4>1, <4>2 DEF Process
            <4> QED
                BY <1>2, <4>3 DEF CatalogInv, HashInv, HashTellsUnlessRaced, HashTells
        <3>3. CASE s # t
            <4>1. server'[s] = server[s] /\ vouched'[s] = vouched[s]
                BY <2>1, <3>1, <3>3 DEF Exit
            <4> QED
                BY <1>2, <2>2, <4>1
        <3> QED
            BY <3>2, <3>3
    <2>4. ASSUME NEW t \in Servers, NEW stage, Enter(t, stage)
          PROVE  server'[s].config = server[s].config /\ vouched[s]
        BY <1>2, <2>1, <2>4 DEF Enter
    <2>5. ASSUME NEW t \in Servers, NEW stage, Exit(t, stage)
          PROVE  server'[s].config = server[s].config /\ vouched[s]
        BY <1>2, <2>1, <2>5 DEF Exit
    <2>6. CASE ServerStep
        BY <2>2, <2>3, <2>4, <2>5, <2>6
           DEF ServerStep, Listen, Signal, ShutdownDone, ShutdownTimeout, Crash
    <2>7. CASE UNCHANGED <<server, vouched>>
        BY <1>2, <2>2, <2>7
    <2>8. CASE MigrationStep
        BY <1>2, <2>2, <2>8 DEF MigrationStep, Beside
    <2>9. CASE RequestStep \/ UNCHANGED all
        BY <2>7, <2>9 DEF RequestStep, Accept, Execute, Answer, all
    <2> QED
        BY <2>6, <2>8, <2>9 DEF Steps
<1> SUFFICES ASSUME ~raced', NEW s \in Servers, vouched'[s]
             PROVE  Conforms(server[s].config)'
    BY DEF RunningServersConform
<1>3. PICK c \in Configs : c = server'[s].config /\ Conforms(c)
    BY <1>1, <1>2
<1>4. Conforms(c)'
    BY <1>1, <1>3 DEF Conforms
<1> QED
    BY <1>3, <1>4 DEF Conforms

\* The startup check is made once, and is right for as long as the server runs
\* (runAPI, ValidateTablesConfigHash): whatever migrations begin, overlap, commit
\* or fail beside it, every table and index of its configuration stays there as it
\* was, until a cleanup brings another structure or has raced.
THEOREM ServersConform ==
    NamesApart /\ IndexesKeepFields => (DeploymentSpec => []RunningServersConform)
<1> SUFFICES ASSUME NamesApart, IndexesKeepFields PROVE DeploymentSpec => []RunningServersConform
    OBVIOUS
<1>1. TypeOK /\ MetaInv /\ HashInv => CatalogInv
    BY DEF CatalogInv
<1>2. Start => RunningServersConform
    BY DEF Start, RunningServersConform
<1>3. CatalogInv /\ ServersOK /\ RunningServersConform /\ [Steps]_all => RunningServersConform'
    BY MigrationNext, MigrationStepConforms, ServerStepConforms
<1>4. Spec => []TypeOK
    BY TypeCorrect
<1>5. Spec => []MetaInv
    BY MetaInvariance
<1>6. Spec => []HashInv
    BY HashInvariance
<1> QED
    BY <1>1, <1>2, <1>3, <1>4, <1>5, <1>6, DeploymentMigrates, ServersCorrect, PTL
       DEF DeploymentSpec
=============================================================================
