----------------------------- MODULE Deployment -----------------------------
(***************************************************************************)
(* Servers (the api command, main.go) and migrations on one database: a    *)
(* server checks the hash once, when it starts, and then serves requests   *)
(* while migrations come and go; a signal lets it finish what it has       *)
(* accepted, for ten seconds, and it may be started again.                 *)
(*                                                                         *)
(* A request is one statement on one table.  Its client may take it up as  *)
(* slowly as it likes.                                                     *)
(***************************************************************************)
EXTENDS Migration, Functions

CONSTANTS Servers, Requests

VARIABLES
    server,    \* server -> its stage and configuration
    request,   \* request -> its stage, the process that has it, and its table
    vouched    \* history: server -> its check was not skipped, and since then no
               \* migration with -cleanup has committed another structure

migration == <<db, delta, at, job, todrop, raced>>
all == <<db, delta, at, job, todrop, raced, server, request, vouched>>

Live(s) == server[s].stage \in {"checked", "serving", "draining"}
Open(q) == request[q].stage \in {"handling", "executed"}
OpenAt(s) == {q \in Requests : Open(q) /\ request[q].server = s}

Process(stage, config) == [stage |-> stage, config |-> config]
At(stage, s, table) == [stage |-> stage, server |-> s, table |-> table]
Idle == At("none", None, None)

Enter(s, stage) ==
    /\ server' = [server EXCEPT ![s].stage = stage]
    /\ UNCHANGED vouched
Exit(s, stage) ==
    /\ server' = [server EXCEPT ![s] = Process(stage, None)]
    /\ vouched' = [vouched EXCEPT ![s] = FALSE]

Start ==
    /\ Init
    /\ server = [s \in Servers |-> Process("stopped", None)]
    /\ request = [q \in Requests |-> Idle]
    /\ vouched = [s \in Servers |-> FALSE]

-----------------------------------------------------------------------------
(* Servers.                                                                *)

\* Up to the check, of which the server takes nothing but that it passed.
Launch(s) ==
    /\ ~Live(s)
    /\ \E config \in Configs, skip \in BOOLEAN :
        IF skip \/ ValidateTablesConfigHash(config)
        THEN /\ server' = [server EXCEPT ![s] = Process("checked", config)]
             /\ vouched' = [vouched EXCEPT ![s] = ~skip]
        ELSE Exit(s, "failed")
    /\ UNCHANGED <<migration, request>>

Listen(s) ==
    /\ server[s].stage = "checked"
    /\ Enter(s, "serving")
    /\ UNCHANGED <<migration, request>>

\* Shutdown closes the listener.  A second signal changes nothing, since stop is
\* deferred; a signal to a server that does not listen yet ends it as well.
Signal(s) ==
    /\ server[s].stage \in {"checked", "serving"}
    /\ Enter(s, "draining")
    /\ UNCHANGED <<migration, request>>

\* Shutdown returns nil, and the deferred calls close the pool.
ShutdownDone(s) ==
    /\ server[s].stage = "draining"
    /\ OpenAt(s) = {}
    /\ Exit(s, "stopped")
    /\ UNCHANGED <<migration, request>>

\* What becomes of the requests of a process that is gone: a statement that
\* PostgreSQL has got is executed all the same.
Abandon(s) ==
    \E sent \in SUBSET {q \in OpenAt(s) : request[q].stage = "handling"} :
        request' = [q \in Requests |->
            IF q \notin OpenAt(s) THEN request[q]
            ELSE IF q \in sent THEN At("orphan", None, request[q].table) ELSE Idle]

\* Mutants: Shutdown has no deadline; its error is not looked at.
WaitForEver(s) == FALSE /\ UNCHANGED all
ExitAllTheSame(s) ==
    /\ server[s].stage = "draining"
    /\ Exit(s, "stopped")
    /\ UNCHANGED <<migration, request>>

\* The ten seconds are over: log.Fatal.
ShutdownTimeout(s) ==
    /\ server[s].stage = "draining"
    /\ OpenAt(s) # {}
    /\ Exit(s, "failed")
    /\ Abandon(s)
    /\ UNCHANGED migration

\* Any other log.Fatal (the port is taken), a crash, or a kill.
Crash(s) ==
    /\ Live(s)
    /\ Exit(s, "failed")
    /\ Abandon(s)
    /\ UNCHANGED migration

-----------------------------------------------------------------------------
(* Requests.                                                               *)

Accept(q) ==
    /\ request[q].stage = "none"
    /\ \E s \in Servers :
        /\ server[s].stage = "serving"
        /\ \E i \in DOMAIN server[s].config :
            request' = [request EXCEPT ![q] = At("handling", s, server[s].config[i])]
    /\ UNCHANGED <<migration, server, vouched>>

\* A statement waits for the transaction that has created, dropped or indexed
\* its table.
Execute(q) ==
    /\ request[q].stage \in {"handling", "orphan"}
    /\ LET name == Ident[request[q].table.name] IN
       \A r \in Runs : /\ delta[r][Rel(name)] = Same
                       /\ \A n \in Names : delta[r][Rel(n)] # Same =>
                             ~IsIndexOn(delta[r][Rel(n)], name) /\ ~IsIndexOn(db[Rel(n)], name)
    /\ request' = [request EXCEPT ![q] =
                    IF @.stage = "orphan" THEN Idle ELSE At("executed", @.server, None)]
    /\ UNCHANGED <<migration, server, vouched>>

Answer(q) ==
    /\ request[q].stage = "executed"
    /\ request' = [request EXCEPT ![q] = Idle]
    /\ UNCHANGED <<migration, server, vouched>>

-----------------------------------------------------------------------------
(* Migrations beside them.                                                 *)

Beside(r) ==
    /\ vouched' = [s \in Servers |->
            /\ vouched[s]
            /\ db' # db /\ job[r].cleanup => Minimal(Config(r)) = Minimal(server[s].config)]
    /\ UNCHANGED <<server, request>>

ServerStep ==
    \E s \in Servers : \/ Launch(s) \/ Listen(s) \/ Signal(s)
                       \/ ShutdownDone(s) \/ ShutdownTimeout(s) \/ Crash(s)
RequestStep == \E q \in Requests : Accept(q) \/ Execute(q) \/ Answer(q)
MigrationStep == \E r \in Runs : (Begin(r) \/ Step(r) \/ Fail(r)) /\ Beside(r)

Steps == ServerStep \/ RequestStep \/ MigrationStep

\* Main goes on and the timer of Shutdown fires.  Nothing is assumed of clients,
\* signals and migrations, and of the requests they hold up.
Fairness == \A s \in Servers : WF_all(ShutdownDone(s)) /\ WF_all(ShutdownTimeout(s))

DeploymentSpec == Start /\ [][Steps]_all
FairSpec == DeploymentSpec /\ Fairness

-----------------------------------------------------------------------------
(* Properties.                                                             *)

\* Type invariant, but for the variables of Migration: every open request is
\* with a process that runs.
ServersOK ==
    /\ server \in [Servers -> [stage : {"checked", "serving", "draining", "stopped", "failed"},
                               config : Configs \cup {None}]]
    /\ \A s \in Servers : IF Live(s) THEN server[s].config \in Configs ELSE ~vouched[s]
    /\ request \in [Requests -> [stage : {"none", "handling", "executed", "orphan"},
                                 server : Servers \cup {None},
                                 table : (UNION {Range(c) : c \in Configs}) \cup {None}]]
    /\ vouched \in [Servers -> BOOLEAN]
    /\ \A q \in Requests : Open(q) =>
          /\ request[q].server \in Servers
          /\ server[request[q].server].stage \in {"serving", "draining"}

\* The check is made once, and holds for as long as the server runs: whatever
\* migrations begin, commit or fail meanwhile, all its configuration asks for
\* stays there, until a migration with -cleanup brings another structure.
\* (Not for servers that skip the check, nor when a cleanup has raced with
\* another migration.)
RunningServersConform ==
    ~raced => \A s \in Servers : vouched[s] => Conforms(server[s].config)

\* A signal ends the process, whatever its clients do and however long the
\* transactions take that its statements wait for.
ShutdownEnds == \A s \in Servers : server[s].stage = "draining" ~> ~Live(s)
=============================================================================
