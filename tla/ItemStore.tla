----------------------------- MODULE ItemStore -----------------------------
(***************************************************************************)
(* The single-item operations of one table: the HTTP handlers of           *)
(* internal/handler/item.go, each a sequence of steps of its own goroutine *)
(* (or of its own process: several API servers may share the database),    *)
(* and the SQL statements of internal/database/store.go they run, each a   *)
(* transaction of its own at PostgreSQL's READ COMMITTED level.            *)
(*                                                                         *)
(* A write statement is fixed in time when it starts, since now() is the   *)
(* time its transaction started, and takes effect later, when it gets the  *)
(* row's lock; statements may take effect in another order than they       *)
(* started in.  A handler whose statement or connection fails answers 500, *)
(* and the statement may still be on its way.                              *)
(***************************************************************************)
EXTENDS ItemModel, Integers

CONSTANTS
    Calls,          \* HTTP requests; each is made once, which bounds a run
    Absent,         \* no row under the key
    None,           \* not there yet
    ClockAdvances   \* by how much the database clock may have advanced when
                    \* the next write statement starts

ASSUME ClockAssumption == ClockAdvances \subseteq Nat
ASSUME MarkersAssumption ==
    /\ Absent \notin [data : StoredDocs, updated_at : Nat]
    /\ Absent \notin StoredDocs
    /\ None \notin Requests
    /\ None \notin Replies
    /\ None \notin [data : StoredDocs, updated_at : Nat]

VARIABLES
    rows,      \* the table: key -> [data, updated_at], or Absent
    clock,     \* the database's clock, in the units of updated_at
    pc,        \* call -> where its handler, or its statement, stands
    req,       \* call -> its request
    snap,      \* PATCH: the row GetItemForUpdate returned
    stamp,     \* now() of the call's write statement
    raced,     \* history: another call wrote the key since snap was read
    due,       \* call -> the response its handler has arrived at
    answer     \* call -> the response its client has received

vars == <<rows, clock, pc, req, snap, stamp, raced, due, answer>>

Rows == [data : StoredDocs, updated_at : Nat]
Stages == {"new", "read", "send", "exec", "done"}

Init ==
    /\ rows = [k \in Keys |-> Absent]
    /\ clock = 0
    /\ pc = [c \in Calls |-> "new"]
    /\ req = [c \in Calls |-> None]
    /\ snap = [c \in Calls |-> None]
    /\ stamp = [c \in Calls |-> 0]
    /\ raced = [c \in Calls |-> FALSE]
    /\ due = [c \in Calls |-> None]
    /\ answer = [c \in Calls |-> None]

Key(c) == req[c].key

-----------------------------------------------------------------------------
(* The handlers up to their first statement.                               *)

FirstStage(r) == IF r.op \in {"get", "patch"} THEN "read" ELSE "send"

Receive(c) ==
    /\ pc[c] = "new"
    /\ \E r \in Requests :
        /\ Accepted(r)
        /\ req' = [req EXCEPT ![c] = r]
        /\ pc' = [pc EXCEPT ![c] = FirstStage(r)]
    /\ UNCHANGED <<rows, clock, snap, stamp, raced, due, answer>>

Reject(c) ==
    /\ pc[c] = "new"
    /\ \E r \in Requests :
        /\ ~Accepted(r)
        /\ req' = [req EXCEPT ![c] = r]
    /\ pc' = [pc EXCEPT ![c] = "done"]
    /\ due' = [due EXCEPT ![c] = Reply(400)]
    /\ answer' = [answer EXCEPT ![c] = Reply(400)]
    /\ UNCHANGED <<rows, clock, snap, stamp, raced>>

-----------------------------------------------------------------------------
(* The reading statements.                                                 *)

\* Mutant: the handler returns without a response when there is no item.
DecidesUnless404(c, reply) ==
    /\ pc' = [pc EXCEPT ![c] = "done"]
    /\ due' = [due EXCEPT ![c] = IF reply.code = 404 THEN @ ELSE reply]
Decide(c, reply) ==
    /\ pc' = [pc EXCEPT ![c] = "done"]
    /\ due' = [due EXCEPT ![c] = reply]

GetItem(c) ==
    /\ pc[c] = "read"
    /\ req[c].op = "get"
    /\ LET row == rows[Key(c)] IN
       Decide(c, IF row = Absent THEN Reply(404)
                 ELSE ItemReply(ProjectFields(InjectKeys(row.data, Key(c)),
                                              req[c].fields)))
    /\ UNCHANGED <<rows, clock, req, snap, stamp, raced, answer>>

\* Mutant: the arguments of the merge are swapped.
PatchedBackwards(c) == Merged(req[c].body, snap[c].data, Key(c))
\* mergedWithKeys, from the row as it was read.
Patched(c) == Merged(snap[c].data, req[c].body, Key(c))

\* GetItemForUpdate is a plain SELECT: it takes no lock.
GetItemForUpdate(c) ==
    /\ pc[c] = "read"
    /\ req[c].op = "patch"
    /\ LET row == rows[Key(c)] IN
       IF row = Absent THEN
          /\ Decide(c, Reply(404))
          /\ UNCHANGED <<snap, raced>>
       ELSE IF Merged(row.data, req[c].body, Key(c)) \notin Schema THEN
          /\ Decide(c, Reply(400))
          /\ UNCHANGED <<snap, raced>>
       ELSE
          /\ snap' = [snap EXCEPT ![c] = row]
          /\ raced' = [raced EXCEPT ![c] = FALSE]
          /\ pc' = [pc EXCEPT ![c] = "send"]
          /\ UNCHANGED due
    /\ UNCHANGED <<rows, clock, req, stamp, answer>>

-----------------------------------------------------------------------------
(* The writing statements.                                                 *)

\* The database starts the statement's transaction, which fixes its now().
StartStatement(c) ==
    /\ pc[c] = "send"
    /\ \E d \in ClockAdvances :
        /\ clock' = clock + d
        /\ stamp' = [stamp EXCEPT ![c] = clock + d]
    /\ pc' = [pc EXCEPT ![c] = "exec"]
    /\ UNCHANGED <<rows, req, snap, raced, due, answer>>

Patching(c) == pc[c] \in {"send", "exec"} /\ req[c].op = "patch"

\* Mutant: the statement does not renew updated_at of a row it replaces.
WriteKeepingTime(c, row) ==
    /\ rows' = [rows EXCEPT ![Key(c)] =
                   IF Absent \in {@, row} THEN row
                   ELSE [row EXCEPT !.updated_at = rows[Key(c)].updated_at]]
    /\ raced' = [d \in Calls |-> \/ raced[d]
                                 \/ d # c /\ Patching(d) /\ Key(d) = Key(c)]
\* Statement c commits row under its key.
WriteRow(c, row) ==
    /\ rows' = [rows EXCEPT ![Key(c)] = row]
    /\ raced' = [d \in Calls |-> \/ raced[d]
                                 \/ d # c /\ Patching(d) /\ Key(d) = Key(c)]

\* INSERT ... ON CONFLICT DO UPDATE: the row is replaced whatever it was.
PutItem(c) ==
    /\ pc[c] = "exec"
    /\ req[c].op = "put"
    /\ LET stripped == StripKeys(req[c].body) IN
       /\ WriteRow(c, [data |-> stripped, updated_at |-> stamp[c]])
       /\ Decide(c, ItemReply(InjectKeys(stripped, Key(c))))
    /\ UNCHANGED <<clock, req, snap, stamp, answer>>

\* Mutants: the row only has to be there; it is compared with now().
StillThere(c) == rows[Key(c)] # Absent
WrittenNow(c) == rows[Key(c)] # Absent /\ rows[Key(c)].updated_at = stamp[c]
\* The WHERE clause of the conditional UPDATE, evaluated on the row as it is
\* when the statement holds its lock.
Unchanged(c) ==
    /\ rows[Key(c)] # Absent
    /\ rows[Key(c)].updated_at = snap[c].updated_at

PutItemIfUnchanged(c) ==
    /\ pc[c] = "exec"
    /\ req[c].op = "patch"
    /\ IF Unchanged(c) THEN
          /\ WriteRow(c, [data |-> StripKeys(Patched(c)), updated_at |-> stamp[c]])
          /\ Decide(c, ItemReply(Patched(c)))
       ELSE
          /\ Decide(c, Reply(409))
          /\ UNCHANGED <<rows, raced>>
    /\ UNCHANGED <<clock, req, snap, stamp, answer>>

DeleteItem(c) ==
    /\ pc[c] = "exec"
    /\ req[c].op = "delete"
    /\ WriteRow(c, Absent)
    /\ Decide(c, Reply(204))
    /\ UNCHANGED <<clock, req, snap, stamp, answer>>

-----------------------------------------------------------------------------
(* The end of a call.                                                      *)

Respond(c) ==
    /\ due[c] # None
    /\ answer[c] = None
    /\ answer' = [answer EXCEPT ![c] = due[c]]
    /\ UNCHANGED <<rows, clock, pc, req, snap, stamp, raced, due>>

\* The driver reports an error, or the connection or the server is lost.  A
\* SELECT is over then; a write statement may be lost with it or may still
\* run, and one that has run stays committed.
Fail(c) ==
    /\ pc[c] # "new"
    /\ answer[c] = None
    /\ answer' = [answer EXCEPT ![c] = Reply(500)]
    /\ \/ /\ pc[c] # "read"
          /\ UNCHANGED pc
       \/ /\ pc[c] # "done"
          /\ pc' = [pc EXCEPT ![c] = "done"]
    /\ UNCHANGED <<rows, clock, req, snap, stamp, raced, due>>

Step(c) ==
    \/ GetItem(c) \/ GetItemForUpdate(c)
    \/ StartStatement(c) \/ PutItem(c) \/ PutItemIfUnchanged(c) \/ DeleteItem(c)
    \/ Respond(c)

Next == \E c \in Calls : Receive(c) \/ Reject(c) \/ Step(c) \/ Fail(c)

Spec == Init /\ [][Next]_vars

\* A goroutine that can run is scheduled, and the database executes every
\* statement it has accepted: the code sets no timeout of its own.
Fairness == \A c \in Calls : WF_vars(Step(c))
FairSpec == Spec /\ Fairness

-----------------------------------------------------------------------------
(* Properties.                                                             *)

\* Type invariant.  In particular rows never hold key fields: every writer
\* strips them before PutItem and PutItemIfUnchanged (store.go:148).
TypeOK ==
    /\ rows \in [Keys -> Rows \cup {Absent}]
    /\ clock \in Nat
    /\ pc \in [Calls -> Stages]
    /\ req \in [Calls -> Requests \cup {None}]
    /\ snap \in [Calls -> Rows \cup {None}]
    /\ stamp \in [Calls -> Nat]
    /\ raced \in [Calls -> BOOLEAN]
    /\ due \in [Calls -> Replies \cup {None}]
    /\ answer \in [Calls -> Replies \cup {None}]

\* The clock is finer than the rate of writes: no two write statements start
\* at the same instant.
FineClock == 0 \notin ClockAdvances

\* A PATCH whose conditional UPDATE would hit its row has seen every write to
\* that row: comparing updated_at detects replacements, other patches, and a
\* delete followed by a new PUT (no lost update, no ABA).  So a PATCH that another
\* write has overtaken is answered 409, as API.md:108 says.
NoLostUpdate ==
    \A c \in Calls :
        Patching(c) /\ Unchanged(c) => /\ ~raced[c]
                                      /\ rows[Key(c)] = snap[c]

\* The handler answers 409 only when another call did write the item between
\* its read and its UPDATE: an undisturbed PATCH is never refused.
ConflictMeansRaced ==
    \A c \in Calls : due[c] = Reply(409) => raced[c]

\* Whatever order the writers run in, a stored row together with the key it is
\* stored under is a document of the table's schema, so a GET never returns
\* one that the table's schema refuses.  PUT validates another document than
\* the one it stores and PATCH one it has computed itself.
StoredValid ==
    \A k \in Keys : rows[k] # Absent => InjectKeys(rows[k].data, k) \in Schema

\* The handlers implement the atomic store: mapped to the documents alone,
\* every behaviour is one of AtomicItems.
Atomic == INSTANCE AtomicItems WITH
              items <- [k \in Keys |-> IF rows[k] = Absent THEN Absent
                                       ELSE rows[k].data],
              asked <- req
ImplementsAtomic == Atomic!Spec

-----------------------------------------------------------------------------
(* Why they hold: an inductive invariant.  (FineClock is needed for it.)   *)

\* What the stage of a call says of its request and its response.
CallsConsistent ==
    \A c \in Calls :
        /\ pc[c] = "new" => req[c] = None /\ answer[c] = None
        /\ pc[c] # "new" => req[c] \in Requests
        /\ pc[c] # "done" => due[c] = None
        /\ pc[c] \in {"read", "send", "exec"} => Accepted(req[c])
        /\ pc[c] = "read" => req[c].op \in {"get", "patch"}
        /\ pc[c] \in {"send", "exec"} => req[c].op \in {"put", "patch", "delete"}
        /\ Patching(c) => snap[c] \in Rows /\ Patched(c) \in Schema

\* Every time the store knows of has passed.
StampsPast ==
    /\ \A k \in Keys : rows[k] # Absent => rows[k].updated_at <= clock
    /\ \A c \in Calls : /\ stamp[c] <= clock
                        /\ Patching(c) => snap[c].updated_at <= clock

\* The time of a statement under way is on no row, in no snapshot, and no
\* other statement's.
StampsFresh ==
    \A c \in Calls : pc[c] = "exec" =>
        /\ \A k \in Keys : rows[k] # Absent => rows[k].updated_at # stamp[c]
        /\ \A d \in Calls : Patching(d) => snap[d].updated_at # stamp[c]
        /\ \A d \in Calls : d # c /\ pc[d] = "exec" => stamp[d] # stamp[c]

\* A snapshot is the row as long as nobody has written it, and is told from
\* it by its time from the first write of another call on.
SnapshotsTell ==
    \A c \in Calls : Patching(c) =>
        /\ ~raced[c] => rows[Key(c)] = snap[c]
        /\ raced[c] => ~Unchanged(c)

\* The inductive invariant.
IInv ==
    /\ TypeOK
    /\ CallsConsistent
    /\ StampsPast
    /\ StampsFresh
    /\ SnapshotsTell
    /\ ConflictMeansRaced

-----------------------------------------------------------------------------
(* Progress.                                                               *)

\* Every request is answered, whatever the other calls do: no handler waits
\* for another one, and a PATCH does not retry.
EveryCallAnswered ==
    \A c \in Calls : pc[c] # "new" ~> answer[c] # None
=============================================================================
