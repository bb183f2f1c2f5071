---------------------------- MODULE AtomicItems ----------------------------
(***************************************************************************)
(* What the item API promises its clients: every operation works on the    *)
(* item at one instant between its request and its answer.  A PATCH reads, *)
(* merges, validates and writes at that one instant; it may instead be     *)
(* refused with 409.  A client that gets 500 does not know whether its     *)
(* write took or will take effect, but it takes effect at most once.       *)
(***************************************************************************)
EXTENDS ItemModel

CONSTANTS
    Calls,     \* HTTP requests
    Absent,    \* no item under the key
    None       \* no request, no answer yet

VARIABLES
    items,     \* key -> the stored document, or Absent
    asked,     \* call -> its request, or None
    due,       \* call -> the answer its effect produced, or None
    answer     \* call -> the answer its client received, or None

vars == <<items, asked, due, answer>>

Init ==
    /\ items = [k \in Keys |-> Absent]
    /\ asked = [c \in Calls |-> None]
    /\ due = [c \in Calls |-> None]
    /\ answer = [c \in Calls |-> None]

Ask(c) ==
    /\ asked[c] = None
    /\ \E r \in Requests :
        /\ Accepted(r)
        /\ asked' = [asked EXCEPT ![c] = r]
    /\ UNCHANGED <<items, due, answer>>

Refuse(c) ==
    /\ asked[c] = None
    /\ \E r \in Requests :
        /\ ~Accepted(r)
        /\ asked' = [asked EXCEPT ![c] = r]
    /\ due' = [due EXCEPT ![c] = Reply(400)]
    /\ answer' = [answer EXCEPT ![c] = Reply(400)]
    /\ UNCHANGED items

Open(c, op) ==
    /\ asked[c] # None
    /\ due[c] = None
    /\ asked[c].op = op

\* The call's operation happens, once: stored is the item it leaves behind.
Takes(c, stored, reply) ==
    /\ items' = [items EXCEPT ![asked[c].key] = stored]
    /\ due' = [due EXCEPT ![c] = reply]
    /\ UNCHANGED <<asked, answer>>

Get(c) ==
    /\ Open(c, "get")
    /\ LET k == asked[c].key
           item == items[k]
       IN  Takes(c, item,
                 IF item = Absent THEN Reply(404)
                 ELSE ItemReply(ProjectFields(InjectKeys(item, k), asked[c].fields)))

Put(c) ==
    /\ Open(c, "put")
    /\ LET stored == StripKeys(asked[c].body)
       IN  Takes(c, stored, ItemReply(InjectKeys(stored, asked[c].key)))

Delete(c) ==
    /\ Open(c, "delete")
    /\ Takes(c, Absent, Reply(204))

Patch(c) ==
    /\ Open(c, "patch")
    /\ LET item == items[asked[c].key]
           merged == Merged(item, asked[c].body, asked[c].key)
       IN  IF item = Absent THEN Takes(c, item, Reply(404))
           ELSE IF merged \notin Schema THEN Takes(c, item, Reply(400))
           ELSE Takes(c, StripKeys(merged), ItemReply(merged))

\* Another write came between: nothing is written and the client is told so.
Conflict(c) ==
    /\ Open(c, "patch")
    /\ Takes(c, items[asked[c].key], Reply(409))

Answer(c) ==
    /\ due[c] # None
    /\ answer[c] = None
    /\ answer' = [answer EXCEPT ![c] = due[c]]
    /\ UNCHANGED <<items, asked, due>>

Fail(c) ==
    /\ asked[c] # None
    /\ answer[c] = None
    /\ answer' = [answer EXCEPT ![c] = Reply(500)]
    /\ UNCHANGED <<items, asked, due>>

Next ==
    \E c \in Calls : \/ Ask(c) \/ Refuse(c)
                     \/ Get(c) \/ Put(c) \/ Delete(c)
                     \/ Patch(c) \/ Conflict(c)
                     \/ Answer(c) \/ Fail(c)

Spec == Init /\ [][Next]_vars
=============================================================================
