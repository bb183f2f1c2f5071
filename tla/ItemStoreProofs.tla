-------------------------- MODULE ItemStoreProofs --------------------------
(***************************************************************************)
(* Proofs about ItemStore, for every set of calls, every table layout and  *)
(* every schema: the inductive invariant, the properties of writes that    *)
(* race, and that the handlers implement AtomicItems.                      *)
(***************************************************************************)
EXTENDS ItemStore, TLAPS

-----------------------------------------------------------------------------
(* Documents.                                                              *)

\* A path the checks accept holds a value for each key field (keys.go:18).
LEMMA KeyType ==
    ASSUME NEW k \in Keys
    PROVE  k \in [KeyFields -> Values]
BY DEF Keys, Paths

\* InjectKeys and StripKeys stay within the documents (model.go:9, 25).
LEMMA InjectType ==
    ASSUME NEW d \in Docs, NEW k \in Keys
    PROVE  InjectKeys(d, k) \in Docs
BY KeyType DEF InjectKeys, Docs

\* What is stripped of its keys is what the data column may hold.
LEMMA StripType ==
    ASSUME NEW d \in Docs
    PROVE  StripKeys(d) \in StoredDocs
BY KeyFieldsAssumption DEF StripKeys, StoredDocs, Docs

\* Stripping the keys loses nothing that injecting them does not bring back.
LEMMA InjectStrip ==
    ASSUME NEW d \in Docs, NEW k
    PROVE  InjectKeys(StripKeys(d), k) = InjectKeys(d, k)
BY DEF StripKeys, InjectKeys, Docs

\* Injecting the same keys twice changes nothing.
LEMMA InjectTwice ==
    ASSUME NEW d \in Docs, NEW k
    PROVE  InjectKeys(InjectKeys(d, k), k) = InjectKeys(d, k)
BY DEF InjectKeys, Docs

\* The merge of two documents is one (model.go:42).
LEMMA MergeType ==
    ASSUME NEW d \in Docs, NEW p \in Docs
    PROVE  MergePatch(d, p) \in Docs
<1>1. ASSUME NEW f \in Fields
      PROVE  (CASE p[f] = Null    -> Missing
                [] p[f] = Missing -> d[f]
                [] OTHER          -> p[f]) \in Values \cup {Missing}
    <2>1. p[f] \in Values \cup {Missing} /\ d[f] \in Values \cup {Missing}
        BY DEF Docs
    <2>2. Null # Missing
        BY ValuesAssumption
    <2> QED
        BY <2>1, <2>2
<1> QED
    BY <1>1 DEF MergePatch, Docs

\* A merge into a stored document gives a document.
LEMMA MergedType ==
    ASSUME NEW d \in Docs, NEW p \in Docs, NEW k \in Keys
    PROVE  Merged(d, p, k) \in Docs
BY MergeType, InjectType DEF Merged

\* What a PATCH stores, with the keys injected again, is what it validated.
LEMMA MergedStored ==
    ASSUME NEW d \in Docs, NEW p \in Docs, NEW k \in Keys
    PROVE  InjectKeys(StripKeys(Merged(d, p, k)), k) = Merged(d, p, k)
<1>1. InjectKeys(StripKeys(Merged(d, p, k)), k) = InjectKeys(Merged(d, p, k), k)
    BY MergedType, InjectStrip
<1>2. InjectKeys(Merged(d, p, k), k) = Merged(d, p, k)
    BY MergeType, InjectTwice DEF Merged
<1> QED
    BY <1>1, <1>2

\* A projected document is a document.
LEMMA ProjectType ==
    ASSUME NEW d \in Docs, NEW fs
    PROVE  ProjectFields(d, fs) \in Docs
BY DEF ProjectFields, Docs

\* What the data column holds are documents.
LEMMA StoredAreDocs == StoredDocs \subseteq Docs
BY DEF StoredDocs

\* Every response a handler writes is one of the replies.
LEMMA ReplyType ==
    /\ \A n \in Codes : Reply(n) \in Replies
    /\ \A d \in Docs : ItemReply(d) \in Replies
BY DEF Reply, ItemReply, Replies, Codes

\* A status tells two responses apart.
LEMMA RepliesDiffer ==
    /\ \A n \in {200, 204, 400, 404, 500} : Reply(n) # Reply(409)
    /\ \A d : ItemReply(d) # Reply(409)
    /\ \A n, d : ItemReply(d) = Reply(n) => d = NoBody
BY DEF Reply, ItemReply

\* A call past its checks carries a document as the body its operation needs.
LEMMA RequestType ==
    ASSUME NEW r \in Requests, Accepted(r)
    PROVE  /\ r.key \in Keys
           /\ r.op \in {"get", "put", "patch", "delete"}
           /\ r.op = "put" => r.body \in Docs /\ AcceptedPut(r)
           /\ r.op = "patch" => r.body \in Docs
           /\ r = [op |-> r.op, key |-> r.key, body |-> r.body, fields |-> r.fields]
BY BodiesAssumption DEF Requests, Accepted, AcceptedPut, AcceptedPatch

-----------------------------------------------------------------------------
(* The inductive invariant.                                                *)

\* An empty table with no calls satisfies the invariant.
LEMMA InitInv == Init => IInv
<1> SUFFICES ASSUME Init PROVE IInv
    OBVIOUS
<1> USE DEF Init
<1>1. TypeOK
    BY DEF TypeOK, Stages
<1>2. CallsConsistent
    BY DEF CallsConsistent, Patching
<1>3. StampsPast
    BY DEF StampsPast, Patching
<1>4. StampsFresh /\ SnapshotsTell
    BY DEF StampsFresh, SnapshotsTell, Patching
<1>5. ConflictMeansRaced
    BY ReplyType, MarkersAssumption DEF ConflictMeansRaced, Codes
<1> QED
    BY <1>1, <1>2, <1>3, <1>4, <1>5 DEF IInv

\* A call at work has a key of the table, and a row that exists has its type.
LEMMA AtWork ==
    ASSUME TypeOK, CallsConsistent, NEW c \in Calls, pc[c] \in {"read", "send", "exec"}
    PROVE  /\ Key(c) \in Keys
           /\ rows[Key(c)] # Absent => rows[Key(c)] \in Rows
           /\ req[c].op = "put" => req[c].body \in Docs
           /\ req[c].op = "patch" => req[c].body \in Docs
<1>1. req[c] \in Requests /\ Accepted(req[c])
    BY DEF CallsConsistent
<1> QED
    BY <1>1, RequestType DEF Key, TypeOK

\* Every writing statement that takes effect keeps the invariant, whatever row
\* it leaves, because it leaves its own time on it.
LEMMA WriteInv ==
    ASSUME IInv, NEW c \in Calls, pc[c] = "exec",
           NEW row \in Rows \cup {Absent}, row # Absent => row.updated_at = stamp[c],
           NEW reply \in Replies, reply # Reply(409),
           WriteRow(c, row), Decide(c, reply),
           UNCHANGED <<clock, req, snap, stamp, answer>>
    PROVE  IInv'
<1>0. TypeOK /\ CallsConsistent /\ StampsPast /\ StampsFresh /\ SnapshotsTell
      /\ ConflictMeansRaced
    BY DEF IInv
<1>1. /\ Key(c) \in Keys
      /\ rows'[Key(c)] = row
      /\ \A k \in Keys \ {Key(c)} : rows'[k] = rows[k]
    BY <1>0, AtWork DEF WriteRow, TypeOK
<1>2. /\ pc'[c] = "done" /\ ~Patching(c)'
      /\ \A d \in Calls \ {c} : /\ pc'[d] = pc[d]
                                /\ Patching(d)' = Patching(d)
                                /\ raced'[d] = (raced[d] \/ (Patching(d) /\ Key(d) = Key(c)))
      /\ \A d \in Calls : Key(d)' = Key(d) /\ Patched(d)' = Patched(d)
    BY <1>0 DEF WriteRow, Decide, TypeOK, Patching, Key, Patched
<1>3. TypeOK'
    BY <1>0 DEF WriteRow, Decide, TypeOK, Stages
<1>4. CallsConsistent'
    BY <1>0, <1>2 DEF Decide, TypeOK, CallsConsistent
<1>5. StampsPast'
    BY <1>0, <1>1, <1>2 DEF StampsPast
<1>6. StampsFresh'
    BY <1>0, <1>1, <1>2 DEF StampsFresh
<1>7. SnapshotsTell'
    <2> SUFFICES ASSUME NEW d \in Calls, Patching(d)'
                 PROVE  /\ ~raced'[d] => rows'[Key(d)] = snap[d]
                        /\ raced'[d] => ~(/\ rows'[Key(d)] # Absent
                                          /\ rows'[Key(d)].updated_at = snap[d].updated_at)
        BY <1>2 DEF SnapshotsTell, Unchanged
    <2>1. d # c /\ Patching(d) /\ Key(d) \in Keys
        BY <1>0, <1>2, AtWork DEF Patching
    <2>2. CASE Key(d) = Key(c)
        <3>1. raced'[d]
            BY <1>2, <2>1, <2>2
        <3>2. row # Absent => row.updated_at # snap[d].updated_at
            BY <1>0, <2>1 DEF StampsFresh
        <3> QED
            BY <1>1, <2>2, <3>1, <3>2
    <2>3. CASE Key(d) # Key(c)
        <3>1. raced'[d] = raced[d]
            BY <1>0, <1>2, <2>1, <2>3 DEF TypeOK
        <3>2. rows'[Key(d)] = rows[Key(d)]
            BY <1>1, <2>1, <2>3
        <3> QED
            BY <1>0, <2>1, <3>1, <3>2 DEF SnapshotsTell, Unchanged
    <2> QED
        BY <2>2, <2>3
<1>8. ConflictMeansRaced'
    BY <1>0, <1>2 DEF Decide, TypeOK, ConflictMeansRaced, CallsConsistent, WriteRow
<1> QED
    BY <1>3, <1>4, <1>5, <1>6, <1>7, <1>8 DEF IInv

\* Every step of every handler and statement keeps the invariant.
LEMMA NextInv ==
    ASSUME FineClock, IInv, [Next]_vars
    PROVE  IInv'
<1>0. TypeOK /\ CallsConsistent /\ StampsPast /\ StampsFresh /\ SnapshotsTell
      /\ ConflictMeansRaced
    BY DEF IInv
<1>1. ASSUME NEW c \in Calls, Receive(c)
      PROVE  IInv'
    <2>0. PICK r \in Requests : /\ Accepted(r)
                                /\ req' = [req EXCEPT ![c] = r]
                                /\ pc' = [pc EXCEPT ![c] = FirstStage(r)]
        BY <1>1 DEF Receive
    <2>1. TypeOK'
        BY <1>0, <1>1 DEF Receive, FirstStage, TypeOK, Stages
    <2>2. CallsConsistent'
        <3>1. r.op \in {"get", "put", "patch", "delete"}
            BY <2>0, RequestType
        <3>2. FirstStage(r) \in {"read", "send"}
              /\ (FirstStage(r) = "read" <=> r.op \in {"get", "patch"})
            BY DEF FirstStage
        <3>3. ~Patching(c)'
            BY <1>0, <2>0, <3>1, <3>2 DEF Patching, TypeOK
        <3>4. pc[c] = "new" /\ due[c] = None /\ UNCHANGED <<snap, due, answer>>
            BY <1>0, <1>1 DEF Receive, CallsConsistent
        <3>5. \A d \in Calls \ {c} :
                  pc'[d] = pc[d] /\ req'[d] = req[d] /\ Patching(d)' = Patching(d)
                  /\ Patched(d)' = Patched(d)
            BY <1>0, <2>0, <3>4 DEF TypeOK, Patching, Patched, Key
        <3>6. pc'[c] = FirstStage(r) /\ req'[c] = r
            BY <1>0, <2>0 DEF TypeOK
        <3> QED
            BY <1>0, <2>0, <3>1, <3>2, <3>3, <3>4, <3>5, <3>6 DEF CallsConsistent
    <2>3. StampsPast'
        BY <1>0, <1>1 DEF Receive, FirstStage, TypeOK, CallsConsistent, StampsPast, Patching
    <2>4. StampsFresh'
        BY <1>0, <1>1 DEF Receive, FirstStage, TypeOK, CallsConsistent, StampsFresh, Patching
    <2>5. SnapshotsTell'
        BY <1>0, <1>1 DEF Receive, FirstStage, TypeOK, CallsConsistent, SnapshotsTell,
                          Patching, Unchanged, Key
    <2>6. ConflictMeansRaced'
        BY <1>0, <1>1 DEF Receive, ConflictMeansRaced
    <2> QED
        BY <2>1, <2>2, <2>3, <2>4, <2>5, <2>6 DEF IInv
<1>2. ASSUME NEW c \in Calls, Reject(c)
      PROVE  IInv'
    <2>1. TypeOK'
        BY <1>0, <1>2, ReplyType DEF Reject, TypeOK, Stages, Codes
    <2>2. CallsConsistent'
        BY <1>0, <1>2 DEF Reject, TypeOK, CallsConsistent, Patching, Patched, Key
    <2>3. StampsPast'
        BY <1>0, <1>2 DEF Reject, TypeOK, StampsPast, Patching
    <2>4. StampsFresh'
        BY <1>0, <1>2 DEF Reject, TypeOK, StampsFresh, Patching
    <2>5. SnapshotsTell'
        BY <1>0, <1>2 DEF Reject, TypeOK, SnapshotsTell, Patching, Unchanged, Key
    <2>6. ConflictMeansRaced'
        BY <1>0, <1>2, RepliesDiffer DEF Reject, TypeOK, ConflictMeansRaced
    <2> QED
        BY <2>1, <2>2, <2>3, <2>4, <2>5, <2>6 DEF IInv
<1>3. ASSUME NEW c \in Calls, GetItem(c)
      PROVE  IInv'
    <2>0. PICK reply \in Replies : Decide(c, reply) /\ reply # Reply(409)
        <3>1. pc[c] = "read"
            BY <1>3 DEF GetItem
        <3>2. CASE rows[Key(c)] = Absent
            BY <1>3, <3>2, ReplyType, RepliesDiffer DEF GetItem, Codes
        <3>3. CASE rows[Key(c)] # Absent
            <4>1. rows[Key(c)].data \in Docs /\ Key(c) \in Keys
                BY <1>0, <3>1, <3>3, AtWork, StoredAreDocs DEF Rows
            <4>2. ProjectFields(InjectKeys(rows[Key(c)].data, Key(c)), req[c].fields) \in Docs
                BY <4>1, InjectType, ProjectType
            <4> QED
                BY <1>3, <3>3, <4>2, ReplyType, RepliesDiffer DEF GetItem
        <3> QED
            BY <3>2, <3>3
    <2>1. TypeOK'
        BY <1>0, <1>3, <2>0 DEF GetItem, Decide, TypeOK, Stages
    <2>2. CallsConsistent'
        BY <1>0, <1>3 DEF GetItem, Decide, TypeOK, CallsConsistent, Patching, Patched, Key
    <2>3. StampsPast'
        BY <1>0, <1>3 DEF GetItem, Decide, TypeOK, StampsPast, Patching
    <2>4. StampsFresh'
        BY <1>0, <1>3 DEF GetItem, Decide, TypeOK, StampsFresh, Patching
    <2>5. SnapshotsTell'
        BY <1>0, <1>3 DEF GetItem, Decide, TypeOK, SnapshotsTell, Patching, Unchanged, Key
    <2>6. ConflictMeansRaced'
        BY <1>0, <1>3, <2>0 DEF GetItem, Decide, TypeOK, ConflictMeansRaced
    <2> QED
        BY <2>1, <2>2, <2>3, <2>4, <2>5, <2>6 DEF IInv
<1>4. ASSUME NEW c \in Calls, GetItemForUpdate(c)
      PROVE  IInv'
    <2>0. pc[c] = "read" /\ req[c].op = "patch" /\ UNCHANGED <<rows, clock, req, stamp, answer>>
        BY <1>4 DEF GetItemForUpdate
    <2>1. Key(c) \in Keys /\ (rows[Key(c)] # Absent => rows[Key(c)] \in Rows)
        BY <1>0, <2>0, AtWork
    <2>2. CASE UNCHANGED <<snap, raced>> /\ \E n \in {400, 404} : Decide(c, Reply(n))
        <3>0. PICK n \in {400, 404} : Decide(c, Reply(n))
            BY <2>2
        <3>1. TypeOK'
            BY <1>0, <2>0, <2>2, <3>0, ReplyType DEF Decide, TypeOK, Stages, Codes
        <3>2. CallsConsistent'
            BY <1>0, <2>0, <2>2, <3>0 DEF Decide, TypeOK, CallsConsistent, Patching, Patched, Key
        <3>3. StampsPast'
            BY <1>0, <2>0, <2>2, <3>0 DEF Decide, TypeOK, StampsPast, Patching
        <3>4. StampsFresh'
            BY <1>0, <2>0, <2>2, <3>0 DEF Decide, TypeOK, StampsFresh, Patching
        <3>5. SnapshotsTell'
            BY <1>0, <2>0, <2>2, <3>0 DEF Decide, TypeOK, SnapshotsTell, Patching, Unchanged, Key
        <3>6. ConflictMeansRaced'
            BY <1>0, <2>2, <3>0, RepliesDiffer DEF Decide, TypeOK, ConflictMeansRaced
        <3> QED
            BY <3>1, <3>2, <3>3, <3>4, <3>5, <3>6 DEF IInv
    <2>3. CASE /\ rows[Key(c)] # Absent
               /\ Merged(rows[Key(c)].data, req[c].body, Key(c)) \in Schema
               /\ snap' = [snap EXCEPT ![c] = rows[Key(c)]]
               /\ raced' = [raced EXCEPT ![c] = FALSE]
               /\ pc' = [pc EXCEPT ![c] = "send"]
               /\ UNCHANGED due
        <3>0. /\ snap'[c] = rows[Key(c)] /\ raced'[c] = FALSE /\ pc'[c] = "send"
              /\ Key(c)' = Key(c) /\ Patching(c)'
              /\ \A d \in Calls \ {c} : /\ pc'[d] = pc[d] /\ snap'[d] = snap[d]
                                        /\ raced'[d] = raced[d]
                                        /\ Patching(d)' = Patching(d)
            BY <1>0, <2>0, <2>3 DEF TypeOK, Key, Patching
        <3>1. TypeOK'
            BY <1>0, <2>0, <2>1, <2>3 DEF TypeOK, Stages
        <3>2. CallsConsistent'
            <4>1. Patched(c)' \in Schema
                BY <2>0, <2>3, <3>0 DEF Patched, Key
            <4>2. \A d \in Calls \ {c} : Patched(d)' = Patched(d)
                BY <2>0, <3>0 DEF Patched, Key
            <4> QED
                BY <1>0, <2>0, <2>1, <2>3, <3>0, <4>1, <4>2 DEF CallsConsistent
        <3>3. StampsPast'
            BY <1>0, <2>0, <2>1, <2>3, <3>0 DEF StampsPast
        <3>4. StampsFresh'
            BY <1>0, <2>0, <2>1, <2>3, <3>0 DEF StampsFresh
        <3>5. SnapshotsTell'
            BY <1>0, <2>0, <2>3, <3>0 DEF SnapshotsTell, Unchanged, Key
        <3>6. ConflictMeansRaced'
            BY <1>0, <2>0, <2>3, <3>0, MarkersAssumption, ReplyType
               DEF CallsConsistent, ConflictMeansRaced, Codes
        <3> QED
            BY <3>1, <3>2, <3>3, <3>4, <3>5, <3>6 DEF IInv
    <2> QED
        BY <1>4, <2>2, <2>3 DEF GetItemForUpdate
<1>5. ASSUME NEW c \in Calls, StartStatement(c)
      PROVE  IInv'
    <2>0. PICK e \in ClockAdvances : /\ clock' = clock + e
                                     /\ stamp' = [stamp EXCEPT ![c] = clock + e]
        BY <1>5 DEF StartStatement
    <2>1. clock \in Nat /\ clock' \in Nat /\ clock < clock'
        BY <1>0, <2>0, ClockAssumption DEF TypeOK, FineClock
    <2>2. /\ stamp'[c] = clock' /\ pc'[c] = "exec"
          /\ \A d \in Calls \ {c} : pc'[d] = pc[d] /\ stamp'[d] = stamp[d]
          /\ \A d \in Calls : Patching(d)' = Patching(d)
          /\ UNCHANGED <<rows, req, snap, raced, due, answer>>
        BY <1>0, <1>5, <2>0 DEF StartStatement, TypeOK, Patching
    <2>3. /\ \A d \in Calls : stamp[d] \in Nat
          /\ \A k \in Keys : rows[k] # Absent => rows[k].updated_at \in Nat
          /\ \A d \in Calls : Patching(d) => snap[d].updated_at \in Nat
        BY <1>0 DEF TypeOK, Rows, CallsConsistent
    <2>4. TypeOK'
        BY <1>0, <1>5, <2>0, <2>1 DEF StartStatement, TypeOK, Stages
    <2>5. CallsConsistent'
        BY <1>0, <1>5 DEF StartStatement, TypeOK, CallsConsistent, Patching, Patched, Key
    <2>6. StampsPast'
        BY <1>0, <2>1, <2>2, <2>3 DEF StampsPast
    <2>7. StampsFresh'
        <3>1. ASSUME NEW x \in Calls, pc'[x] = "exec"
              PROVE  /\ \A k \in Keys : rows'[k] # Absent => rows'[k].updated_at # stamp'[x]
                     /\ \A d \in Calls : Patching(d)' => snap'[d].updated_at # stamp'[x]
                     /\ \A d \in Calls : d # x /\ pc'[d] = "exec" => stamp'[d] # stamp'[x]
            <4>1. CASE x = c
                BY <1>0, <2>1, <2>2, <2>3, <4>1 DEF StampsPast
            <4>2. CASE x # c
                BY <1>0, <2>1, <2>2, <2>3, <3>1, <4>2 DEF StampsPast, StampsFresh
            <4> QED
                BY <4>1, <4>2
        <3> QED
            BY <3>1 DEF StampsFresh
    <2>8. SnapshotsTell'
        BY <1>0, <1>5 DEF StartStatement, TypeOK, SnapshotsTell, Patching, Unchanged, Key
    <2>9. ConflictMeansRaced'
        BY <1>0, <1>5 DEF StartStatement, ConflictMeansRaced
    <2> QED
        BY <2>4, <2>5, <2>6, <2>7, <2>8, <2>9 DEF IInv
<1>6. ASSUME NEW c \in Calls, PutItem(c)
      PROVE  IInv'
    <2> DEFINE stripped == StripKeys(req[c].body)
               row == [data |-> stripped, updated_at |-> stamp[c]]
               reply == ItemReply(InjectKeys(stripped, Key(c)))
    <2>1. /\ pc[c] = "exec" /\ WriteRow(c, row) /\ Decide(c, reply)
          /\ UNCHANGED <<clock, req, snap, stamp, answer>>
        BY <1>6 DEF PutItem
    <2>2. stripped \in StoredDocs /\ Key(c) \in Keys
        BY <1>0, <1>6, AtWork, StripType DEF PutItem
    <2>3. row \in Rows
        BY <1>0, <2>2 DEF Rows, TypeOK
    <2>4. reply \in Replies /\ reply # Reply(409)
        BY <2>2, StoredAreDocs, InjectType, ReplyType, RepliesDiffer
    <2>5. row.updated_at = stamp[c]
        OBVIOUS
    <2> HIDE DEF row, reply
    <2> QED
        BY <2>1, <2>3, <2>4, <2>5, WriteInv
<1>7. ASSUME NEW c \in Calls, PutItemIfUnchanged(c)
      PROVE  IInv'
    <2>0. pc[c] = "exec" /\ req[c].op = "patch" /\ Patching(c)
          /\ UNCHANGED <<clock, req, snap, stamp, answer>>
        BY <1>7 DEF PutItemIfUnchanged, Patching
    <2>1. CASE Unchanged(c)
        <3> DEFINE row == [data |-> StripKeys(Patched(c)), updated_at |-> stamp[c]]
                   reply == ItemReply(Patched(c))
        <3>1. WriteRow(c, row) /\ Decide(c, reply)
            BY <1>7, <2>1 DEF PutItemIfUnchanged
        <3>2. Patched(c) \in Docs
            BY <1>0, <2>0, SchemaAssumption DEF CallsConsistent
        <3>3. row \in Rows
            BY <1>0, <3>2, StripType DEF Rows, TypeOK
        <3>4. reply \in Replies /\ reply # Reply(409)
            BY <3>2, ReplyType, RepliesDiffer
        <3>5. row.updated_at = stamp[c]
            OBVIOUS
        <3> HIDE DEF row, reply
        <3> QED
            BY <2>0, <3>1, <3>3, <3>4, <3>5, WriteInv
    <2>2. CASE ~Unchanged(c)
        <3>1. Decide(c, Reply(409)) /\ UNCHANGED <<rows, raced>>
            BY <1>7, <2>2 DEF PutItemIfUnchanged
        <3>2. raced[c]
            BY <1>0, <2>0, <2>2, MarkersAssumption
               DEF SnapshotsTell, CallsConsistent, Unchanged, Rows
        <3>3. TypeOK'
            BY <1>0, <2>0, <3>1, ReplyType DEF Decide, TypeOK, Stages, Codes
        <3>4. CallsConsistent'
            BY <1>0, <2>0, <3>1 DEF Decide, TypeOK, CallsConsistent, Patching, Patched, Key
        <3>5. StampsPast'
            BY <1>0, <2>0, <3>1 DEF Decide, TypeOK, StampsPast, Patching
        <3>6. StampsFresh'
            BY <1>0, <2>0, <3>1 DEF Decide, TypeOK, StampsFresh, Patching
        <3>7. SnapshotsTell'
            BY <1>0, <2>0, <3>1 DEF Decide, TypeOK, SnapshotsTell, Patching, Unchanged, Key
        <3>8. ConflictMeansRaced'
            BY <1>0, <3>1, <3>2 DEF Decide, TypeOK, ConflictMeansRaced
        <3> QED
            BY <3>3, <3>4, <3>5, <3>6, <3>7, <3>8 DEF IInv
    <2> QED
        BY <2>1, <2>2
<1>8. ASSUME NEW c \in Calls, DeleteItem(c)
      PROVE  IInv'
    BY <1>8, WriteInv, ReplyType, RepliesDiffer DEF DeleteItem, Codes
<1>9. ASSUME NEW c \in Calls, Respond(c)
      PROVE  IInv'
    <2>1. TypeOK'
        BY <1>0, <1>9 DEF Respond, TypeOK
    <2>2. CallsConsistent'
        BY <1>0, <1>9 DEF Respond, TypeOK, CallsConsistent, Patching, Patched, Key
    <2>3. StampsPast' /\ StampsFresh' /\ ConflictMeansRaced'
        BY <1>0, <1>9 DEF Respond, StampsPast, StampsFresh, ConflictMeansRaced, Patching
    <2>4. SnapshotsTell'
        BY <1>0, <1>9 DEF Respond, SnapshotsTell, Patching, Unchanged, Key
    <2> QED
        BY <2>1, <2>2, <2>3, <2>4 DEF IInv
<1>10. ASSUME NEW c \in Calls, Fail(c)
       PROVE  IInv'
    <2>1. TypeOK'
        BY <1>0, <1>10, ReplyType DEF Fail, TypeOK, Stages, Codes
    <2>2. CallsConsistent'
        BY <1>0, <1>10 DEF Fail, TypeOK, CallsConsistent, Patching, Patched, Key
    <2>3. StampsPast'
        BY <1>0, <1>10 DEF Fail, TypeOK, StampsPast, Patching
    <2>4. StampsFresh'
        BY <1>0, <1>10 DEF Fail, TypeOK, StampsFresh, Patching
    <2>5. SnapshotsTell'
        BY <1>0, <1>10 DEF Fail, TypeOK, SnapshotsTell, Patching, Unchanged, Key
    <2>6. ConflictMeansRaced'
        BY <1>0, <1>10 DEF Fail, ConflictMeansRaced
    <2> QED
        BY <2>1, <2>2, <2>3, <2>4, <2>5, <2>6 DEF IInv
<1>11. CASE UNCHANGED vars
    BY <1>0, <1>11 DEF vars, IInv, TypeOK, CallsConsistent, StampsPast, StampsFresh,
                       SnapshotsTell, ConflictMeansRaced, Patching, Patched, Unchanged, Key
<1> QED
    BY <1>1, <1>2, <1>3, <1>4, <1>5, <1>6, <1>7, <1>8, <1>9, <1>10, <1>11 DEF Next, Step

-----------------------------------------------------------------------------
(* What holds of every behaviour.                                          *)

\* With a clock that tells write statements apart the invariant always holds.
THEOREM Invariance == FineClock => (Spec => []IInv)
<1> SUFFICES ASSUME FineClock PROVE Spec => []IInv
    OBVIOUS
<1>1. Init => IInv
    BY InitInv
<1>2. IInv /\ [Next]_vars => IInv'
    BY NextInv
<1> QED
    BY <1>1, <1>2, PTL DEF Spec

\* The variables keep their types; rows never hold a key field (store.go:148).
THEOREM TypeCorrect == FineClock => (Spec => []TypeOK)
<1> SUFFICES ASSUME FineClock PROVE Spec => []TypeOK
    OBVIOUS
<1>1. Spec => []IInv
    BY Invariance
<1>2. IInv => TypeOK
    BY DEF IInv
<1> QED
    BY <1>1, <1>2, PTL

\* The inductive invariant excludes lost updates.
LEMMA InvNoLostUpdate == IInv => NoLostUpdate
BY DEF IInv, SnapshotsTell, NoLostUpdate

\* A PATCH whose conditional UPDATE hits has seen every write to its row
\* (item.go:216-243, store.go:183).
THEOREM LostUpdatesExcluded == FineClock => (Spec => []NoLostUpdate)
<1> SUFFICES ASSUME FineClock PROVE Spec => []NoLostUpdate
    OBVIOUS
<1>1. Spec => []IInv
    BY Invariance
<1> QED
    BY <1>1, InvNoLostUpdate, PTL

\* A 409 is answered only to a PATCH another write has overtaken (item.go:240).
THEOREM ConflictsJustified == FineClock => (Spec => []ConflictMeansRaced)
<1> SUFFICES ASSUME FineClock PROVE Spec => []ConflictMeansRaced
    OBVIOUS
<1>1. Spec => []IInv
    BY Invariance
<1>2. IInv => ConflictMeansRaced
    BY DEF IInv
<1> QED
    BY <1>1, <1>2, PTL

-----------------------------------------------------------------------------
(* What is stored.                                                         *)

\* Each writer leaves a row that is valid under its key.
LEMMA NextStored ==
    ASSUME SchemaAcceptsKeys, IInv, StoredValid, [Next]_vars
    PROVE  StoredValid'
<1>0. TypeOK /\ CallsConsistent
    BY DEF IInv
<1>1. ASSUME NEW c \in Calls, pc[c] = "exec", NEW row, WriteRow(c, row),
             row = Absent \/ InjectKeys(row.data, Key(c)) \in Schema
      PROVE  StoredValid'
    <2>1. /\ rows'[Key(c)] = row
          /\ \A k \in Keys \ {Key(c)} : rows'[k] = rows[k]
        BY <1>0, <1>1, AtWork DEF WriteRow, TypeOK
    <2> QED
        BY <1>1, <2>1 DEF StoredValid
<1>2. ASSUME NEW c \in Calls, PutItem(c)
      PROVE  StoredValid'
    <2> DEFINE stripped == StripKeys(req[c].body)
               row == [data |-> stripped, updated_at |-> stamp[c]]
    <2>1. pc[c] = "exec" /\ req[c].op = "put" /\ WriteRow(c, row)
        BY <1>2 DEF PutItem
    <2>2. /\ req[c].body \in Docs /\ req[c].body \in Schema /\ Key(c) \in Keys
          /\ \A f \in KeyFields : req[c].body[f] \in {Missing, Key(c)[f]}
        BY <1>0, <2>1, RequestType DEF CallsConsistent, AcceptedPut, Key
    <2>3. InjectKeys(req[c].body, Key(c)) \in Schema
        BY <2>2 DEF SchemaAcceptsKeys
    <2>4. InjectKeys(row.data, Key(c)) \in Schema
        BY <2>2, <2>3, InjectStrip
    <2> HIDE DEF row
    <2> QED
        BY <1>1, <2>1, <2>4
<1>3. ASSUME NEW c \in Calls, PutItemIfUnchanged(c)
      PROVE  StoredValid'
    <2>0. pc[c] = "exec" /\ req[c].op = "patch" /\ Patching(c)
        BY <1>3 DEF PutItemIfUnchanged, Patching
    <2>1. CASE ~Unchanged(c)
        BY <1>3, <2>1 DEF PutItemIfUnchanged, StoredValid
    <2>2. CASE Unchanged(c)
        <3> DEFINE row == [data |-> StripKeys(Patched(c)), updated_at |-> stamp[c]]
        <3>1. WriteRow(c, row)
            BY <1>3, <2>2 DEF PutItemIfUnchanged
        <3>2. snap[c].data \in Docs /\ req[c].body \in Docs /\ Key(c) \in Keys
              /\ Patched(c) \in Schema
            BY <1>0, <2>0, AtWork, StoredAreDocs DEF CallsConsistent, Rows
        <3>3. InjectKeys(row.data, Key(c)) \in Schema
            BY <3>2, MergedStored DEF Patched
        <3> HIDE DEF row
        <3> QED
            BY <1>1, <2>0, <3>1, <3>3
    <2> QED
        BY <2>1, <2>2
<1>4. ASSUME NEW c \in Calls, DeleteItem(c)
      PROVE  StoredValid'
    BY <1>1, <1>4 DEF DeleteItem
<1>5. CASE UNCHANGED rows
    BY <1>5 DEF StoredValid
<1> QED
    BY <1>2, <1>3, <1>4, <1>5
       DEF Next, Step, vars, Receive, Reject, GetItem, GetItemForUpdate,
           StartStatement, Respond, Fail

\* Under a schema that accepts the key fields, every stored row is a document
\* of the schema under its key, whatever the writers do (item.go:127-133,
\* 226-235).
THEOREM StoredAlwaysValid == FineClock /\ SchemaAcceptsKeys => (Spec => []StoredValid)
<1> SUFFICES ASSUME FineClock, SchemaAcceptsKeys PROVE Spec => []StoredValid
    OBVIOUS
<1>1. Spec => []IInv
    BY Invariance
<1>2. Init => StoredValid
    BY DEF Init, StoredValid
<1>3. IInv /\ StoredValid /\ [Next]_vars => StoredValid'
    BY NextStored
<1> QED
    BY <1>1, <1>2, <1>3, PTL DEF Spec

-----------------------------------------------------------------------------
(* The handlers implement the atomic store.                                *)

\* Both specifications speak of the same documents, requests and responses.
LEMMA SameModel ==
    /\ Atomic!Keys = Keys
    /\ Atomic!Requests = Requests
    /\ \A r : Atomic!Accepted(r) = Accepted(r)
    /\ \A n : Atomic!Reply(n) = Reply(n)
    /\ \A d : Atomic!ItemReply(d) = ItemReply(d)
    /\ \A d : Atomic!StripKeys(d) = StripKeys(d)
    /\ \A d, k : Atomic!InjectKeys(d, k) = InjectKeys(d, k)
    /\ \A d, p, k : Atomic!Merged(d, p, k) = Merged(d, p, k)
    /\ \A d, fs : Atomic!ProjectFields(d, fs) = ProjectFields(d, fs)
<1>1. Atomic!Paths = Paths /\ Atomic!Keys = Keys
    BY DEF Atomic!Paths, Paths, Atomic!Keys, Keys
<1>2. Atomic!Requests = Requests
    BY <1>1 DEF Atomic!Requests, Requests
<1>3. \A r : Atomic!Accepted(r) = Accepted(r)
    BY <1>1 DEF Atomic!Accepted, Accepted, Atomic!AcceptedPut, AcceptedPut,
                Atomic!AcceptedPatch, AcceptedPatch
<1>4. /\ \A n : Atomic!Reply(n) = Reply(n)
      /\ \A d : Atomic!ItemReply(d) = ItemReply(d)
    BY DEF Atomic!Reply, Reply, Atomic!ItemReply, ItemReply
<1>5. /\ \A d : Atomic!StripKeys(d) = StripKeys(d)
      /\ \A d, k : Atomic!InjectKeys(d, k) = InjectKeys(d, k)
    BY DEF Atomic!StripKeys, StripKeys, Atomic!InjectKeys, InjectKeys
<1>6. \A d, p : Atomic!MergePatch(d, p) = MergePatch(d, p)
    BY DEF Atomic!MergePatch, MergePatch
<1>7. \A d, p, k : Atomic!Merged(d, p, k) = Merged(d, p, k)
    BY <1>5, <1>6 DEF Atomic!Merged, Merged
<1>8. \A d, fs : Atomic!ProjectFields(d, fs) = ProjectFields(d, fs)
    BY DEF Atomic!ProjectFields, ProjectFields
<1> QED
    BY <1>1, <1>2, <1>3, <1>4, <1>5, <1>7, <1>8

\* An empty table is the empty store.
LEMMA InitAtomic == Init => Atomic!Init
BY SameModel DEF Init, Atomic!Init

\* Every step is a step of the atomic store or leaves it as it is: a write
\* takes effect when its statement does, a PATCH too, although it computed
\* its row earlier (NoLostUpdate), and a read or a refusal when it is decided.
LEMMA NextAtomic ==
    ASSUME IInv, [Next]_vars
    PROVE  [Atomic!Next]_Atomic!vars
<1> DEFINE items == [k \in Keys |-> IF rows[k] = Absent THEN Absent ELSE rows[k].data]
<1>0. TypeOK /\ CallsConsistent
    BY DEF IInv
<1>1. ASSUME NEW c \in Calls, Receive(c)
      PROVE  Atomic!Ask(c)
    BY <1>0, <1>1, SameModel DEF Receive, Atomic!Ask, CallsConsistent
<1>2. ASSUME NEW c \in Calls, Reject(c)
      PROVE  Atomic!Refuse(c)
    BY <1>0, <1>2, SameModel DEF Reject, Atomic!Refuse, CallsConsistent
<1>3. ASSUME NEW c \in Calls, NEW stored, NEW row, pc[c] = "exec",
             WriteRow(c, row), stored = IF row = Absent THEN Absent ELSE row.data
      PROVE  items' = [items EXCEPT ![Key(c)] = stored]
    <2>1. Key(c) \in Keys
        BY <1>0, <1>3, AtWork
    <2> QED
        BY <1>0, <1>3, <2>1 DEF WriteRow, TypeOK
<1>4. ASSUME NEW c \in Calls, pc[c] \in {"read", "exec"}
      PROVE  /\ req[c] # None /\ due[c] = None
             /\ Key(c) \in Keys /\ Key(c) = req[c].key
             /\ items[Key(c)] = IF rows[Key(c)] = Absent THEN Absent ELSE rows[Key(c)].data
             /\ rows[Key(c)] # Absent => items[Key(c)] # Absent
             /\ UNCHANGED rows => items' = [items EXCEPT ![Key(c)] = items[Key(c)]]
    <2>1. Key(c) \in Keys /\ (rows[Key(c)] # Absent => rows[Key(c)] \in Rows)
        BY <1>0, <1>4, AtWork
    <2>2. req[c] # None /\ due[c] = None
        BY <1>0, <1>4, MarkersAssumption DEF CallsConsistent
    <2>3. rows[Key(c)] # Absent => rows[Key(c)].data # Absent
        BY <2>1, MarkersAssumption DEF Rows
    <2>4. UNCHANGED rows => items' = [items EXCEPT ![Key(c)] = items[Key(c)]]
        OBVIOUS
    <2> QED
        BY <2>1, <2>2, <2>3, <2>4 DEF Key
<1>5. ASSUME NEW c \in Calls, GetItem(c)
      PROVE  Atomic!Get(c)
    <2> DEFINE reply == IF items[Key(c)] = Absent THEN Reply(404)
                        ELSE ItemReply(ProjectFields(InjectKeys(items[Key(c)], Key(c)),
                                                     req[c].fields))
    <2>1. pc[c] = "read" /\ req[c].op = "get" /\ UNCHANGED <<rows, req, answer>>
        BY <1>5 DEF GetItem
    <2>2. Decide(c, reply)
        BY <1>4, <1>5, <2>1 DEF GetItem
    <2>3. reply = IF items[Key(c)] = Absent THEN Atomic!Reply(404)
                  ELSE Atomic!ItemReply(Atomic!ProjectFields(
                           Atomic!InjectKeys(items[Key(c)], Key(c)), req[c].fields))
        BY SameModel
    <2>4. /\ items' = [items EXCEPT ![req[c].key] = items[req[c].key]]
          /\ due' = [due EXCEPT ![c] = reply]
          /\ req[c] # None /\ due[c] = None
          /\ Key(c) = req[c].key
        BY <1>4, <2>1, <2>2 DEF Decide
    <2> HIDE DEF reply, items
    <2> QED
        BY <2>1, <2>3, <2>4 DEF Atomic!Get, Atomic!Open, Atomic!Takes, items
<1>6. ASSUME NEW c \in Calls, GetItemForUpdate(c)
      PROVE  Atomic!Patch(c) \/ UNCHANGED Atomic!vars
    <2>0. pc[c] = "read" /\ req[c].op = "patch" /\ UNCHANGED <<rows, req, answer>>
        BY <1>6 DEF GetItemForUpdate
    <2>1. CASE rows[Key(c)] = Absent
        BY <1>4, <1>6, <2>0, <2>1, SameModel
           DEF GetItemForUpdate, Decide, Atomic!Patch, Atomic!Open, Atomic!Takes
    <2>2. CASE /\ rows[Key(c)] # Absent
               /\ Merged(rows[Key(c)].data, req[c].body, Key(c)) \notin Schema
        BY <1>4, <1>6, <2>0, <2>2, SameModel
           DEF GetItemForUpdate, Decide, Atomic!Patch, Atomic!Open, Atomic!Takes
    <2>3. CASE /\ rows[Key(c)] # Absent
               /\ Merged(rows[Key(c)].data, req[c].body, Key(c)) \in Schema
        BY <1>6, <2>0, <2>3 DEF GetItemForUpdate, Atomic!vars
    <2> QED
        BY <2>1, <2>2, <2>3
<1>7. ASSUME NEW c \in Calls, StartStatement(c)
      PROVE  UNCHANGED Atomic!vars
    BY <1>7 DEF StartStatement, Atomic!vars
<1>8. ASSUME NEW c \in Calls, PutItem(c)
      PROVE  Atomic!Put(c)
    <2> DEFINE stripped == StripKeys(req[c].body)
               row == [data |-> stripped, updated_at |-> stamp[c]]
    <2>1. pc[c] = "exec" /\ req[c].op = "put" /\ WriteRow(c, row)
          /\ Decide(c, ItemReply(InjectKeys(stripped, Key(c))))
          /\ UNCHANGED <<req, answer>>
        BY <1>8 DEF PutItem
    <2>2. row # Absent /\ row.data = stripped
        <3>1. stripped \in StoredDocs
            BY <1>0, <2>1, AtWork, StripType
        <3> QED
            BY <1>0, <3>1, MarkersAssumption DEF TypeOK
    <2>3. items' = [items EXCEPT ![Key(c)] = stripped]
        BY <1>3, <2>1, <2>2
    <2> QED
        BY <1>4, <2>1, <2>3, SameModel DEF Decide, Atomic!Put, Atomic!Open, Atomic!Takes
<1>9. ASSUME NEW c \in Calls, PutItemIfUnchanged(c)
      PROVE  Atomic!Patch(c) \/ Atomic!Conflict(c)
    <2>0. pc[c] = "exec" /\ req[c].op = "patch" /\ Patching(c) /\ UNCHANGED <<req, answer>>
        BY <1>9 DEF PutItemIfUnchanged, Patching
    <2>1. CASE ~Unchanged(c)
        BY <1>4, <1>9, <2>0, <2>1, SameModel
           DEF PutItemIfUnchanged, Decide, Atomic!Conflict, Atomic!Open, Atomic!Takes
    <2>2. CASE Unchanged(c)
        <3> DEFINE row == [data |-> StripKeys(Patched(c)), updated_at |-> stamp[c]]
        <3>1. WriteRow(c, row) /\ Decide(c, ItemReply(Patched(c)))
            BY <1>9, <2>2 DEF PutItemIfUnchanged
        <3>2. rows[Key(c)] = snap[c] /\ rows[Key(c)] # Absent
            BY <2>0, <2>2, InvNoLostUpdate DEF NoLostUpdate, Unchanged
        <3>3. Patched(c) = Merged(items[Key(c)], req[c].body, Key(c)) /\ Patched(c) \in Schema
            BY <1>0, <1>4, <2>0, <3>2 DEF Patched, CallsConsistent
        <3>4. row # Absent /\ row.data = StripKeys(Patched(c))
            <4>1. StripKeys(Patched(c)) \in StoredDocs
                BY <3>3, StripType, SchemaAssumption
            <4> QED
                BY <1>0, <4>1, MarkersAssumption DEF TypeOK
        <3>5. items' = [items EXCEPT ![Key(c)] = StripKeys(Patched(c))]
            BY <1>3, <2>0, <3>1, <3>4
        <3>6. /\ req[c] # None /\ due[c] = None /\ req[c].op = "patch"
              /\ items[req[c].key] # Absent
              /\ Patched(c) = Atomic!Merged(items[req[c].key], req[c].body, req[c].key)
              /\ Patched(c) \in Schema
            BY <1>4, <2>0, <3>2, <3>3, SameModel
        <3>7. /\ items' = [items EXCEPT ![req[c].key] = Atomic!StripKeys(Patched(c))]
              /\ due' = [due EXCEPT ![c] = Atomic!ItemReply(Patched(c))]
            BY <1>4, <2>0, <3>1, <3>5, SameModel DEF Decide
        <3> HIDE DEF items
        <3> QED
            BY <2>0, <3>6, <3>7 DEF Atomic!Patch, Atomic!Open, Atomic!Takes, items
    <2> QED
        BY <2>1, <2>2
<1>10. ASSUME NEW c \in Calls, DeleteItem(c)
       PROVE  Atomic!Delete(c)
    <2>1. items' = [items EXCEPT ![Key(c)] = Absent]
        BY <1>3, <1>10 DEF DeleteItem
    <2> QED
        BY <1>4, <1>10, <2>1, SameModel DEF DeleteItem, Decide, Atomic!Delete, Atomic!Open, Atomic!Takes
<1>11. ASSUME NEW c \in Calls, Respond(c)
       PROVE  Atomic!Answer(c)
    BY <1>11 DEF Respond, Atomic!Answer
<1>12. ASSUME NEW c \in Calls, Fail(c)
       PROVE  Atomic!Fail(c)
    BY <1>0, <1>12, MarkersAssumption, SameModel DEF Fail, Atomic!Fail, CallsConsistent
<1>13. CASE UNCHANGED vars
    BY <1>13 DEF vars, Atomic!vars
<1> QED
    BY <1>1, <1>2, <1>5, <1>6, <1>7, <1>8, <1>9, <1>10, <1>11, <1>12, <1>13
       DEF Next, Step, Atomic!Next

\* Clients cannot tell the handlers from a store whose operations are atomic.
THEOREM Implementation == FineClock => (Spec => ImplementsAtomic)
<1> SUFFICES ASSUME FineClock PROVE Spec => ImplementsAtomic
    OBVIOUS
<1>1. Spec => []IInv
    BY Invariance
<1>2. Init => Atomic!Init
    BY InitAtomic
<1>3. IInv /\ [Next]_vars => [Atomic!Next]_Atomic!vars
    BY NextAtomic
<1> QED
    BY <1>1, <1>2, <1>3, PTL DEF Spec, ImplementsAtomic, Atomic!Spec
=============================================================================
