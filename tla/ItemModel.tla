----------------------------- MODULE ItemModel -----------------------------
(***************************************************************************)
(* The documents of one table and the pure functions the handlers apply to *)
(* them: key injection and stripping, the merge of a PATCH body, the       *)
(* projection of a response, and the checks a request must pass before the *)
(* store is called (internal/model, internal/validate and the first half   *)
(* of each handler in internal/handler/item.go).                           *)
(*                                                                         *)
(* A JSON object is a total function from Fields; Missing marks a property *)
(* the object does not have.  A property's value is opaque here: objects   *)
(* nested in a property are values like any other, so the merge is the     *)
(* first level of the code's recursive one.                                *)
(***************************************************************************)
CONSTANTS
    Fields,        \* property names the schema declares, key fields included
    KeyFields,     \* the primary key's field, and the range key's if any
    Values,        \* property values, JSON null included
    Null,          \* JSON null
    Missing,       \* the property is not in the object
    KeyPattern,    \* per key field: the values its two checks accept
    Schema,        \* the objects the table's compiled JSON schema accepts
    PutBodies,     \* request bodies a PUT may carry
    PatchBodies,   \* request bodies a PATCH may carry
    Malformed,     \* a body that cannot be read, is no JSON object or has
                   \* an illegal property name
    FieldSets,     \* values of the ?fields= parameter, {} when not given
    NoBody         \* no body at all

Docs == [Fields -> Values \cup {Missing}]

ASSUME KeyFieldsAssumption == KeyFields \subseteq Fields
ASSUME ValuesAssumption    == Null \in Values /\ Missing \notin Values
ASSUME PatternAssumption   == /\ KeyPattern \in [KeyFields -> SUBSET Values]
                              /\ \A f \in KeyFields : Null \notin KeyPattern[f]
ASSUME SchemaAssumption    == Schema \subseteq Docs
ASSUME BodiesAssumption    == /\ PutBodies \subseteq Docs \cup {Malformed}
                              /\ PatchBodies \subseteq Docs \cup {Malformed}
                              /\ Malformed \notin Docs
                              /\ NoBody \notin Docs \cup {Malformed}
ASSUME FieldSetsAssumption == FieldSets \subseteq SUBSET Fields

\* The path of a request names a value for every key field; the keys of rows
\* are the paths that pass ValidateKeyValue and ValidateKeyPattern.
Paths == [KeyFields -> Values]
Keys  == {p \in Paths : \A f \in KeyFields : p[f] \in KeyPattern[f]}

\* What the data column holds: an object without the key fields.
StoredDocs == {d \in Docs : \A f \in KeyFields : d[f] = Missing}

\* Mutant: nothing is stripped.
KeepsKeys(d) == d
StripKeys(d) == [f \in Fields |-> IF f \in KeyFields THEN Missing ELSE d[f]]

InjectKeys(d, k) == [f \in Fields |-> IF f \in KeyFields THEN k[f] ELSE d[f]]

\* Null removes, a missing property leaves alone, any other value replaces.
MergePatch(target, patch) ==
    [f \in Fields |-> CASE patch[f] = Null    -> Missing
                        [] patch[f] = Missing -> target[f]
                        [] OTHER              -> patch[f]]

\* mergedWithKeys of the PATCH handler.
Merged(target, patch, k) == InjectKeys(MergePatch(target, patch), k)

\* An empty field list projects nothing away; key fields are always kept.
ProjectFields(d, fields) ==
    IF fields = {} THEN d
    ELSE [f \in Fields |-> IF f \in fields \cup KeyFields THEN d[f] ELSE Missing]

-----------------------------------------------------------------------------
(* Requests, and what the handlers refuse with 400 before any statement.   *)

Requests ==
    [op : {"get"}, key : Paths, body : {NoBody}, fields : FieldSets]
    \cup [op : {"put"}, key : Paths, body : PutBodies, fields : {{}}]
    \cup [op : {"patch"}, key : Paths, body : PatchBodies, fields : {{}}]
    \cup [op : {"delete"}, key : Paths, body : {NoBody}, fields : {{}}]

\* Mutant: the body is not checked against the schema.
PutWithoutSchema(r) ==
    /\ r.body # Malformed
    /\ \A f \in KeyFields : r.body[f] \in {Missing, r.key[f]}

\* PUT: the body is checked against the schema as it was sent; a key field it
\* carries has to agree with the path, one it leaves out is not asked for.
AcceptedPut(r) ==
    /\ r.body # Malformed
    /\ \A f \in KeyFields : r.body[f] \in {Missing, r.key[f]}
    /\ r.body \in Schema

\* PATCH: every key field is required in the body and has to agree.
AcceptedPatch(r) ==
    /\ r.body # Malformed
    /\ \A f \in KeyFields : r.body[f] = r.key[f]

Accepted(r) ==
    /\ r.key \in Keys
    /\ r.op = "put" => AcceptedPut(r)
    /\ r.op = "patch" => AcceptedPatch(r)

-----------------------------------------------------------------------------
(* Responses: a status and, for a 200, the document.                       *)

Codes == {200, 204, 400, 404, 409, 500}
Replies == [code : Codes, body : Docs \cup {NoBody}]

Reply(code) == [code |-> code, body |-> NoBody]
ItemReply(d) == [code |-> 200, body |-> d]

\* The schema accepts a document it accepts also after the path's key values
\* are added.  The configuration check does not demand this: it only asks that
\* the key properties are strings with some pattern.
SchemaAcceptsKeys ==
    \A d \in Schema, k \in Keys :
        (\A f \in KeyFields : d[f] \in {Missing, k[f]}) => InjectKeys(d, k) \in Schema
=============================================================================
