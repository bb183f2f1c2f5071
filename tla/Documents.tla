----------------------------- MODULE Documents -----------------------------
(***************************************************************************)
(* JSON documents at their full depth, and the functions the service       *)
(* applies to them: the merge of a PATCH body, key injection and stripping,*)
(* projections, the check of property names (internal/model,               *)
(* internal/validate), and table schemas: which definitions are accepted   *)
(* and which documents a compiled schema accepts (internal/schema).        *)
(*                                                                         *)
(* A JSON value is a record with its type; an object holds a function from *)
(* its property names.  Schemas are JSON values too.                       *)
(*                                                                         *)
(* Most of these functions recurse.  Each is written as what it does at    *)
(* one level of a document, with what it does below as a parameter; below  *)
(* the outermost level that is one of the constants, for which module      *)
(* Nesting has the recursive function itself.  So what is proved about the *)
(* outermost level holds whatever happens below it.                        *)
(***************************************************************************)
EXTENDS Integers, Sequences, FiniteSets, Functions, TLC

CONSTANTS
    JsonKeys,   \* the property names jsonKeyRegexp matches
    Matches,    \* pattern -> the strings it matches; no other pattern compiles
    Arguments,  \* keyword of a schema -> what it may be given, of those that
                \* Compiles does not say it of; any value when not in the domain
    Satisfies(_, _, _),   \* what a string, number or array, a keyword of
                \* ValueKeywords and its argument are to each other
    \* What the functions below do with the members and elements of a document.
    JsonBelow(_), MergeBelow(_, _), RfcBelow(_, _), HoldsNullBelow(_), NullsMeetBelow(_, _),
    LegalBelow(_), NamesBelow(_),
    ValidBelow(_), CompilesBelow(_), AcceptsBelow(_, _), TypedBelow(_), UndeclaredBelow(_, _)

Null    == [t |-> "null"]
Bool(b) == [t |-> "boolean", b |-> b]
Str(s)  == [t |-> "string", s |-> s]
Num(n)  == [t |-> "number", n |-> n]   \* whole if n is in Int
Arr(q)  == [t |-> "array", q |-> q]
Obj(m)  == [t |-> "object", m |-> m]

IsObj(v) == v.t = "object"
Has(m, name) == name \in DOMAIN m
HasObj(m, name) == Has(m, name) /\ IsObj(m[name])

\* The members of m without those of the given names, and no others than those.
Without(m, names) == Restrict(m, DOMAIN m \ names)
Only(m, names) == Restrict(m, DOMAIN m \cap names)
\* The members of m, and those of others that m does not have.
Over(m, others) ==
    [k \in DOMAIN m \cup DOMAIN others |-> IF k \in DOMAIN m THEN m[k] ELSE others[k]]

\* An object is its members, at every depth.
JsonLevel(Json(_), v) ==
    IsObj(v) => /\ v = Obj(v.m)
                /\ v.m = [k \in DOMAIN v.m |-> v.m[k]]
                /\ \A k \in DOMAIN v.m : Json(v.m[k])
IsJson(v) == JsonLevel(JsonBelow, v)

-----------------------------------------------------------------------------
(* Merge patches, of two objects' members.                                 *)

Nulls(m) == {k \in DOMAIN m : m[k] = Null}

\* Mutant: nested objects are replaced like any other value.
FlatMergePatch(target, patch) == Without(Over(patch, target), Nulls(patch))

MergeLevel(Merge(_, _), target, patch) ==
    LET new == [k \in DOMAIN patch \ Nulls(patch) |->
                    IF IsObj(patch[k]) /\ HasObj(target, k)
                    THEN Obj(Merge(target[k].m, patch[k].m))
                    ELSE patch[k]]
    IN  Over(new, Without(target, Nulls(patch)))
MergePatch(target, patch) == MergeLevel(MergeBelow, target, patch)

\* The function MergePatch of RFC 7396, section 2, of two values.
RfcLevel(Rfc(_, _), target, patch) ==
    IF ~IsObj(patch) THEN patch
    ELSE LET base == IF IsObj(target) THEN target.m ELSE <<>>
             new  == [k \in DOMAIN patch.m \ Nulls(patch.m) |->
                         Rfc(IF Has(base, k) THEN base[k] ELSE Null, patch.m[k])]
         IN  Obj(Over(new, Without(base, Nulls(patch.m))))
Rfc7396(target, patch) == RfcLevel(RfcBelow, target, patch)

\* An object in the patch brings a null to where the target has no object.
HoldsNullLevel(Holds(_), v) ==
    IsObj(v) /\ \E k \in DOMAIN v.m : v.m[k] = Null \/ Holds(v.m[k])
HoldsNull(v) == HoldsNullLevel(HoldsNullBelow, v)
NullsMeetLevel(Meet(_, _), Holds(_), target, patch) ==
    \E k \in DOMAIN patch :
        /\ IsObj(patch[k])
        /\ IF HasObj(target, k) THEN Meet(target[k].m, patch[k].m) ELSE Holds(patch[k])
NullsMeetNoObject(target, patch) ==
    NullsMeetLevel(NullsMeetBelow, HoldsNullBelow, target, patch)

-----------------------------------------------------------------------------
(* Property names.                                                         *)

\* Mutant: only the names of the outermost object are checked.
ValidOuterKeys(v) == IsObj(v) => DOMAIN v.m \subseteq JsonKeys

LegalLevel(Legal(_), v) ==
    CASE v.t = "object" -> /\ DOMAIN v.m \subseteq JsonKeys
                           /\ \A k \in DOMAIN v.m : Legal(v.m[k])
      [] v.t = "array"  -> \A i \in DOMAIN v.q : Legal(v.q[i])
      [] OTHER          -> TRUE
ValidateJSONKeys(v) == LegalLevel(LegalBelow, v)

\* The names of a document, at every depth.
NamesLevel(Names(_), v) ==
    CASE v.t = "object" -> DOMAIN v.m \cup UNION {Names(v.m[k]) : k \in DOMAIN v.m}
      [] v.t = "array"  -> UNION {Names(v.q[i]) : i \in DOMAIN v.q}
      [] OTHER          -> {}
NamesIn(v) == NamesLevel(NamesBelow, v)

-----------------------------------------------------------------------------
(* Schema definitions.                                                     *)

\* Keywords that bound a value which is no object, by its type; keywords about a
\* document as a whole, and those that bound nothing.  Every other keyword is
\* unsupported.
ValueKeywords ==
    [string |-> {"minLength", "maxLength"},
     number |-> {"minimum", "maximum", "exclusiveMinimum", "exclusiveMaximum", "multipleOf"},
     array  |-> {"minItems", "maxItems", "uniqueItems"}]
WholeKeywords == {"enum", "const", "minProperties", "maxProperties"}
Annotations ==
    {"$schema", "format", "title", "description", "default", "example", "examples"}
AllowedKeywords ==
    {"type", "properties", "required", "additionalProperties", "items", "pattern"}
    \cup (UNION Range(ValueKeywords)) \cup WholeKeywords \cup Annotations

RequiresClosedObject(n) ==
    \/ Has(n, "type") /\ n.type.t = "string" /\ n.type.s = "object"
    \/ \E k \in {"properties", "required", "additionalProperties"} : Has(n, k)

ValidLevel(Valid(_), n) ==
    /\ DOMAIN n \subseteq AllowedKeywords
    /\ Has(n, "type") => n.type.t = "string"
    /\ RequiresClosedObject(n) =>
          Has(n, "additionalProperties") /\ n.additionalProperties = Bool(FALSE)
    /\ Has(n, "properties") =>
          /\ IsObj(n.properties)
          /\ \A p \in DOMAIN n.properties.m :
                IsObj(n.properties.m[p]) /\ Valid(n.properties.m[p].m)
    /\ Has(n, "items") => IsObj(n.items) /\ Valid(n.items.m)
ValidateSchemaNode(n) == ValidLevel(ValidBelow, n)

ValidateDefinition(schema) ==
    /\ IsObj(schema)
    /\ Has(schema.m, "type") /\ schema.m.type = Str("object")
    /\ ValidateSchemaNode(schema.m)

\* What the compiler refuses besides: keywords that do not have the form the
\* JSON Schema specification gives them, and patterns that do not compile.
Types == {"object", "array", "string", "number", "integer", "boolean", "null"}
CompilesLevel(Compiling(_), n) ==
    /\ Has(n, "type") => n.type.s \in Types
    /\ Has(n, "required") => /\ n.required.t = "array" /\ IsInjective(n.required.q)
                             /\ \A v \in Range(n.required.q) : v.t = "string"
    /\ Has(n, "enum") => n.enum.t = "array"
    /\ Has(n, "pattern") => n.pattern.t = "string" /\ n.pattern.s \in DOMAIN Matches
    /\ \A k \in {"minProperties", "maxProperties"} \cap DOMAIN n :
          n[k].t = "number" /\ n[k].n \in Nat
    /\ \A k \in DOMAIN Arguments \cap DOMAIN n : n[k] \in Arguments[k]
    /\ Has(n, "properties") => \A p \in DOMAIN n.properties.m : Compiling(n.properties.m[p].m)
    /\ Has(n, "items") => Compiling(n.items.m)
Compiles(n) == CompilesLevel(CompilesBelow, n)

Compile(schema) == ValidateDefinition(schema) /\ Compiles(schema.m)

-----------------------------------------------------------------------------
(* Documents a schema accepts, in the dialect of a schema that names none,   *)
(* where format bounds nothing.  The keyword nullable is OpenAPI's: it adds  *)
(* null to the type.                                                         *)

Properties(n) == IF HasObj(n, "properties") THEN n.properties.m ELSE <<>>
Required(n) == IF Has(n, "required") THEN {v.s : v \in Range(n.required.q)} ELSE {}

HasType(v, type) ==
    \/ v.t = type
    \/ type = "integer" /\ v.t = "number" /\ v.n \in Int

AcceptsLevel(Accepting(_, _), n, v) ==
    /\ Has(n, "type") => HasType(v, n.type.s) \/ (v = Null /\ Has(n, "nullable"))
    /\ Has(n, "enum") => v \in Range(n.enum.q)
    /\ Has(n, "const") => v = n.const
    /\ v.t \in DOMAIN ValueKeywords =>
          \A k \in ValueKeywords[v.t] \cap DOMAIN n : Satisfies(v, k, n[k])
    /\ Has(n, "pattern") /\ v.t = "string" =>
          n.pattern.s \in DOMAIN Matches /\ v.s \in Matches[n.pattern.s]
    /\ IsObj(v) =>
          /\ Required(n) \subseteq DOMAIN v.m
          /\ Has(n, "minProperties") => Cardinality(DOMAIN v.m) >= n.minProperties.n
          /\ Has(n, "maxProperties") => Cardinality(DOMAIN v.m) <= n.maxProperties.n
          /\ Has(n, "additionalProperties") /\ n.additionalProperties = Bool(FALSE) =>
                DOMAIN v.m \subseteq DOMAIN Properties(n)
          /\ \A p \in DOMAIN v.m \cap DOMAIN Properties(n) :
                Accepting(Properties(n)[p].m, v.m[p])
    /\ v.t = "array" /\ Has(n, "items") => \A i \in DOMAIN v.q : Accepting(n.items.m, v.q[i])
\* The outermost two levels: of a table's schema, and of its properties.
AcceptsMember(n, v) == AcceptsLevel(AcceptsBelow, n, v)
Accepts(n, v) == AcceptsLevel(AcceptsMember, n, v)

\* Below a node without a type, and below an array without items, a schema says
\* nothing of what is in a value.
TypedLevel(Typed(_), n) ==
    /\ Has(n, "type")
    /\ n.type.s = "array" => Has(n, "items")
    /\ \A p \in DOMAIN Properties(n) : Typed(Properties(n)[p].m)
    /\ Has(n, "items") => Typed(n.items.m)
EveryNodeTyped(n) == TypedLevel(TypedBelow, n)

UndeclaredLevel(Inside(_, _), n, v) ==
    CASE v.t = "object" -> \E p \in DOMAIN v.m :
                              \/ p \notin DOMAIN Properties(n)
                              \/ Inside(Properties(n)[p].m, v.m[p])
      [] v.t = "array"  -> \E i \in DOMAIN v.q :
                              ~Has(n, "items") \/ Inside(n.items.m, v.q[i])
      [] OTHER          -> FALSE
Undeclared(n, v) == UndeclaredLevel(UndeclaredBelow, n, v)
=============================================================================
