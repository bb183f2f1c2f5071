------------------------------ MODULE Nesting ------------------------------
(***************************************************************************)
(* The functions on documents at every depth: each is its level, from      *)
(* Documents, with itself below.  They are the values of the constants     *)
(* named ...Below.                                                         *)
(***************************************************************************)
EXTENDS Service

RECURSIVE NestedJson(_)
NestedJson(v) == JsonLevel(NestedJson, v)

RECURSIVE NestedMerge(_, _)
NestedMerge(target, patch) == MergeLevel(NestedMerge, target, patch)

RECURSIVE NestedRfc(_, _)
NestedRfc(target, patch) == RfcLevel(NestedRfc, target, patch)

RECURSIVE NestedHoldsNull(_)
NestedHoldsNull(v) == HoldsNullLevel(NestedHoldsNull, v)

RECURSIVE NestedNullsMeet(_, _)
NestedNullsMeet(target, patch) ==
    NullsMeetLevel(NestedNullsMeet, NestedHoldsNull, target, patch)

RECURSIVE NestedLegal(_)
NestedLegal(v) == LegalLevel(NestedLegal, v)

RECURSIVE NestedNames(_)
NestedNames(v) == NamesLevel(NestedNames, v)

RECURSIVE NestedValid(_)
NestedValid(n) == ValidLevel(NestedValid, n)

RECURSIVE NestedCompiles(_)
NestedCompiles(n) == CompilesLevel(NestedCompiles, n)

RECURSIVE NestedAccepts(_, _)
NestedAccepts(n, v) == AcceptsLevel(NestedAccepts, n, v)

RECURSIVE NestedTyped(_)
NestedTyped(n) == TypedLevel(NestedTyped, n)

RECURSIVE NestedUndeclared(_, _)
NestedUndeclared(n, v) == UndeclaredLevel(NestedUndeclared, n, v)
=============================================================================
