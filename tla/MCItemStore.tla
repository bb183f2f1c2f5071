---------------------------- MODULE MCItemStore ----------------------------
(* Instances of ItemStore for TLC. *)
EXTENDS ItemStore, TLC

CONSTANTS pk, rk, a, b,          \* fields
          k1, k2, kx,            \* key values; the patterns refuse kx
          v1, v2                 \* other values

Sym == Permutations(Calls)

-----------------------------------------------------------------------------
(* A table with a primary key.  Property a is required, b optional, and a  *)
(* PUT may leave the key to the path.                                      *)

OneFields == {pk, a, b}
OneKeyFields == {pk}
OneValues == {k1, kx, v1, v2, Null}
OneKeyPattern == [f \in {pk} |-> {k1}]
One(key, x, y) == [f \in OneFields |-> IF f = pk THEN key ELSE IF f = a THEN x ELSE y]
OneSchema == {One(key, x, y) : key \in {k1, Missing}, x \in {v1, v2}, y \in {v1, Missing}}

\* Two replace the item whole; one's key is not the path's, and the schema
\* refuses the last one.
OnePutBodies == {One(Missing, v1, Missing), One(k1, v2, v1), One(kx, v1, Missing),
                 One(k1, Null, v1)}

\* One sets b, one sets a and removes b, one removes a, which is required.
OnePatchBodies == {One(k1, Missing, v1), One(k1, v2, Null), One(k1, Null, Missing)}

OneFieldSets == {{}}

-----------------------------------------------------------------------------
(* A table with a primary and a range key, and no optional property: two   *)
(* rows, every way a request is refused, and the projection.               *)

TwoFields == {pk, rk, a}
TwoKeyFields == {pk, rk}
TwoValues == {k1, k2, kx, v1, v2, Null}
TwoKeyPattern == [f \in {pk, rk} |-> IF f = pk THEN {k1} ELSE {k1, k2}]
Two(p, r, x) == [f \in TwoFields |-> IF f = pk THEN p ELSE IF f = rk THEN r ELSE x]
TwoSchema == {Two(p, r, x) : p \in {k1, Missing}, r \in {k1, k2}, x \in {v1, v2, Missing}}
TwoPutBodies == {Two(Missing, k1, v1), Two(k1, k2, v2), Two(k1, Missing, v1), Malformed}
TwoPatchBodies == {Two(k1, k1, v2), Two(k1, k2, Null), Two(Missing, k1, v1), Malformed}
TwoFieldSets == {{}, {pk}}
=============================================================================
