---------------------------- MODULE MCJwksCache ----------------------------
(* Instances of JwksCache for TLC. *)
EXTENDS JwksCache

CONSTANTS k1,   \* an RSA key
          ec    \* another one

Token(kid) == [bearer |-> TRUE, rs256 |-> TRUE, kid |-> kid, valid |-> TRUE]

\* Two tokens the provider has issued, one that does not verify, and one with
\* another method.
AllRequests == {Token(k1), Token(ec),
                [Token(k1) EXCEPT !.valid = FALSE], [Token(k1) EXCEPT !.rs256 = FALSE]}
=============================================================================
