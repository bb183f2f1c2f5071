---------------------------- MODULE MCDeployment ----------------------------
(* An instance of Deployment for TLC. *)
EXTENDS Deployment

CONSTANTS users, orders, email, users_email, id, seq, mail

Relation == {users, orders, users_email, Meta}
Distinct == [p \in Relation \X {email} |-> users_email]
Full == [n \in Relation |-> n]

Users == [name |-> users, pk |-> id, rk |-> NoField,
          indexes |-> <<[name |-> email, pk |-> mail, rk |-> NoField]>>]
Orders == [name |-> orders, pk |-> id, rk |-> seq, indexes |-> <<>>]

\* A rollout, and the way back.
Rollout == {<<Users, Orders>>, <<Orders>>}
=============================================================================
