---------------------------- MODULE MCMigration ----------------------------
(* Instances of Migration for TLC. *)
EXTENDS Migration

CONSTANTS users, orders,             \* tables
          email, status,             \* indexes, by their configured names
          users_email, orders_status,   \* and the names of their relations
          id, seq, mail, phone, state   \* key fields

Relation == {users, orders, users_email, orders_status, Meta}
Distinct == [p \in Relation \X {email, status} |->
                IF p[2] = email THEN users_email ELSE orders_status]
Full == [n \in Relation |-> n]

On(name, pk) == [name |-> name, pk |-> pk, rk |-> NoField]
OnBoth(name, pk, rk) == [name |-> name, pk |-> pk, rk |-> rk]
TableOf(name, pk, rk, indexes) == [name |-> name, pk |-> pk, rk |-> rk, indexes |-> indexes]

UsersPlain == TableOf(users, id, NoField, <<>>)
UsersByMail == TableOf(users, id, NoField, <<On(email, mail)>>)
UsersByPhone == TableOf(users, id, NoField, <<On(email, phone)>>)
OrdersPlain == TableOf(orders, id, seq, <<>>)
OrdersByState == TableOf(orders, id, seq, <<OnBoth(status, state, mail)>>)
OrdersRekeyed == TableOf(orders, id, NoField, <<On(status, state)>>)

-----------------------------------------------------------------------------
(* Tables and indexes come and go, tables change place; and the key of a   *)
(* table changes.                                                          *)
Growing == {<<UsersPlain>>, <<UsersByMail, OrdersPlain>>, <<OrdersByState, UsersByMail>>}
Changing == Growing \cup {<<OrdersRekeyed>>}

\* The second has no index.
Two == {<<UsersByMail>>, <<OrdersPlain, UsersPlain>>}

\* An index is put on another field and keeps its name.
Moved == {<<UsersByMail>>, <<UsersByPhone>>}
=============================================================================
