---------------------------- MODULE PostgresAdmin ----------------------------
(***************************************************************************)
(* PostgresStore together with someone who can run SQL on its database.    *)
(* schema.sql protects the consumption table with a row trigger rather     *)
(* than in application code, so what it protects against is stated here:   *)
(* an administrator, a migration or a test issues UPDATE, DELETE or        *)
(* TRUNCATE on the table while calls of Consume are in flight.             *)
(***************************************************************************)
EXTENDS PostgresStore

\* Faulty variant: the trigger forgets DELETE.
TriggerOnUpdateOnly(statement) == statement = "UPDATE"

\* BEFORE UPDATE OR DELETE ... FOR EACH ROW.
TriggerFires(statement) == statement \in {"UPDATE", "DELETE"}

\* UPDATE or DELETE of one committed row.  The exception the trigger raises
\* aborts the administrator's own transaction and nothing else.
ChangeRow(statement, i) ==
  /\ consumptions[i] # None
  /\ IF TriggerFires(statement)
     THEN UNCHANGED consumptions
     ELSE \E row \in IF statement = "DELETE" THEN {None} ELSE Attempts :
            consumptions' = [consumptions EXCEPT ![i] = row]
  /\ UNCHANGED <<client, srv, staged, ledger>>

\* TRUNCATE waits for every transaction that has a row in the table, then
\* empties it; it fires no row trigger.  (bench/main.go and postgres_test.go
\* reset their database this way.)
Truncate ==
  /\ \A a \in Attempts : ~ Holds(a)
  /\ consumptions' = [i \in Ids |-> None]
  /\ UNCHANGED <<client, srv, staged, ledger>>

\* The store among statements that address rows.
AdminNext ==
  \/ Next
  \/ \E statement \in {"UPDATE", "DELETE"}, i \in Ids : ChangeRow(statement, i)

AdminSpec == Init /\ [][AdminNext]_vars

\* The same with TRUNCATE as well.
TruncateSpec == Init /\ [][AdminNext \/ Truncate]_vars
=============================================================================
