---------------------------- MODULE MCOperations ----------------------------
\* The calls that wait for one another in the database, one kind at a time: writes
\* of tuples, publishes of a schema beside writes and checks, and migrations.
EXTENDS TupleStore, MCSchemaPublish, Migrations

CONSTANTS m1, m2, m3, r1, r2, r3
Files == [r \in Runners |-> IF r = r1 THEN <<m1, m2>> ELSE <<m1, m2, m3>>]
Pools == [r \in Runners |-> IF r = r3 THEN 2 ELSE 1]

VARIABLE scene

OperationsInit == /\ scene \in {"tuples", "schema", "migrations"}
                  /\ Init
                  /\ PublishInit
                  /\ MigrationInit

OperationsNext ==
    \/ scene = "tuples" /\ Next /\ UNCHANGED <<scene, allVars, migrationVars>>
    \/ scene = "schema" /\ PublishNext /\ UNCHANGED <<scene, vars, migrationVars>>
    \/ scene = "migrations" /\ MigrationNext /\ UNCHANGED <<scene, vars, allVars>>

OperationsSpec == /\ OperationsInit
                  /\ [][OperationsNext]_<<scene, vars, allVars, migrationVars>>
                  /\ \/ scene = "tuples" /\ Fairness
                     \/ scene = "schema" /\ PublishFairness
                     \/ scene = "migrations" /\ MigrationFairness

\* Nobody waits for a lock for ever: every write that has begun comes to an end
\* (tuples.ts:634-645, 690-698), every publish, whatever order another one takes the
\* namespaces in (publish.ts:134-150), and every run of the migrations, also one that
\* holds its lock connection and finds the pool empty (migrate.ts:159-162).
WaitsEnd == CallsEnd /\ PublishesEnd /\ MigrationsEnd
=============================================================================
