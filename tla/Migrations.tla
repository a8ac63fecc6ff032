----------------------------- MODULE Migrations -----------------------------
(***************************************************************************)
(* runMigrations of src/store/migrate.ts, called by several processes that *)
(* start together, or several times in one: a session-level advisory lock  *)
(* held on a connection of its own around the read of schema_migrations    *)
(* and the migrations that are pending, each of which runs in a            *)
(* transaction on a second connection of the same pool.  Any statement may *)
(* fail, an answer to COMMIT may be lost, the connection that holds the    *)
(* lock may die and take the lock with it while the call goes on, and the  *)
(* pool may have no connection to give in time.                            *)
(***************************************************************************)
EXTENDS Integers, Sequences, FiniteSets

CONSTANTS Runners,    \* concurrent activations of runMigrations
          FilesOf,    \* what each finds in its directory, sorted by name
          PoolOf,     \* the pool each takes its connections from
          PoolMax,    \* PG_POOL_MAX
          Nobody

\* What two directories share sorts the same in both, and whatever sorts ahead of
\* it in one is in the other: names start with a number, and new migrations are
\* appended (migrate.ts:33-40).
ASSUME MigrationsAssumption ==
    /\ \A r \in Runners : /\ Len(FilesOf[r]) \in Nat
                          /\ DOMAIN FilesOf[r] = 1..Len(FilesOf[r])
    /\ \A q, r \in Runners : \A j \in DOMAIN FilesOf[q], f \in DOMAIN FilesOf[r] :
          FilesOf[q][j] = FilesOf[r][f] =>
              \A i \in 1 .. j - 1 : \E m \in 1 .. f - 1 : FilesOf[q][i] = FilesOf[r][m]

VARIABLES mpc,        \* where each call is
          lockClient, \* is its lock connection alive?
          left,       \* its migrations that are left, as places in its directory
          migLock,    \* holder of advisory lock ('migr', 0), or Nobody
          ledger,     \* committed rows of schema_migrations
          effects     \* the migrations whose SQL has committed, in commit order

migrationVars == <<mpc, lockClient, left, migLock, ledger, effects>>

\* A call holds its lock connection from "locking" on, and a second one inside
\* of the loop body.
OneConnection == {"locking", "creating", "reading", "connecting", "unlocking"}
TwoConnections == {"beginning", "running", "recording", "committing"}

InUse(pool) ==
    LET of(S) == Cardinality({ r \in Runners : PoolOf[r] = pool /\ mpc[r] \in S })
    IN  of(OneConnection) + 2 * of(TwoConnections)

MigrationInit == /\ mpc = [r \in Runners |-> "idle"]
                 /\ lockClient = [r \in Runners |-> FALSE]
                 /\ left = [r \in Runners |-> {}]
                 /\ migLock = Nobody
                 /\ ledger = {}
                 /\ effects = << >>

GoTo(r, state) == mpc' = [mpc EXCEPT ![r] = state]

-----------------------------------------------------------------------------
\* pool.connect(), the connection the lock will be held on.
ConnectLockClient(r) ==
    /\ mpc[r] = "idle"
    /\ InUse(PoolOf[r]) < PoolMax
    /\ GoTo(r, "locking")
    /\ lockClient' = [lockClient EXCEPT ![r] = TRUE]
    /\ UNCHANGED <<left, migLock, ledger, effects>>

\* pg_advisory_lock, held by the session.
AcquireMigrationsLock(r) ==
    /\ mpc[r] = "locking"
    /\ lockClient[r]
    /\ migLock = Nobody
    /\ migLock' = r
    /\ GoTo(r, "creating")
    /\ UNCHANGED <<lockClient, left, ledger, effects>>

\* create table if not exists schema_migrations, committed at once.
CreateLedger(r) ==
    /\ mpc[r] = "creating"
    /\ lockClient[r]
    /\ GoTo(r, "reading")
    /\ UNCHANGED <<lockClient, left, migLock, ledger, effects>>

PendingFiles(r) == { i \in DOMAIN FilesOf[r] : FilesOf[r][i] \notin ledger }

\* The migration the loop has come to.
Upcoming(r) == CHOOSE i \in left[r] : \A j \in left[r] : i <= j
CurrentFile(r) == FilesOf[r][Upcoming(r)]

AfterMigration(files) == IF files = {} THEN "unlocking" ELSE "connecting"

\* select id from schema_migrations, and the files that are not among them.
ReadLedger(r) ==
    /\ mpc[r] = "reading"
    /\ lockClient[r]
    /\ left' = [left EXCEPT ![r] = PendingFiles(r)]
    /\ GoTo(r, AfterMigration(PendingFiles(r)))
    /\ UNCHANGED <<lockClient, migLock, ledger, effects>>

\* pool.connect() for the next migration.
ConnectClient(r) ==
    /\ mpc[r] = "connecting"
    /\ InUse(PoolOf[r]) < PoolMax
    /\ GoTo(r, "beginning")
    /\ UNCHANGED <<lockClient, left, migLock, ledger, effects>>

BeginMigration(r) ==
    /\ mpc[r] = "beginning"
    /\ GoTo(r, "running")
    /\ UNCHANGED <<lockClient, left, migLock, ledger, effects>>

\* The SQL of the migration; what it does is visible at COMMIT.
RunMigration(r) ==
    /\ mpc[r] = "running"
    /\ GoTo(r, "recording")
    /\ UNCHANGED <<lockClient, left, migLock, ledger, effects>>

\* Mutant: on conflict do nothing.
RecordAnyhow(r) ==
    /\ mpc[r] = "recording"
    /\ GoTo(r, "committing")
    /\ UNCHANGED <<lockClient, left, migLock, ledger, effects>>

\* insert into schema_migrations: id is the primary key, so it waits for a
\* transaction that has inserted the same id, and fails on a committed one.
RecordMigration(r) ==
    /\ mpc[r] = "recording"
    /\ CurrentFile(r) \notin ledger
    /\ \A q \in Runners \ {r} :
          mpc[q] = "committing" => CurrentFile(q) # CurrentFile(r)
    /\ GoTo(r, "committing")
    /\ UNCHANGED <<lockClient, left, migLock, ledger, effects>>

LandMigration(r) ==
    /\ ledger' = ledger \cup {CurrentFile(r)}
    /\ effects' = Append(effects, CurrentFile(r))

\* COMMIT, and the connection goes back to the pool.
CommitMigration(r) ==
    /\ mpc[r] = "committing"
    /\ LandMigration(r)
    /\ left' = [left EXCEPT ![r] = @ \ {Upcoming(r)}]
    /\ GoTo(r, AfterMigration(left[r] \ {Upcoming(r)}))
    /\ UNCHANGED <<lockClient, migLock>>

\* A statement fails or the answer to COMMIT is lost: ROLLBACK, release, and the
\* error leaves the loop for the outer finally.
MigrationFails(r) ==
    /\ mpc[r] \in TwoConnections
    /\ \/ UNCHANGED <<ledger, effects>>
       \/ mpc[r] = "committing" /\ LandMigration(r)
    /\ left' = [left EXCEPT ![r] = {}]
    /\ GoTo(r, "unlocking")
    /\ UNCHANGED <<lockClient, migLock>>

\* connectionTimeoutMillis runs out; past the lock, the outer finally unlocks.
ConnectTimesOut(r) ==
    /\ mpc[r] = "connecting"
    /\ InUse(PoolOf[r]) >= PoolMax
    /\ left' = [left EXCEPT ![r] = {}]
    /\ GoTo(r, "unlocking")
    /\ UNCHANGED <<lockClient, migLock, ledger, effects>>

\* A statement on the lock connection fails.
LockClientFails(r) ==
    /\ mpc[r] \in {"locking", "creating", "reading"}
    /\ GoTo(r, "unlocking")
    /\ UNCHANGED <<lockClient, left, migLock, ledger, effects>>

\* The lock connection dies: its session ends and the lock with it, and nobody
\* tells the call.
LoseLockClient(r) ==
    /\ lockClient[r]
    /\ lockClient' = [lockClient EXCEPT ![r] = FALSE]
    /\ migLock' = IF migLock = r THEN Nobody ELSE migLock
    /\ UNCHANGED <<mpc, left, ledger, effects>>

\* Mutant: the unlock is left to the end of the session.
KeepLock(r) == migLock' = migLock

\* pg_advisory_unlock of a lock that is held; its own failure is swallowed.
Unlock(r) == migLock' = IF migLock = r THEN Nobody ELSE migLock

ReleaseLockClient(r) ==
    /\ mpc[r] = "unlocking"
    /\ Unlock(r)
    /\ lockClient' = [lockClient EXCEPT ![r] = FALSE]
    /\ left' = [left EXCEPT ![r] = {}]
    /\ GoTo(r, "idle")
    /\ UNCHANGED <<ledger, effects>>

-----------------------------------------------------------------------------
\* What an awaiting call does of its own accord; a statement that can only fail
\* does fail, and so does a connect that gets no connection.
Advance(r) == \/ CreateLedger(r)
              \/ ReadLedger(r)
              \/ ConnectClient(r)
              \/ BeginMigration(r)
              \/ RunMigration(r)
              \/ CommitMigration(r)
              \/ ConnectTimesOut(r)
              \/ ReleaseLockClient(r)
              \/ mpc[r] = "recording" /\ CurrentFile(r) \in ledger /\ MigrationFails(r)
              \/ ~lockClient[r] /\ LockClientFails(r)

RunnerStep(r) == \/ ConnectLockClient(r)
                 \/ AcquireMigrationsLock(r)
                 \/ Advance(r)
                 \/ RecordMigration(r)
                 \/ MigrationFails(r)
                 \/ LockClientFails(r)
                 \/ LoseLockClient(r)

MigrationNext == \E r \in Runners : RunnerStep(r)

MigrationSpec == MigrationInit /\ [][MigrationNext]_migrationVars

\* Postgres serves those who wait for a lock, or for a key, in turn.
MigrationFairness ==
    \A r \in Runners : /\ WF_migrationVars(Advance(r))
                       /\ SF_migrationVars(AcquireMigrationsLock(r) \/ RecordMigration(r))

FairMigrationSpec == MigrationSpec /\ MigrationFairness

-----------------------------------------------------------------------------
\* "Applies every migration in dir not already recorded in schema_migrations, each
\* in its own transaction (one migration's SQL fails without touching the ones
\* before it)" (migrate.ts:135-139): the SQL of a migration takes effect at most
\* once, schema_migrations names exactly those that did, and none is applied
\* before one that sorts ahead of it, also when the lock was lost on the way.
MigrationsApplyOnceInOrder ==
    /\ \A i, j \in DOMAIN effects : i # j => effects[i] # effects[j]
    /\ ledger = { effects[i] : i \in DOMAIN effects }
    /\ \A r \in Runners : \A i, j \in DOMAIN FilesOf[r] :
          (i < j /\ FilesOf[r][j] \in ledger) => FilesOf[r][i] \in ledger

\* "a failed run never leaves a permanently-locked pooled connection behind"
\* (migrate.ts:159-162): every call comes to an end and gives the lock back, also
\* one that holds its lock connection and finds the pool empty.
MigrationsEnd == \A r \in Runners : mpc[r] # "idle" ~> mpc[r] = "idle"
=============================================================================
