-------------------------- MODULE OperationsProofs --------------------------
(***************************************************************************)
(* Proofs about what runs beside the store: migrations are applied once    *)
(* and in order; what a request asks for is done only for a credential     *)
(* that may ask for it; the limits bound what passes, and refuse nobody    *)
(* for the traffic of others; and a run of the soundness fuzzer tells the  *)
(* truth about a resolver that is right, and cleans up after itself.       *)
(***************************************************************************)
EXTENDS Migrations, ApiAccess, SoundnessRun, NumberLemmas

-----------------------------------------------------------------------------
(* Migrations. *)

AllMigrations == UNION { { FilesOf[r][i] : i \in DOMAIN FilesOf[r] } : r \in Runners }

\* Inside of the loop body.
InLoop == {"connecting"} \cup TwoConnections
MigrationStates == {"idle", "locking", "creating", "reading", "unlocking"} \cup InLoop

First(S) == CHOOSE i \in S : \A j \in S : i <= j

\* A call in the loop has a migration left, and all before it are in the table.
LoopHolds(r, pc, S, done) ==
    pc \in InLoop => S # {} /\ \A i \in DOMAIN FilesOf[r] \ S : FilesOf[r][i] \in done

\* What is about to commit has not committed yet.
CommitHolds(r, pc, S, done) == pc = "committing" => FilesOf[r][First(S)] \notin done

\* No two calls are about to commit the same migration.
Apart(q, r, pc, S) ==
    pc[q] = "committing" /\ pc[r] = "committing" /\ q # r =>
        FilesOf[q][First(S[q])] # FilesOf[r][First(S[r])]

MigrationInv ==
    /\ mpc \in [Runners -> MigrationStates]
    /\ left \in [Runners -> SUBSET Nat]
    /\ \A r \in Runners : left[r] \subseteq DOMAIN FilesOf[r]
    /\ ledger \subseteq AllMigrations
    /\ effects \in Seq(AllMigrations)
    /\ \A r \in Runners : /\ LoopHolds(r, mpc[r], left[r], ledger)
                          /\ CommitHolds(r, mpc[r], left[r], ledger)
    /\ \A q, r \in Runners : Apart(q, r, mpc, left)
    /\ MigrationsApplyOnceInOrder

LEMMA CurrentIsFirst == \A r : CurrentFile(r) = FilesOf[r][First(left[r])]
BY DEF CurrentFile, Upcoming, First

LEMMA FirstIsLeast ==
    ASSUME NEW S, S \subseteq Nat, S # {}
    PROVE  First(S) \in S /\ \A j \in S : First(S) <= j
<1>1. \E i \in S : \A j \in S : i <= j
  BY LeastNumber
<1> QED BY <1>1 DEF First

LEMMA MigrationInvInit == MigrationInit => MigrationInv
<1> SUFFICES ASSUME MigrationInit PROVE MigrationInv
  OBVIOUS
<1>1. MigrationsApplyOnceInOrder
  BY DEF MigrationInit, MigrationsApplyOnceInOrder
<1>2. \A r \in Runners : /\ LoopHolds(r, mpc[r], left[r], ledger)
                         /\ CommitHolds(r, mpc[r], left[r], ledger)
  BY DEF MigrationInit, LoopHolds, CommitHolds, InLoop, TwoConnections
<1>3. \A q, r \in Runners : Apart(q, r, mpc, left)
  BY DEF MigrationInit, Apart
<1>4. mpc \in [Runners -> MigrationStates] /\ left \in [Runners -> SUBSET Nat]
  BY DEF MigrationInit, MigrationStates
<1>5. ledger \subseteq AllMigrations /\ effects \in Seq(AllMigrations)
  BY DEF MigrationInit
<1>6. \A r \in Runners : left[r] \subseteq DOMAIN FilesOf[r]
  BY DEF MigrationInit
<1> QED BY <1>1, <1>2, <1>3, <1>4, <1>5, <1>6 DEF MigrationInv

\* A call that moves on without a commit.
LEMMA QuietKeeps ==
    ASSUME MigrationInv, NEW r \in Runners, NEW pc \in MigrationStates, NEW S \in SUBSET Nat,
           mpc' = [mpc EXCEPT ![r] = pc], left' = [left EXCEPT ![r] = S],
           UNCHANGED <<ledger, effects>>,
           S \subseteq DOMAIN FilesOf[r],
           LoopHolds(r, pc, S, ledger), CommitHolds(r, pc, S, ledger),
           pc = "committing" =>
               \A q \in Runners \ {r} : mpc[q] = "committing" =>
                   FilesOf[q][First(left[q])] # FilesOf[r][First(S)]
    PROVE  MigrationInv'
<1> USE DEF MigrationInv
<1>1. /\ mpc'[r] = pc /\ left'[r] = S
      /\ \A q \in Runners \ {r} : mpc'[q] = mpc[q] /\ left'[q] = left[q]
  OBVIOUS
<1>2. mpc' \in [Runners -> MigrationStates] /\ left' \in [Runners -> SUBSET Nat]
  OBVIOUS
<1>3. ASSUME NEW q \in Runners
      PROVE  /\ left'[q] \subseteq DOMAIN FilesOf[q]
             /\ LoopHolds(q, mpc'[q], left'[q], ledger')
             /\ CommitHolds(q, mpc'[q], left'[q], ledger')
  <2>1. CASE q = r
    BY <1>1, <2>1
  <2>2. CASE q # r
    BY <1>1, <2>2
  <2> QED BY <2>1, <2>2
<1>4. ASSUME NEW p \in Runners, NEW q \in Runners PROVE Apart(p, q, mpc', left')
  <2>1. CASE p = r
    BY <1>1, <2>1 DEF Apart
  <2>2. CASE p # r /\ q = r
    BY <1>1, <2>2 DEF Apart
  <2>3. CASE p # r /\ q # r
    <3>1. Apart(p, q, mpc, left)
      OBVIOUS
    <3> QED BY <1>1, <2>3, <3>1 DEF Apart
  <2> QED BY <2>1, <2>2, <2>3
<1>5. MigrationsApplyOnceInOrder'
  BY DEF MigrationsApplyOnceInOrder
<1> QED BY <1>2, <1>3, <1>4, <1>5

\* A migration that commits comes after those that sort ahead of it, and is not
\* among those that have.
LEMMA LandKeepsOrder ==
    ASSUME MigrationInv, NEW r \in Runners, mpc[r] = "committing", LandMigration(r)
    PROVE  /\ MigrationsApplyOnceInOrder'
           /\ ledger' = ledger \cup {FilesOf[r][First(left[r])]}
           /\ ledger' \subseteq AllMigrations /\ effects' \in Seq(AllMigrations)
<1> USE DEF MigrationInv
<1> DEFINE f == First(left[r])
           u == FilesOf[r][f]
           n == Len(effects)
<1>1. /\ left[r] # {} /\ left[r] \subseteq Nat /\ left[r] \subseteq DOMAIN FilesOf[r]
      /\ \A i \in DOMAIN FilesOf[r] \ left[r] : FilesOf[r][i] \in ledger
      /\ u \notin ledger
  BY DEF LoopHolds, CommitHolds, InLoop, TwoConnections
<1>2. f \in left[r] /\ \A j \in left[r] : f <= j
  BY <1>1, FirstIsLeast
<1>3. f \in DOMAIN FilesOf[r] /\ u \in AllMigrations
  BY <1>1, <1>2 DEF AllMigrations
<1>4. ledger' = ledger \cup {u} /\ effects' = Append(effects, u)
  BY CurrentIsFirst DEF LandMigration
<1> HIDE DEF f, u
<1>5. /\ effects \in Seq(AllMigrations) /\ n \in Nat /\ DOMAIN effects = 1..n
      /\ effects' \in Seq(AllMigrations) /\ DOMAIN effects' = 1..(n + 1)
      /\ \A i \in 1..n : effects'[i] = effects[i]
      /\ effects'[n + 1] = u
  BY <1>3, <1>4
<1>6. ledger = { effects[i] : i \in 1..n } /\ \A i, j \in 1..n : i # j => effects[i] # effects[j]
  BY <1>5 DEF MigrationsApplyOnceInOrder
<1> HIDE DEF n
<1>7. \A i \in 1..n : effects[i] # u
  BY <1>1, <1>6 DEF u, f
<1>8. \A i \in 1..(n + 1) : i \in 1..n \/ i = n + 1
  BY <1>5
<1>9. \A i, j \in DOMAIN effects' : i # j => effects'[i] # effects'[j]
  BY <1>5, <1>6, <1>7, <1>8
<1>10. ledger' = { effects'[i] : i \in DOMAIN effects' }
  <2>1. \A i \in 1..n : i \in 1..(n + 1)
    BY <1>5
  <2>2. n + 1 \in 1..(n + 1)
    BY <1>5
  <2> QED BY <1>4, <1>5, <1>6, <1>8, <2>1, <2>2
<1>11. ASSUME NEW q \in Runners, NEW i \in DOMAIN FilesOf[q], NEW j \in DOMAIN FilesOf[q],
              i < j, FilesOf[q][j] \in ledger'
       PROVE  FilesOf[q][i] \in ledger'
  <2>1. CASE FilesOf[q][j] \in ledger
    BY <1>4, <1>11, <2>1 DEF MigrationsApplyOnceInOrder
  <2>2. CASE FilesOf[q][j] = u
    <3>1. i \in 1..(j - 1)
      BY <1>11, MigrationsAssumption
    <3>2. PICK m \in 1..(f - 1) : FilesOf[q][i] = FilesOf[r][m]
      BY <1>3, <2>2, <3>1, MigrationsAssumption DEF u
    <3>3. m \in DOMAIN FilesOf[r] /\ f \in Nat /\ m < f
      BY <1>1, <1>2, <1>3, MigrationsAssumption
    <3>4. m \notin left[r]
      BY <1>1, <1>2, <3>3
    <3> QED BY <1>1, <1>4, <3>2, <3>3, <3>4
  <2> QED BY <1>4, <1>11, <2>1, <2>2
<1>12. MigrationsApplyOnceInOrder'
  BY <1>9, <1>10, <1>11 DEF MigrationsApplyOnceInOrder
<1> QED BY <1>3, <1>4, <1>5, <1>12 DEF u, f

\* A call whose migration commits.
LEMMA LandKeeps ==
    ASSUME MigrationInv, NEW r \in Runners, mpc[r] = "committing", LandMigration(r),
           NEW pc \in MigrationStates, NEW S \in SUBSET Nat, pc # "committing",
           mpc' = [mpc EXCEPT ![r] = pc], left' = [left EXCEPT ![r] = S],
           S = {} \/ S = left[r] \ {First(left[r])}, pc \in InLoop => S # {} /\ S # left[r]
    PROVE  MigrationInv'
<1> USE DEF MigrationInv
<1> DEFINE u == FilesOf[r][First(left[r])]
<1>1. /\ MigrationsApplyOnceInOrder' /\ ledger' = ledger \cup {u}
      /\ ledger' \subseteq AllMigrations /\ effects' \in Seq(AllMigrations)
  BY LandKeepsOrder
<1>2. /\ mpc'[r] = pc /\ left'[r] = S
      /\ \A q \in Runners \ {r} : mpc'[q] = mpc[q] /\ left'[q] = left[q]
  OBVIOUS
<1>3. mpc' \in [Runners -> MigrationStates] /\ left' \in [Runners -> SUBSET Nat]
  OBVIOUS
<1>4. S \subseteq DOMAIN FilesOf[r]
  OBVIOUS
<1>5. LoopHolds(r, pc, S, ledger') /\ CommitHolds(r, pc, S, ledger')
  <2>1. \A i \in DOMAIN FilesOf[r] \ left[r] : FilesOf[r][i] \in ledger
    BY DEF LoopHolds, InLoop, TwoConnections
  <2>2. pc \in InLoop => \A i \in DOMAIN FilesOf[r] \ S : FilesOf[r][i] \in ledger'
    <3> SUFFICES ASSUME pc \in InLoop, NEW i \in DOMAIN FilesOf[r] \ S
                 PROVE  FilesOf[r][i] \in ledger'
      OBVIOUS
    <3>1. i \notin left[r] \/ i = First(left[r])
      OBVIOUS
    <3> QED BY <1>1, <2>1, <3>1
  <2> QED BY <2>2 DEF LoopHolds, CommitHolds
<1>6. ASSUME NEW q \in Runners \ {r}
      PROVE  LoopHolds(q, mpc[q], left[q], ledger') /\ CommitHolds(q, mpc[q], left[q], ledger')
  <2>1. LoopHolds(q, mpc[q], left[q], ledger) /\ CommitHolds(q, mpc[q], left[q], ledger)
    OBVIOUS
  <2>2. mpc[q] = "committing" => FilesOf[q][First(left[q])] # u
    <3>1. Apart(q, r, mpc, left)
      OBVIOUS
    <3> QED BY <3>1 DEF Apart
  <2> QED BY <1>1, <2>1, <2>2 DEF LoopHolds, CommitHolds
<1>7. ASSUME NEW q \in Runners
      PROVE  /\ left'[q] \subseteq DOMAIN FilesOf[q]
             /\ LoopHolds(q, mpc'[q], left'[q], ledger')
             /\ CommitHolds(q, mpc'[q], left'[q], ledger')
  <2>1. CASE q = r
    BY <1>2, <1>4, <1>5, <2>1
  <2>2. CASE q # r
    BY <1>2, <1>6, <2>2
  <2> QED BY <2>1, <2>2
<1>8. ASSUME NEW p \in Runners, NEW q \in Runners PROVE Apart(p, q, mpc', left')
  <2>1. CASE p = r \/ q = r
    BY <1>2, <2>1 DEF Apart
  <2>2. CASE p # r /\ q # r
    <3>1. Apart(p, q, mpc, left)
      OBVIOUS
    <3> QED BY <1>2, <2>2, <3>1 DEF Apart
  <2> QED BY <2>1, <2>2
<1> QED BY <1>1, <1>3, <1>7, <1>8

LEMMA RunnerKeeps ==
    ASSUME MigrationInv, NEW r \in Runners, RunnerStep(r)
    PROVE  MigrationInv'
<1> USE DEF MigrationInv
<1>1. left' = left => left' = [left EXCEPT ![r] = left[r]]
  OBVIOUS
<1>2. mpc' = mpc => mpc' = [mpc EXCEPT ![r] = mpc[r]]
  OBVIOUS
<1>3. LoopHolds(r, mpc[r], left[r], ledger) /\ CommitHolds(r, mpc[r], left[r], ledger)
  OBVIOUS
<1>4. left[r] \in SUBSET Nat /\ mpc[r] \in MigrationStates /\ left[r] \subseteq DOMAIN FilesOf[r]
  OBVIOUS
\* Outside of the loop nothing is asked of a call.
<1>5. ASSUME NEW pc \in {"idle", "locking", "creating", "reading", "unlocking"}, NEW S \in {left[r], {}},
             mpc' = [mpc EXCEPT ![r] = pc], left' = [left EXCEPT ![r] = S],
             UNCHANGED <<ledger, effects>>
      PROVE  MigrationInv'
  <2>1. LoopHolds(r, pc, S, ledger) /\ CommitHolds(r, pc, S, ledger) /\ pc # "committing"
    BY <1>5 DEF LoopHolds, CommitHolds, InLoop, TwoConnections
  <2>2. pc \in MigrationStates /\ S \in SUBSET Nat /\ S \subseteq DOMAIN FilesOf[r]
    BY <1>4, <1>5 DEF MigrationStates
  <2> QED BY <1>5, <2>1, <2>2, QuietKeeps
\* Inside of it a call goes on with what it has left.
<1>6. ASSUME NEW pc \in {"beginning", "running", "recording"}, mpc[r] \in InLoop,
             mpc' = [mpc EXCEPT ![r] = pc], left' = left, UNCHANGED <<ledger, effects>>
      PROVE  MigrationInv'
  <2>1. /\ LoopHolds(r, pc, left[r], ledger) /\ CommitHolds(r, pc, left[r], ledger)
        /\ pc # "committing" /\ pc \in MigrationStates
    BY <1>3, <1>6 DEF LoopHolds, CommitHolds, InLoop, TwoConnections, MigrationStates
  <2> QED BY <1>1, <1>4, <1>6, <2>1, QuietKeeps
<1>7. CASE ConnectLockClient(r)
  BY <1>1, <1>5, <1>7 DEF ConnectLockClient, GoTo
<1>8. CASE AcquireMigrationsLock(r)
  BY <1>1, <1>5, <1>8 DEF AcquireMigrationsLock, GoTo
<1>9. CASE CreateLedger(r)
  BY <1>1, <1>5, <1>9 DEF CreateLedger, GoTo
<1>10. CASE ReadLedger(r)
  <2> DEFINE S == { i \in DOMAIN FilesOf[r] : FilesOf[r][i] \notin ledger }
             pc == IF S = {} THEN "unlocking" ELSE "connecting"
  <2>1. /\ mpc' = [mpc EXCEPT ![r] = pc] /\ left' = [left EXCEPT ![r] = S]
        /\ UNCHANGED <<ledger, effects>>
    BY <1>10 DEF ReadLedger, GoTo, PendingFiles, AfterMigration
  <2>2. S \subseteq DOMAIN FilesOf[r] /\ S \in SUBSET Nat
    BY MigrationsAssumption
  <2>3. LoopHolds(r, pc, S, ledger) /\ CommitHolds(r, pc, S, ledger)
    BY DEF LoopHolds, CommitHolds, InLoop, TwoConnections
  <2>4. pc \in MigrationStates /\ pc # "committing"
    BY DEF MigrationStates, InLoop
  <2> HIDE DEF S, pc
  <2> QED BY <2>1, <2>2, <2>3, <2>4, QuietKeeps
<1>11. CASE ConnectClient(r)
  BY <1>6, <1>11 DEF ConnectClient, GoTo, InLoop
<1>12. CASE BeginMigration(r)
  BY <1>6, <1>12 DEF BeginMigration, GoTo, InLoop, TwoConnections
<1>13. CASE RunMigration(r)
  BY <1>6, <1>13 DEF RunMigration, GoTo, InLoop, TwoConnections
<1>14. CASE RecordMigration(r)
  <2>1. /\ mpc[r] = "recording" /\ mpc' = [mpc EXCEPT ![r] = "committing"] /\ left' = left
        /\ UNCHANGED <<ledger, effects>>
        /\ FilesOf[r][First(left[r])] \notin ledger
        /\ \A q \in Runners \ {r} : mpc[q] = "committing" =>
               FilesOf[q][First(left[q])] # FilesOf[r][First(left[r])]
    BY <1>14, CurrentIsFirst DEF RecordMigration, GoTo
  <2>2. LoopHolds(r, "committing", left[r], ledger) /\ CommitHolds(r, "committing", left[r], ledger)
    BY <1>3, <2>1 DEF LoopHolds, CommitHolds, InLoop, TwoConnections
  <2>3. "committing" \in MigrationStates
    BY DEF MigrationStates, InLoop, TwoConnections
  <2> QED BY <1>1, <1>4, <2>1, <2>2, <2>3, QuietKeeps
<1>15. CASE CommitMigration(r)
  <2> DEFINE S == left[r] \ {First(left[r])}
             pc == IF S = {} THEN "unlocking" ELSE "connecting"
  <2>1. Upcoming(r) = First(left[r])
    BY DEF Upcoming, First
  <2>2. /\ mpc[r] = "committing" /\ LandMigration(r)
        /\ mpc' = [mpc EXCEPT ![r] = pc] /\ left' = [left EXCEPT ![r] = S]
    BY <1>15, <2>1 DEF CommitMigration, GoTo, AfterMigration
  <2>3. pc \in MigrationStates /\ pc # "committing" /\ S \in SUBSET Nat
    BY <1>4 DEF MigrationStates, InLoop
  <2>4. pc \in InLoop => S # {} /\ S # left[r]
    <3>1. left[r] # {}
      BY <1>3, <2>2 DEF LoopHolds, InLoop, TwoConnections
    <3>2. First(left[r]) \in left[r]
      BY <1>4, <3>1, FirstIsLeast
    <3>3. S # left[r]
      BY <3>2
    <3> QED BY <3>3 DEF InLoop, TwoConnections
  <2> HIDE DEF pc
  <2> QED BY <2>2, <2>3, <2>4, LandKeeps
<1>16. CASE MigrationFails(r)
  <2>1. mpc' = [mpc EXCEPT ![r] = "unlocking"] /\ left' = [left EXCEPT ![r] = {}]
    BY <1>16 DEF MigrationFails, GoTo
  <2>2. CASE UNCHANGED <<ledger, effects>>
    BY <1>5, <2>1, <2>2
  <2>3. CASE mpc[r] = "committing" /\ LandMigration(r)
    <3>1. "unlocking" \in MigrationStates /\ "unlocking" \notin InLoop /\ {} \in SUBSET Nat
      BY DEF MigrationStates, InLoop, TwoConnections
    <3> QED BY <2>1, <2>3, <3>1, LandKeeps
  <2> QED BY <1>16, <2>2, <2>3 DEF MigrationFails
<1>17. CASE ConnectTimesOut(r)
  BY <1>5, <1>17 DEF ConnectTimesOut, GoTo
<1>18. CASE LockClientFails(r)
  BY <1>1, <1>5, <1>18 DEF LockClientFails, GoTo
<1>19. CASE LoseLockClient(r)
  BY <1>19 DEF LoseLockClient, MigrationsApplyOnceInOrder
<1>20. CASE ReleaseLockClient(r)
  BY <1>5, <1>20 DEF ReleaseLockClient, GoTo
<1> QED BY <1>7, <1>8, <1>9, <1>10, <1>11, <1>12, <1>13, <1>14, <1>15, <1>16, <1>17, <1>18, <1>19, <1>20
        DEF RunnerStep, Advance

\* However many processes start at once, whatever fails, and also when the lock is
\* lost on the way: the SQL of a migration takes effect once, in order, and
\* schema_migrations names exactly those whose SQL did (runMigrations,
\* migrate.ts:163-231).
THEOREM AppliedOnceInOrder == MigrationSpec => []MigrationsApplyOnceInOrder
<1>1. ASSUME MigrationInv, [MigrationNext]_migrationVars PROVE MigrationInv'
  <2>1. CASE UNCHANGED migrationVars
    BY <1>1, <2>1 DEF migrationVars, MigrationInv, MigrationsApplyOnceInOrder
  <2> QED BY <1>1, <2>1, RunnerKeeps DEF MigrationNext
<1>2. MigrationInv => MigrationsApplyOnceInOrder
  BY DEF MigrationInv
<1> QED BY <1>1, <1>2, MigrationInvInit, PTL DEF MigrationSpec

-----------------------------------------------------------------------------
(* Requests to the API. *)

Asked == UNION { Traffic[w].requests : w \in DOMAIN Traffic }
RequestRecords ==
    [route : Endpoints, cred : { q.cred : q \in Asked }, chain : { q.chain : q \in Asked },
     namespaces : { q.namespaces : q \in Asked }, replica : Replicas,
     state : {"guarding", "authorizing", "limiting", "handling", "answered"}, dead : BOOLEAN,
     scopes : {Absent, Namespaces \cup {Absent}} \cup ScopeSets, ran : BOOLEAN,
     code : {"pass", "served", "rate_limited", "unauthorized", "forbidden", "invalid_request",
             "infrastructure_unavailable"},
     why : {"none", "flood", "store", "credential", "database", "limit", "handler", "work"},
     answeredAt : Int]

LiveAt(row, t) == row # Absent /\ ~row.revoked /\ (row.expires # Absent => row.expires > t)

\* The credential of q was good for its route when it was looked up.
Entitled(q, keys) ==
    \/ q.cred # Absent /\ q.cred = StaticAdmin
    \/ q.cred # Absent /\ q.cred = StaticRead /\ q.route.gate = "read"
    \/ /\ q.cred \in RawKeys /\ ~q.dead /\ keys[q.cred] # Absent
       /\ q.route.gate = "admin" => keys[q.cred].role = "admin"
       /\ q.scopes = keys[q.cred].scopes

\* Once dead, a key stays dead; behind the credential a request is entitled; and
\* what has run is within its scopes.
RequestHolds(q, keys, t) ==
    /\ q.ran => q.state = "answered"
    /\ q.state \in {"guarding", "authorizing"} => q.route.gate # "open"
    /\ q.dead => q.cred \in RawKeys /\ keys[q.cred] # Absent /\ ~LiveAt(keys[q.cred], t)
    /\ q.route.gate # "open" /\ (q.state \in {"limiting", "handling"} \/ q.ran) => Entitled(q, keys)
    /\ q.route.gate # "open" /\ q.ran =>
          InScope(q) /\ (q.route = MetricsRoute => Absent \in q.scopes)

AccessInv ==
    /\ time \in Int
    /\ workload \in DOMAIN Traffic
    /\ apiKeys \in [RawKeys -> KeyRows \cup {Absent}]
    /\ requests \in [Slots -> RequestRecords \cup {Absent}]
    /\ \A s \in Slots : requests[s] # Absent => RequestHolds(requests[s], apiKeys, time)

LEMMA AccessInvInit == AccessInit => AccessInv
BY DEF AccessInit, AccessInv

Checks == {"body", "token", "expiry", "scope", "filter", "unscoped", "compiled", "slot"}
Works == {"run", "runChecked", "runTargets"}

LEMMA StagesAreKnown ==
    ASSUME NEW r \in Endpoints
    PROVE  Work(r) \in Works /\ \A i \in ChecksOf(r) : r.stages[i] \in Checks
<1> USE DEF Route
<1>1. CASE r \in {HealthRoute, DocumentRoute}
  <2>1. Len(r.stages) = 1 /\ r.stages[1] \in Works
    BY <1>1 DEF Works, HealthRoute, DocumentRoute
  <2> QED BY <2>1 DEF Work, ChecksOf
<1>2. CASE r \in {CompileRoute, MetricsRoute}
  <2>1. Len(r.stages) = 2 /\ r.stages[2] \in Works
    BY <1>2 DEF Works, CompileRoute, MetricsRoute
  <2>2. r.stages[1] \in Checks
    BY <1>2 DEF Checks, CompileRoute, MetricsRoute
  <2>3. \A i \in 1 .. 1 : i = 1
    OBVIOUS
  <2> QED BY <2>1, <2>2, <2>3 DEF Work, ChecksOf
<1>3. CASE r \in {ExpandRoute, ListUsersRoute, DeleteRoute, PublishRoute}
  <2>1. Len(r.stages) = 3 /\ r.stages[3] \in Works
    BY <1>3 DEF Works, ExpandRoute, ListUsersRoute, DeleteRoute, PublishRoute
  <2>2. r.stages[1] \in Checks /\ r.stages[2] \in Checks
    BY <1>3 DEF Checks, ExpandRoute, ListUsersRoute, DeleteRoute, PublishRoute
  <2>3. \A i \in 1 .. 2 : i = 1 \/ i = 2
    OBVIOUS
  <2> QED BY <2>1, <2>2, <2>3 DEF Work, ChecksOf
<1>4. CASE r \in {CheckRoute, CheckBatchRoute, ListObjectsRoute, ScopeRoute, WriteRoute, WriteBatchRoute}
  <2>1. Len(r.stages) = 4 /\ r.stages[4] \in Works
    BY <1>4 DEF Works, CheckRoute, CheckBatchRoute, ListObjectsRoute, ScopeRoute, WriteRoute, WriteBatchRoute
  <2>2. r.stages[1] \in Checks /\ r.stages[2] \in Checks /\ r.stages[3] \in Checks
    BY <1>4 DEF Checks, CheckRoute, CheckBatchRoute, ListObjectsRoute, ScopeRoute, WriteRoute, WriteBatchRoute
  <2>3. \A i \in 1 .. 3 : i = 1 \/ i = 2 \/ i = 3
    OBVIOUS
  <2> QED BY <2>1, <2>2, <2>3 DEF Work, ChecksOf
<1>5. CASE r \in {WatchRoute}
  <2>1. Len(r.stages) = 5 /\ r.stages[5] \in Works
    BY <1>5 DEF Works, WatchRoute
  <2>2. r.stages[1] \in Checks /\ r.stages[2] \in Checks /\ r.stages[3] \in Checks /\ r.stages[4] \in Checks
    BY <1>5 DEF Checks, WatchRoute
  <2>3. \A i \in 1 .. 4 : i = 1 \/ i = 2 \/ i = 3 \/ i = 4
    OBVIOUS
  <2> QED BY <2>1, <2>2, <2>3 DEF Work, ChecksOf
<1> QED BY <1>1, <1>2, <1>3, <1>4, <1>5 DEF Endpoints

\* Among the checks of a route that is not open there is one of scopes.
LEMMA RoutesCheckScopes ==
    ASSUME NEW r \in Endpoints, r.gate # "open"
    PROVE  \E i \in ChecksOf(r) :
              IF r = MetricsRoute THEN r.stages[i] = "unscoped"
              ELSE r.stages[i] \in {"scope", "filter", "compiled"}
<1> USE DEF Route, ChecksOf
<1>1. CASE r.gate = "read"
  <2>1. r # MetricsRoute
    BY <1>1 DEF MetricsRoute
  <2>2. CASE r \in {CheckRoute, ExpandRoute, ListObjectsRoute, ListUsersRoute, ScopeRoute, WatchRoute}
    <3>1. Len(r.stages) \in {3, 4, 5} /\ r.stages[2] \in {"scope", "filter"}
      BY <2>2 DEF CheckRoute, ExpandRoute, ListObjectsRoute, ListUsersRoute, ScopeRoute, WatchRoute
    <3>2. 2 \in ChecksOf(r)
      BY <3>1
    <3> QED BY <2>1, <3>1, <3>2
  <2>3. CASE r = CheckBatchRoute
    <3>1. 3 \in ChecksOf(r) /\ r.stages[3] \in {"scope", "filter", "compiled"}
      BY <2>3 DEF CheckBatchRoute
    <3> QED BY <2>1, <3>1
  <2> QED BY <1>1, <2>2, <2>3 DEF Endpoints, WriteRoute, WriteBatchRoute, DeleteRoute, PublishRoute,
         CompileRoute, HealthRoute, DocumentRoute, MetricsRoute
<1>2. CASE r \in {WriteRoute, DeleteRoute, PublishRoute}
  <2>1. Len(r.stages) \in {3, 4} /\ r.stages[2] \in {"scope", "compiled"}
    BY <1>2 DEF WriteRoute, DeleteRoute, PublishRoute
  <2>2. 2 \in ChecksOf(r)
    BY <2>1
  <2>3. r # MetricsRoute
    BY <1>2 DEF WriteRoute, DeleteRoute, PublishRoute, MetricsRoute
  <2> QED BY <2>1, <2>2, <2>3
<1>3. CASE r = WriteBatchRoute
  <2>1. /\ r # MetricsRoute
        /\ 3 \in ChecksOf(r) /\ r.stages[3] \in {"scope", "filter", "compiled"}
    BY <1>3 DEF WriteBatchRoute, MetricsRoute
  <2> QED BY <2>1
<1>4. CASE r = MetricsRoute
  <2>1. 1 \in ChecksOf(r) /\ r.stages[1] = "unscoped"
    BY <1>4 DEF MetricsRoute
  <2> QED BY <1>4, <2>1
<1> QED BY <1>1, <1>2, <1>3, <1>4
        DEF Endpoints, CheckRoute, CheckBatchRoute, ExpandRoute, ListObjectsRoute, ListUsersRoute,
            ScopeRoute, WatchRoute, CompileRoute, HealthRoute, DocumentRoute

\* The checks of a handler cover what its route asks for.
LEMMA ChecksCoverScopes ==
    ASSUME NEW q, q.route \in Endpoints, q.route.gate # "open",
           \A i \in ChecksOf(q.route) : Pass \in StageOutcomes(q, q.route.stages[i])
    PROVE  InScope(q) /\ (q.route = MetricsRoute => Absent \in q.scopes)
<1>1. PICK i \in ChecksOf(q.route) :
          IF q.route = MetricsRoute THEN q.route.stages[i] = "unscoped"
          ELSE q.route.stages[i] \in {"scope", "filter", "compiled"}
  BY RoutesCheckScopes
<1> DEFINE stage == q.route.stages[i]
<1>2. Pass \in StageOutcomes(q, stage)
  BY <1>1
<1> HIDE DEF stage
<1>3. CASE stage = "unscoped"
  BY <1>2, <1>3 DEF StageOutcomes, Pass, InScope
<1>4. CASE stage = "scope"
  BY <1>1, <1>2, <1>4 DEF StageOutcomes, Pass, stage
<1>5. CASE stage = "filter"
  BY <1>1, <1>2, <1>5 DEF StageOutcomes, Pass, FilterOutcomes, InScope, stage
<1>6. CASE stage = "compiled"
  BY <1>1, <1>2, <1>6 DEF StageOutcomes, Pass, CompiledOutcomes, stage
<1> QED BY <1>1, <1>3, <1>4, <1>5, <1>6 DEF stage

\* A request that moves on while keys and clock stand still.
LEMMA SlotMoves ==
    ASSUME AccessInv, NEW s \in Slots, NEW q \in RequestRecords \cup {Absent},
           requests' = [requests EXCEPT ![s] = q], UNCHANGED <<time, workload, apiKeys>>,
           q # Absent => RequestHolds(q, apiKeys, time)
    PROVE  AccessInv'
<1>1. requests'[s] = q /\ \A t \in Slots \ {s} : requests'[t] = requests[t]
  BY DEF AccessInv
<1>2. \A t \in Slots : requests'[t] # Absent => RequestHolds(requests'[t], apiKeys, time)
  BY <1>1 DEF AccessInv
<1> QED BY <1>2 DEF AccessInv

\* An answer without any work done.
LEMMA RespondKeeps ==
    ASSUME AccessInv, NEW s \in Slots, requests[s] # Absent,
           NEW code \in {"rate_limited", "unauthorized", "forbidden", "invalid_request",
                         "infrastructure_unavailable"},
           NEW why \in {"flood", "store", "credential", "database", "limit", "handler"},
           Respond(s, code, why), UNCHANGED <<time, workload, apiKeys>>, ~requests[s].ran
    PROVE  AccessInv'
<1> DEFINE q == requests[s]
           p == [q EXCEPT !.state = "answered", !.code = code, !.why = why, !.answeredAt = time]
<1>1. q \in RequestRecords /\ RequestHolds(q, apiKeys, time) /\ time \in Int
  BY DEF AccessInv
<1>2. requests' = [requests EXCEPT ![s] = p]
  BY DEF Respond, AccessInv
<1>3. p \in RequestRecords
  BY <1>1 DEF RequestRecords
<1>4. RequestHolds(p, apiKeys, time)
  BY <1>1 DEF RequestRecords, RequestHolds
<1> HIDE DEF p
<1> QED BY <1>2, <1>3, <1>4, SlotMoves

LEMMA ArriveKeeps ==
    ASSUME AccessInv, NEW s \in Slots, NEW q \in Traffic[workload].requests, NEW replica \in Replicas,
           Arrive(s, q, replica)
    PROVE  AccessInv'
<1> DEFINE p == [route |-> q.route, cred |-> q.cred, chain |-> q.chain, namespaces |-> q.namespaces,
                 replica |-> replica, state |-> FirstState(q.route), dead |-> IsDead(q.cred),
                 scopes |-> Absent, ran |-> FALSE, code |-> Pass, why |-> "none", answeredAt |-> time]
<1>1. q \in Asked /\ q.route \in Endpoints /\ time \in Int
  BY AccessAssumption DEF AccessInv, Asked
<1>2. requests' = [requests EXCEPT ![s] = p] /\ UNCHANGED <<time, workload, apiKeys>>
  BY DEF Arrive
<1>3. p \in RequestRecords
  <2>1. FirstState(q.route) \in {"guarding", "authorizing", "limiting", "handling", "answered"}
    BY DEF FirstState
  <2>2. IsDead(q.cred) \in BOOLEAN
    BY DEF IsDead
  <2> QED BY <1>1, <2>1, <2>2 DEF RequestRecords, Pass
<1>4. RequestHolds(p, apiKeys, time)
  BY DEF RequestHolds, FirstState, IsDead, IsLiveKey, LiveAt
<1> HIDE DEF p
<1> QED BY <1>2, <1>3, <1>4, SlotMoves

\* The next station of a request that the limiters let through.
LEMMA ProceedKeeps ==
    ASSUME AccessInv, NEW s \in Slots, requests[s] # Absent, ~requests[s].ran,
           NEW state \in {"authorizing", "handling"}, Proceed(s, state),
           requests[s].state = (IF state = "handling" THEN "limiting" ELSE "guarding"),
           UNCHANGED <<time, workload, apiKeys>>
    PROVE  AccessInv'
<1> DEFINE q == requests[s]
           p == [q EXCEPT !.state = state]
<1>1. q \in RequestRecords /\ RequestHolds(q, apiKeys, time)
  BY DEF AccessInv
<1>2. requests' = [requests EXCEPT ![s] = p]
  BY DEF Proceed, AccessInv
<1>3. p \in RequestRecords
  BY <1>1 DEF RequestRecords
<1>4. RequestHolds(p, apiKeys, time)
  BY <1>1 DEF RequestRecords, RequestHolds, Entitled, InScope
<1> HIDE DEF p
<1> QED BY <1>2, <1>3, <1>4, SlotMoves

\* A credential that is looked up entitles to its route.
LEMMA LookedUp ==
    ASSUME AccessInv, NEW s \in Slots, requests[s] # Absent,
           NEW auth, auth = (IF requests[s].route.gate = "admin" THEN AdminAuth(requests[s].cred)
                             ELSE ReadAuth(requests[s].cred)),
           requests[s].route.gate \in {"admin", "read"}, auth # Refused
    PROVE  /\ auth.scopes \in {Namespaces \cup {Absent}} \cup ScopeSets
           /\ Entitled([requests[s] EXCEPT !.state = "limiting", !.scopes = auth.scopes], apiKeys)
<1> DEFINE q == requests[s]
           row == LookupKey(q.cred)
<1>1. q \in RequestRecords /\ RequestHolds(q, apiKeys, time)
  BY DEF AccessInv
<1>2. CASE \/ q.cred # Absent /\ q.cred = StaticAdmin
           \/ q.cred # Absent /\ q.cred = StaticRead /\ q.route.gate = "read"
  <2>1. auth = Everything
    BY <1>2 DEF AdminAuth, ReadAuth
  <2> QED BY <1>1, <1>2, <2>1 DEF Everything, Entitled, RequestRecords
<1>3. CASE ~(\/ q.cred # Absent /\ q.cred = StaticAdmin
             \/ q.cred # Absent /\ q.cred = StaticRead /\ q.route.gate = "read")
  <2>1. row # Absent /\ auth = WithScopes(row) /\ (q.route.gate = "admin" => row.role = "admin")
    BY <1>3 DEF AdminAuth, ReadAuth
  <2>2. /\ q.cred \in RawKeys /\ row = apiKeys[q.cred] /\ LiveAt(row, time)
    BY <2>1 DEF LookupKey, IsLiveKey, LiveAt
  <2>3. ~q.dead
    BY <1>1, <2>2 DEF RequestHolds
  <2>4. row \in KeyRows
    BY <2>1, <2>2 DEF AccessInv
  <2>5. auth.scopes = row.scopes /\ row.scopes \in ScopeSets
    BY <2>1, <2>4 DEF WithScopes, KeyRows
  <2> QED BY <1>1, <2>1, <2>2, <2>3, <2>5 DEF Entitled, RequestRecords
<1> QED BY <1>2, <1>3

LEMMA AuthorizeKeeps ==
    ASSUME AccessInv, NEW s \in Slots, Authorize(s)
    PROVE  AccessInv'
<1> DEFINE q == requests[s]
           auth == IF q.route.gate = "admin" THEN AdminAuth(q.cred) ELSE ReadAuth(q.cred)
           p == [q EXCEPT !.state = "limiting", !.scopes = auth.scopes]
<1>1. q # Absent /\ q \in RequestRecords /\ RequestHolds(q, apiKeys, time) /\ ~q.ran
      /\ q.route.gate # "open"
  BY DEF AccessInv, Authorize, In, RequestHolds
<1>2. UNCHANGED <<time, workload, apiKeys>>
  BY DEF Authorize
<1>3. CASE auth = Refused
  <2>1. Respond(s, "unauthorized", "credential")
    BY <1>3 DEF Authorize
  <2> QED BY <1>1, <1>2, <2>1, RespondKeeps
<1>4. CASE auth # Refused
  <2>1. requests' = [requests EXCEPT ![s] = p]
    BY <1>4 DEF Authorize, AccessInv
  <2>2. q.route.gate \in {"admin", "read"}
    BY <1>1 DEF RequestRecords, Endpoints, Route, CheckRoute, CheckBatchRoute, ExpandRoute,
           ListObjectsRoute, ListUsersRoute, ScopeRoute, WatchRoute, WriteRoute, WriteBatchRoute,
           DeleteRoute, PublishRoute, CompileRoute, HealthRoute, DocumentRoute, MetricsRoute
  <2>3. auth.scopes \in {Namespaces \cup {Absent}} \cup ScopeSets /\ Entitled(p, apiKeys)
    <3>1. \E a : a = auth
      OBVIOUS
    <3> QED BY <1>1, <1>4, <2>2, LookedUp
  <2> HIDE DEF auth
  <2>4. p \in RequestRecords /\ ~p.ran /\ p.dead = q.dead /\ p.cred = q.cred /\ p.route = q.route
    BY <1>1, <2>3 DEF RequestRecords
  <2> HIDE DEF p
  <2>5. RequestHolds(p, apiKeys, time)
    BY <1>1, <2>3, <2>4 DEF RequestHolds
  <2> QED BY <1>2, <2>1, <2>4, <2>5, SlotMoves
<1> QED BY <1>3, <1>4

\* The work of the handler, once its checks have passed.
LEMMA RunKeeps ==
    ASSUME AccessInv, NEW s \in Slots, HandlerRuns(s)
    PROVE  AccessInv'
<1> DEFINE q == requests[s]
<1>1. q # Absent /\ q \in RequestRecords /\ RequestHolds(q, apiKeys, time) /\ time \in Int
      /\ q.state = "handling"
  BY DEF AccessInv, HandlerRuns, In
<1>2. PICK o \in RunOutcomes(Work(q.route)) :
          requests' = [requests EXCEPT ![s].state = "answered", ![s].ran = TRUE,
                         ![s].code = o, ![s].why = "work", ![s].answeredAt = time]
  BY DEF HandlerRuns
<1> DEFINE p == [q EXCEPT !.state = "answered", !.ran = TRUE, !.code = o, !.why = "work",
                          !.answeredAt = time]
<1>3. requests' = [requests EXCEPT ![s] = p] /\ UNCHANGED <<time, workload, apiKeys>>
  BY <1>2 DEF HandlerRuns, AccessInv
<1>4. o \in {"served", "infrastructure_unavailable", "invalid_request"}
  <2>1. Work(q.route) \in {"run", "runChecked", "runTargets"}
    <3>1. q.route \in Endpoints
      BY <1>1 DEF RequestRecords
    <3> QED BY <3>1, StagesAreKnown DEF Works
  <2> QED BY <2>1 DEF RunOutcomes, ValidatedOutcomes, GuardedOutcomes, ServedOutcomes
<1>5. p \in RequestRecords
  BY <1>1, <1>4 DEF RequestRecords
<1>6. q.route.gate # "open" => InScope(q) /\ (q.route = MetricsRoute => Absent \in q.scopes)
  <2>1. q.route \in Endpoints
    BY <1>1 DEF RequestRecords
  <2> QED BY <2>1, ChecksCoverScopes DEF HandlerRuns
<1>7. RequestHolds(p, apiKeys, time)
  BY <1>1, <1>6 DEF RequestRecords, RequestHolds, Entitled, InScope
<1> HIDE DEF p
<1> QED BY <1>3, <1>5, <1>7, SlotMoves

\* A key that is made or revoked.
LEMMA KeyKeeps ==
    ASSUME AccessInv, NEW k \in RawKeys, NEW row \in KeyRows,
           apiKeys' = [apiKeys EXCEPT ![k] = row], UNCHANGED <<time, workload, requests>>,
           apiKeys[k] = Absent \/ (/\ row.role = apiKeys[k].role /\ row.scopes = apiKeys[k].scopes
                                  /\ ~LiveAt(row, time))
    PROVE  AccessInv'
<1>1. /\ apiKeys' \in [RawKeys -> KeyRows \cup {Absent}]
      /\ apiKeys'[k] = row /\ row # Absent
      /\ \A j \in RawKeys \ {k} : apiKeys'[j] = apiKeys[j]
  BY AccessAssumption DEF AccessInv
<1>2. ASSUME NEW q, RequestHolds(q, apiKeys, time) PROVE RequestHolds(q, apiKeys', time)
  <2>1. q.dead => q.cred \in RawKeys /\ apiKeys'[q.cred] # Absent /\ ~LiveAt(apiKeys'[q.cred], time)
    BY <1>1, <1>2 DEF RequestHolds
  <2>2. Entitled(q, apiKeys) => Entitled(q, apiKeys')
    BY <1>1 DEF Entitled
  <2> QED BY <1>2, <2>1, <2>2 DEF RequestHolds
<1> QED BY <1>1, <1>2 DEF AccessInv

LEMMA RequestKeeps ==
    ASSUME AccessInv, NEW s \in Slots, RequestStep(s)
    PROVE  AccessInv'
<1> DEFINE q == requests[s]
<1>1. CASE \E q0 \in Traffic[workload].requests, r \in Replicas : Arrive(s, q0, r)
  BY <1>1, ArriveKeeps
<1>2. CASE FloodGuard(s)
  <2>1. /\ q # Absent /\ q.state = "guarding" /\ UNCHANGED <<time, workload, apiKeys>>
        /\ Proceed(s, "authorizing") \/ Respond(s, "rate_limited", "flood")
    BY <1>2 DEF FloodGuard, In
  <2>2. ~q.ran
    BY <2>1 DEF AccessInv, RequestHolds
  <2> QED BY <2>1, <2>2, ProceedKeeps, RespondKeeps
<1>3. CASE StoreUnreachable(s)
  <2>1. /\ q # Absent /\ q.state \in {"guarding", "limiting"} /\ UNCHANGED <<time, workload, apiKeys>>
        /\ Respond(s, "infrastructure_unavailable", "store")
    BY <1>3 DEF StoreUnreachable, In
  <2>2. ~q.ran
    BY <2>1 DEF AccessInv, RequestHolds
  <2> QED BY <2>1, <2>2, RespondKeeps
<1>4. CASE Authorize(s)
  BY <1>4, AuthorizeKeeps
<1>5. CASE KeyLookupFails(s)
  <2>1. /\ q # Absent /\ q.state = "authorizing" /\ UNCHANGED <<time, workload, apiKeys>>
        /\ Respond(s, "infrastructure_unavailable", "database")
    BY <1>5 DEF KeyLookupFails, In
  <2>2. ~q.ran
    BY <2>1 DEF AccessInv, RequestHolds
  <2> QED BY <2>1, <2>2, RespondKeeps
<1>6. CASE LimitRoute(s)
  <2>1. /\ q # Absent /\ q.state = "limiting" /\ UNCHANGED <<time, workload, apiKeys>>
        /\ Proceed(s, "handling") \/ Respond(s, "rate_limited", "limit")
    BY <1>6 DEF LimitRoute, In
  <2>2. ~q.ran
    BY <2>1 DEF AccessInv, RequestHolds
  <2> QED BY <2>1, <2>2, ProceedKeeps, RespondKeeps
<1>7. CASE HandlerRefuses(s)
  <2>1. /\ q # Absent /\ q.state = "handling" /\ UNCHANGED <<time, workload, apiKeys>>
    BY <1>7 DEF HandlerRefuses, In
  <2>2. ~q.ran
    BY <2>1 DEF AccessInv, RequestHolds
  <2>3. PICK i \in ChecksOf(q.route) :
            \E o \in StageOutcomes(q, q.route.stages[i]) \ {Pass} : Respond(s, o, "handler")
    BY <1>7, Zenon DEF HandlerRefuses
  <2>4. ASSUME NEW o \in StageOutcomes(q, q.route.stages[i]) \ {Pass}
        PROVE  o \in {"rate_limited", "unauthorized", "forbidden", "invalid_request",
                     "infrastructure_unavailable"}
    <3>1. q.route \in Endpoints
      BY <2>1 DEF AccessInv, RequestRecords
    <3>2. q.route.stages[i] \in Checks
      BY <3>1, StagesAreKnown
    <3> QED BY <3>2 DEF Checks, StageOutcomes, WordOutcomes, FilterOutcomes, CompiledOutcomes, Pass
  <2> QED BY <2>1, <2>2, <2>3, <2>4, RespondKeeps
<1>8. CASE HandlerRuns(s)
  BY <1>8, RunKeeps
<1>9. CASE Finish(s)
  BY <1>9, SlotMoves DEF Finish
<1> QED BY <1>1, <1>2, <1>3, <1>4, <1>5, <1>6, <1>7, <1>8, <1>9 DEF RequestStep

LEMMA AccessNextKeeps ==
    ASSUME AccessInv, AccessNext
    PROVE  AccessInv'
<1>1. CASE TimePasses
  <2>1. /\ time' = time + 1 /\ time \in Int /\ apiKeys \in [RawKeys -> KeyRows \cup {Absent}]
        /\ UNCHANGED <<workload, apiKeys, requests>>
    BY <1>1 DEF TimePasses, AccessInv
  <2>2. ASSUME NEW k \in RawKeys, LiveAt(apiKeys[k], time') PROVE LiveAt(apiKeys[k], time)
    <3>1. apiKeys[k] \in KeyRows /\ apiKeys[k].expires \in Int \cup {Absent}
      BY <2>1, <2>2, AccessAssumption DEF LiveAt, KeyRows
    <3> QED BY <2>1, <2>2, <3>1 DEF LiveAt
  <2>3. ASSUME NEW q, RequestHolds(q, apiKeys, time) PROVE RequestHolds(q, apiKeys, time')
    BY <2>2, <2>3 DEF RequestHolds
  <2> QED BY <2>1, <2>3 DEF AccessInv
<1>2. CASE \E s \in Slots : RequestStep(s)
  BY <1>2, RequestKeeps
<1>3. ASSUME NEW k \in RawKeys, NEW role \in {"admin", "readonly"}, NEW scopes \in ScopeSets,
             NEW expires \in KeyExpiries, CreateKey(k, role, scopes, expires)
      PROVE  AccessInv'
  <2> DEFINE row == [role |-> role, scopes |-> scopes, expires |-> expires, revoked |-> FALSE]
  <2>1. row \in KeyRows
    BY DEF KeyRows
  <2>2. /\ apiKeys' = [apiKeys EXCEPT ![k] = row] /\ UNCHANGED <<time, workload, requests>>
        /\ apiKeys[k] = Absent
    BY <1>3 DEF CreateKey
  <2> HIDE DEF row
  <2> QED BY <2>1, <2>2, KeyKeeps
<1>4. ASSUME NEW k \in RawKeys, RevokeKey(k) PROVE AccessInv'
  <2> DEFINE row == [apiKeys[k] EXCEPT !.revoked = TRUE]
  <2>1. apiKeys[k] \in KeyRows
    BY <1>4 DEF RevokeKey, AccessInv
  <2>2. row \in KeyRows /\ row.role = apiKeys[k].role /\ row.scopes = apiKeys[k].scopes /\ row.revoked
    BY <2>1 DEF KeyRows
  <2>3. apiKeys' = [apiKeys EXCEPT ![k] = row] /\ UNCHANGED <<time, workload, requests>>
    BY <1>4 DEF RevokeKey, AccessInv
  <2>4. ~LiveAt(row, time)
    BY <2>2 DEF LiveAt
  <2> HIDE DEF row
  <2> QED BY <2>2, <2>3, <2>4, KeyKeeps
<1> QED BY <1>1, <1>2, <1>3, <1>4 DEF AccessNext, KeyStep

\* Whatever requests meet on their way, however keys are made and revoked meanwhile:
\* the work of a route that is not open is done only for a credential that may ask for
\* it, and within its scopes (requireAdminAuth and requireReadAuth of server.ts, the
\* checks of the handlers, db-api-keys.ts).
THEOREM WorkIsAuthorized == AccessSpec => []RanWithAuthority
<1>1. ASSUME AccessInv, [AccessNext]_accessVars PROVE AccessInv'
  <2>1. CASE UNCHANGED accessVars
    BY <1>1, <2>1 DEF accessVars, AccessInv
  <2> QED BY <1>1, <2>1, AccessNextKeeps
<1>2. ASSUME AccessInv PROVE RanWithAuthority
  <2> SUFFICES ASSUME NEW s \in Slots, requests[s] # Absent, requests[s].route.gate # "open",
                      requests[s].ran,
                      ~(/\ requests[s].cred # Absent /\ requests[s].cred = StaticAdmin),
                      ~(/\ requests[s].cred # Absent /\ requests[s].cred = StaticRead
                        /\ requests[s].route.gate = "read")
               PROVE  LET q == requests[s] IN
                      /\ q.cred \in RawKeys
                      /\ ~q.dead
                      /\ q.route.gate = "admin" => apiKeys[q.cred].role = "admin"
                      /\ \/ apiKeys[q.cred].scopes = {Absent}
                         \/ q.namespaces \subseteq apiKeys[q.cred].scopes /\ q.route # MetricsRoute
    BY DEF RanWithAuthority
  <2> DEFINE q == requests[s]
  <2>1. RequestHolds(q, apiKeys, time)
    BY <1>2 DEF AccessInv
  <2>2. /\ q.cred \in RawKeys /\ ~q.dead /\ apiKeys[q.cred] # Absent
        /\ q.route.gate = "admin" => apiKeys[q.cred].role = "admin"
        /\ q.scopes = apiKeys[q.cred].scopes
    BY <2>1 DEF RequestHolds, Entitled
  <2>3. InScope(q) /\ (q.route = MetricsRoute => Absent \in q.scopes)
    BY <2>1 DEF RequestHolds
  <2>4. Absent \in q.scopes => q.scopes = {Absent}
    <3>1. apiKeys[q.cred] \in KeyRows
      BY <1>2, <2>2 DEF AccessInv
    <3> QED BY <2>2, <3>1, AccessAssumption DEF KeyRows
  <2> QED BY <2>2, <2>3, <2>4 DEF InScope
<1> QED BY <1>1, <1>2, AccessInvInit, PTL DEF AccessSpec

-----------------------------------------------------------------------------
(* What the limiters let through. *)

\* The events after a, up to b; and those of them that passed.
DidPass(f) == f.event.passed \in {TRUE}
Span(E, a, b) == { f \in E : a < f.event.at /\ f.event.at <= b }
Passed(E, a, b) == { f \in E : a < f.event.at /\ f.event.at <= b /\ DidPass(f) }

\* How a counter c stands, at t, to the events E on its account: it has counted those
\* since its start and let at most max of them pass, the first for certain; in the
\* Window before its start at most max - 1 passed; and no Window saw more than both.
TallyHolds(E, c, t, max) ==
    /\ IsFiniteSet(E)
    /\ \A f \in E : /\ f.event.at \in Int /\ f.event.at <= t /\ f.event.at < c.start + Window
    /\ c.count \in Nat /\ c.start \in Int /\ c.start <= t
    /\ Cardinality(Span(E, c.start - 1, t)) = c.count
    /\ Cardinality(Passed(E, c.start - 1, t)) <= max
    /\ \E f \in E : f.event.at = c.start /\ DidPass(f)
    /\ Cardinality(Passed(E, c.start - Window, c.start - 1)) <= max - 1
    /\ \A u \in Int : Cardinality(Passed(E, u - Window, u)) <= 2 * max - 1

LEMMA WindowIsPositive == Window \in Nat \ {0}
  BY AccessAssumption

LEMMA PartsAreFinite ==
    ASSUME NEW E, IsFiniteSet(E)
    PROVE  /\ \A a, b : IsFiniteSet(Span(E, a, b)) /\ Cardinality(Span(E, a, b)) \in Nat
           /\ \A a, b : /\ IsFiniteSet(Passed(E, a, b))
                        /\ Cardinality(Passed(E, a, b)) \in Nat
<1>1. \A a, b : Span(E, a, b) \subseteq E /\ Passed(E, a, b) \subseteq E
  BY DEF Span, Passed
<1> QED BY <1>1, FS_Subset, FS_CardinalityType

\* The Window that ends at u, after a start, is part of what lies before the start
\* and of what lies since.
LEMMA TwoWindows ==
    ASSUME NEW E, NEW a \in Int, NEW t \in Int, NEW u \in Int, a <= u, IsFiniteSet(E),
           \A f \in E : f.event.at \in Int /\ f.event.at <= t,
           NEW m \in Nat, NEW n \in Nat,
           Cardinality(Passed(E, a - Window, a - 1)) <= m,
           Cardinality(Passed(E, a - 1, t)) <= n
    PROVE  Cardinality(Passed(E, u - Window, u)) <= m + n
<1> DEFINE A == Passed(E, a - Window, a - 1)
           B == Passed(E, a - 1, t)
           C == Passed(E, u - Window, u)
<1>1. IsFiniteSet(A) /\ IsFiniteSet(B) /\ Cardinality(A) \in Nat /\ Cardinality(B) \in Nat
  BY PartsAreFinite
<1>2. C \subseteq A \cup B
  <2>1. Window \in Nat
    BY AccessAssumption
  <2>2. ASSUME NEW f \in E, u - Window < f.event.at, f.event.at <= u
        PROVE  \/ a - Window < f.event.at /\ f.event.at <= a - 1
               \/ a - 1 < f.event.at /\ f.event.at <= t
    BY <2>1, <2>2
  <2> QED BY <2>2 DEF Passed, Span
<1>3. IsFiniteSet(A \cup B) /\ Cardinality(A \cup B) = Cardinality(A) + Cardinality(B) - Cardinality(A \cap B)
  BY <1>1, FS_Union
<1>4. Cardinality(A \cap B) \in Nat /\ IsFiniteSet(C) /\ Cardinality(C) \in Nat
      /\ Cardinality(C) <= Cardinality(A \cup B)
  <2>1. A \cap B \subseteq A
    OBVIOUS
  <2> HIDE DEF A, B, C
  <2> QED BY <1>1, <1>2, <1>3, <2>1, FS_Subset, FS_CardinalityType
<1>5. Cardinality(A) <= m /\ Cardinality(B) <= n
  OBVIOUS
<1>6. Cardinality(C) <= m + n
  <2> HIDE DEF A, B, C
  <2> QED BY <1>1, <1>3, <1>4, <1>5
<1> QED BY <1>6

\* One event more, at t.
Grows(E, F, f, t) ==
    \A a, b \in Int :
       /\ b < t => Span(F, a, b) = Span(E, a, b) /\ Passed(F, a, b) = Passed(E, a, b)
       /\ a < t /\ t <= b => Span(F, a, b) = Span(E, a, b) \cup {f}
       /\ a < t /\ t <= b /\ DidPass(f) => Passed(F, a, b) = Passed(E, a, b) \cup {f}
       /\ ~DidPass(f) => Passed(F, a, b) = Passed(E, a, b)

LEMMA OneEventMore ==
    ASSUME NEW E, NEW f, NEW t \in Int, f.event.at = t
    PROVE  Grows(E, E \cup {f}, f, t)
<1> DEFINE F == E \cup {f}
<1>1. ASSUME NEW a \in Int, NEW b \in Int, b < t
      PROVE  Span(F, a, b) = Span(E, a, b) /\ Passed(F, a, b) = Passed(E, a, b)
  BY <1>1 DEF Span, Passed
<1>2. ASSUME NEW a \in Int, NEW b \in Int, a < t, t <= b
      PROVE  /\ Span(F, a, b) = Span(E, a, b) \cup {f}
             /\ DidPass(f) => Passed(F, a, b) = Passed(E, a, b) \cup {f}
  BY <1>2 DEF Span, Passed
<1>3. ASSUME NEW a \in Int, NEW b \in Int, ~DidPass(f)
      PROVE  Passed(F, a, b) = Passed(E, a, b)
  BY <1>3 DEF Passed
<1> QED BY <1>1, <1>2, <1>3 DEF Grows

\* The first request past a window opens the next one.
LEMMA WindowOpens ==
    ASSUME NEW E, NEW f, f \notin E, NEW c, NEW t \in Int, NEW max \in Nat \ {0},
           E = {} \/ (TallyHolds(E, c, t, max) /\ t - c.start >= Window),
           f.event.at = t, DidPass(f)
    PROVE  TallyHolds(E \cup {f}, [count |-> 1, start |-> t], t, max)
<1> DEFINE F == E \cup {f}
<1>0. Grows(E, F, f, t)
  BY OneEventMore
<1>1. Window \in Nat \ {0}
  BY AccessAssumption
<1>2. IsFiniteSet(E) /\ IsFiniteSet(F)
  BY FS_EmptySet, FS_AddElement DEF TallyHolds
<1>3. \A g \in E : /\ g.event.at \in Int /\ g.event.at < t
  BY <1>1 DEF TallyHolds
<1>4. Span(E, t - 1, t) = {} /\ Passed(E, t - 1, t) = {}
  BY <1>3 DEF Span, Passed
<1>5. /\ Cardinality(Span(F, t - 1, t)) = 1
      /\ Cardinality(Passed(F, t - 1, t)) = 1
  <2>1. /\ Span(F, t - 1, t) = Span(E, t - 1, t) \cup {f}
        /\ Passed(F, t - 1, t) = Passed(E, t - 1, t) \cup {f}
    BY <1>0, t - 1 \in Int, t - 1 < t, t <= t DEF Grows
  <2>2. Span(F, t - 1, t) = {f} /\ Passed(F, t - 1, t) = {f}
    BY <1>4, <2>1
  <2> QED BY <2>2, FS_Singleton
<1>6. Cardinality(Passed(F, t - Window, t - 1)) <= max - 1
  <2> DEFINE A == Passed(E, t - Window, t - 1)
  <2>1. Passed(F, t - Window, t - 1) = A
    BY <1>0, <1>1, t - 1 \in Int, t - Window \in Int, t - 1 < t DEF Grows
  <2>2. CASE E = {}
    <3>1. A = {}
      BY <2>2 DEF Span, Passed
    <3> QED BY <2>1, <3>1, FS_EmptySet
  <2>3. CASE TallyHolds(E, c, t, max) /\ t - c.start >= Window
    <3> DEFINE B == Passed(E, c.start - 1, t)
    <3>1. PICK g \in E : g.event.at = c.start /\ DidPass(g)
      BY <2>3 DEF TallyHolds
    <3>2. c.start \in Int /\ c.start <= t - Window
      BY <1>1, <2>3 DEF TallyHolds
    <3>3. g \in B /\ A \subseteq B \ {g}
      BY <1>1, <1>3, <3>1, <3>2 DEF Span, Passed
    <3>4. IsFiniteSet(B) /\ Cardinality(B) \in Nat /\ Cardinality(B) <= max
      BY <1>2, <2>3, PartsAreFinite DEF TallyHolds
    <3> HIDE DEF A, B
    <3>5. IsFiniteSet(B \ {g}) /\ Cardinality(B \ {g}) = Cardinality(B) - 1
      BY <3>3, <3>4, FS_RemoveElement
    <3>6. Cardinality(A) <= Cardinality(B) - 1
      BY <3>3, <3>5, FS_Subset
    <3>7. Cardinality(A) \in Nat
      BY <3>3, <3>5, FS_Subset, FS_CardinalityType
    <3> QED BY <2>1, <3>4, <3>6, <3>7
  <2> QED BY <2>2, <2>3
<1>7. ASSUME NEW u \in Int PROVE Cardinality(Passed(F, u - Window, u)) <= 2 * max - 1
  <2>1. CASE u < t
    <3>1. Passed(F, u - Window, u) = Passed(E, u - Window, u)
      BY <1>0, <1>1, <2>1, u - Window \in Int DEF Grows
    <3>2. CASE E = {}
      <4>1. Passed(E, u - Window, u) = {}
        BY <3>2 DEF Passed
      <4>2. Cardinality(Passed(F, u - Window, u)) = 0
        BY <3>1, <4>1, FS_EmptySet, Zenon
      <4> QED BY <4>2
    <3> QED BY <3>1, <3>2 DEF TallyHolds
  <2>2. CASE t <= u
    <3>1. Cardinality(Passed(F, t - 1, t)) <= max
      BY <1>5
    <3>2. \A g \in F : g.event.at \in Int /\ g.event.at <= t
      BY <1>3
    <3> HIDE DEF F
    <3>3. Cardinality(Passed(F, u - Window, u)) <= (max - 1) + max
      BY <1>2, <1>6, <2>2, <3>1, <3>2, TwoWindows, max - 1 \in Nat
    <3> QED BY <3>3
  <2> QED BY <2>1, <2>2
<1>8. \E g \in F : g.event.at = t /\ DidPass(g)
  OBVIOUS
<1> HIDE DEF F
<1>9. \A g \in F : /\ g.event.at \in Int /\ g.event.at <= t /\ g.event.at < t + Window
  BY <1>1, <1>3 DEF F
<1> DEFINE d == [count |-> 1, start |-> t]
<1>10. d.count = 1 /\ d.start = t
  OBVIOUS
<1> HIDE DEF d
<1>11. TallyHolds(F, d, t, max)
  BY <1>2, <1>5, <1>6, <1>7, <1>8, <1>9, <1>10 DEF TallyHolds
<1> QED BY <1>11 DEF F, d

\* A request within the window is counted in it.
LEMMA WindowGoesOn ==
    ASSUME NEW E, NEW f, f \notin E, NEW c, NEW t \in Int, NEW max \in Nat \ {0},
           TallyHolds(E, c, t, max), t - c.start < Window, f.event.at = t,
           (c.count + 1 <= max /\ DidPass(f)) \/ ~DidPass(f),
           NEW d, d.count = c.count + 1, d.start = c.start
    PROVE  TallyHolds(E \cup {f}, d, t, max)
<1> DEFINE F == E \cup {f}
           a == c.start
<1>0. Grows(E, F, f, t)
  BY OneEventMore
<1>b. a \in Int /\ a <= t /\ c.count \in Nat
  BY DEF TallyHolds
<1>1. Window \in Nat \ {0} /\ a \in Int /\ a <= t /\ c.count \in Nat /\ t < a + Window
  BY <1>b, WindowIsPositive
<1>2. IsFiniteSet(E) /\ IsFiniteSet(F)
  BY FS_AddElement DEF TallyHolds
<1>3. \A g \in F : /\ g.event.at \in Int /\ g.event.at <= t /\ g.event.at < a + Window
  BY <1>1 DEF TallyHolds
<1>4. Cardinality(Span(F, a - 1, t)) = c.count + 1
  <2>1. Span(F, a - 1, t) = Span(E, a - 1, t) \cup {f}
    BY <1>0, <1>1, a - 1 \in Int, a - 1 < t, t <= t DEF Grows
  <2>2. f \notin Span(E, a - 1, t)
    BY DEF Span
  <2>3. IsFiniteSet(Span(E, a - 1, t)) /\ Cardinality(Span(E, a - 1, t)) = c.count
    BY <1>2, PartsAreFinite DEF TallyHolds
  <2> QED BY <2>1, <2>2, <2>3, FS_AddElement
<1>5. Cardinality(Passed(F, a - 1, t)) <= max
  <2>1. CASE c.count + 1 <= max
    <3> DEFINE A == Span(F, a - 1, t)
               B == Passed(F, a - 1, t)
    <3>1. B \subseteq A
      BY DEF Span, Passed
    <3>2. IsFiniteSet(A) /\ Cardinality(B) \in Nat
      BY <1>2, PartsAreFinite
    <3>3. Cardinality(A) = c.count + 1
      BY <1>4
    <3> HIDE DEF A, B
    <3>4. Cardinality(B) <= Cardinality(A)
      BY <3>1, <3>2, FS_Subset
    <3>5. Cardinality(B) <= max
      BY <1>1, <2>1, <3>2, <3>3, <3>4
    <3> QED BY <3>5 DEF B
  <2>2. CASE ~DidPass(f)
    <3>1. Passed(F, a - 1, t) = Passed(E, a - 1, t)
      BY <1>0, <1>1, <2>2, a - 1 \in Int DEF Grows
    <3> QED BY <3>1 DEF TallyHolds
  <2> QED BY <2>1, <2>2
<1>6. Cardinality(Passed(F, a - Window, a - 1)) <= max - 1
  <2>1. Passed(F, a - Window, a - 1) = Passed(E, a - Window, a - 1)
    BY <1>0, <1>1, a - 1 \in Int, a - Window \in Int, a - 1 < t DEF Grows
  <2> QED BY <2>1 DEF TallyHolds
<1>7. ASSUME NEW u \in Int PROVE Cardinality(Passed(F, u - Window, u)) <= 2 * max - 1
  <2>1. CASE u < t
    <3>1. Passed(F, u - Window, u) = Passed(E, u - Window, u)
      BY <1>0, <1>1, <2>1, u - Window \in Int DEF Grows
    <3> QED BY <3>1 DEF TallyHolds
  <2>2. CASE t <= u
    <3> HIDE DEF F, a
    <3>1. Cardinality(Passed(F, u - Window, u)) <= (max - 1) + max
      BY <1>1, <1>2, <1>3, <1>5, <1>6, <2>2, TwoWindows, max - 1 \in Nat, a <= u
    <3> QED BY <3>1
  <2> QED BY <2>1, <2>2
<1>8. \E g \in F : g.event.at = a /\ DidPass(g)
  BY DEF TallyHolds
<1> HIDE DEF F
<1>9. TallyHolds(F, d, t, max)
  BY <1>1, <1>2, <1>3, <1>4, <1>5, <1>6, <1>7, <1>8 DEF TallyHolds
<1> QED BY <1>9 DEF F

LEMMA TallyLasts ==
    ASSUME NEW E, NEW c, NEW t \in Int, NEW u \in Int, t <= u, NEW max, TallyHolds(E, c, t, max)
    PROVE  TallyHolds(E, c, u, max)
<1>1. Span(E, c.start - 1, u) = Span(E, c.start - 1, t) /\ Passed(E, c.start - 1, u) = Passed(E, c.start - 1, t)
  BY DEF TallyHolds, Span, Passed
<1> QED BY <1>1 DEF TallyHolds

\* A request counted by any store.
LEMMA CountedInTally ==
    ASSUME NEW E, NEW f, f \notin E, NEW counters, NEW k, NEW max \in Nat \ {0}, time \in Int,
           IF k \in DOMAIN counters THEN TallyHolds(E, counters[k], time, max) ELSE E = {},
           f.event.at = time, DidPass(f) <=> Counted(counters, k).count <= max
    PROVE  /\ TallyHolds(E \cup {f}, Counted(counters, k), time, max)
           /\ time - Window < Counted(counters, k).start
<1> DEFINE d == Counted(counters, k)
<1>1. CASE k \in DOMAIN counters /\ time - counters[k].start < Window
  <2>1. d.count = counters[k].count + 1 /\ d.start = counters[k].start
    BY <1>1 DEF Counted
  <2>2. TallyHolds(E, counters[k], time, max)
    BY <1>1
  <2>3. (counters[k].count + 1 <= max /\ DidPass(f)) \/ ~DidPass(f)
    BY <2>1
  <2> HIDE DEF d
  <2>4. TallyHolds(E \cup {f}, d, time, max)
    BY <1>1, <2>1, <2>2, <2>3, WindowGoesOn
  <2>5. time - Window < d.start
    <3>1. Window \in Nat /\ counters[k].start \in Int
      BY <2>2, WindowIsPositive DEF TallyHolds
    <3> QED BY <1>1, <2>1, <3>1
  <2> QED BY <2>4, <2>5 DEF d
<1>2. CASE ~(k \in DOMAIN counters /\ time - counters[k].start < Window)
  <2>1. d = [count |-> 1, start |-> time]
    BY <1>2 DEF Counted
  <2>2. DidPass(f)
    BY <2>1
  <2>3. E = {} \/ (TallyHolds(E, counters[k], time, max) /\ time - counters[k].start >= Window)
    <3>1. Window \in Nat
      BY AccessAssumption
    <3>2. CASE k \in DOMAIN counters
      <4>1. TallyHolds(E, counters[k], time, max) /\ ~(time - counters[k].start < Window)
        BY <1>2, <3>2
      <4>2. counters[k].start \in Int
        BY <4>1 DEF TallyHolds
      <4> QED BY <3>1, <4>1, <4>2
    <3> QED BY <3>2
  <2>4. TallyHolds(E \cup {f}, [count |-> 1, start |-> time], time, max)
    BY <2>2, <2>3, WindowOpens
  <2>5. time - Window < time
    BY AccessAssumption
  <2> QED BY <2>1, <2>4, <2>5
<1> QED BY <1>1, <1>2

-----------------------------------------------------------------------------
\* What was counted on one account, and how a counter stands to it.
Account(A, store, limiter, payer) ==
    { f \in A : f.event.store = store /\ f.event.limiter = limiter /\ f.event.payer = payer }

Stands(E, counters, k, t, max) ==
    IF k \in DOMAIN counters THEN TallyHolds(E, counters[k], t, max) ELSE E = {}

FloodsStand(A, counters, t) ==
    \A store, payer : Stands(Account(A, store, "flood", payer), counters, <<store, payer>>, t, MaxOf["flood"])
LimitsStand(A, counters, t) ==
    \A l \in Limiters : \A store, payer :
        Stands(Account(A, store, l, payer), counters, <<store, l, payer>>, t, MaxOf[l])

Judged(f) == f.event.passed \in BOOLEAN
LikeIn(A, e) == { f \in A : f.event = e }

\* The events, of which no two are one.
EventsHold(A) ==
    /\ IsFiniteSet(A)
    /\ \A f \in A : /\ f.event.at \in Int
                    /\ Judged(f)
                    /\ f.event.limiter \in Limiters \cup {"flood"}
                    /\ f.nth \in Nat
                    /\ f.nth <= Cardinality(LikeIn(A, f.event))

\* A refusal names its reason, and the reason holds.
RefusalHolds(q, A) ==
    q.state = "answered" /\ q.code = "rate_limited" =>
       LET limiter == IF q.why = "flood" THEN "flood" ELSE q.route.limiter
           payer == IF q.why = "flood" THEN q.chain[2] ELSE Payer(q)
       IN  /\ q.why = "flood" \/ q.route.limiter \in Limiters
           /\ Cardinality(Span(Account(A, StoreOf(q.replica), limiter, payer),
                               q.answeredAt - Window, q.answeredAt)) > MaxOf[limiter]
           /\ (q.why = "limit" /\ q.route.gate # "open") => q.scopes # Absent

CountInv ==
    /\ EventsHold(asked)
    /\ FloodsStand(asked, floods, time)
    /\ LimitsStand(asked, limits, time)
    /\ \A s \in Slots : requests[s] # Absent =>
          /\ RefusalHolds(requests[s], asked)
          /\ requests[s].state = "limiting" /\ requests[s].route.gate # "open" =>
                requests[s].scopes # Absent

LEMMA CountInvInit == AccessInit => CountInv
<1> SUFFICES ASSUME AccessInit PROVE CountInv
  OBVIOUS
<1>1. EventsHold(asked)
  BY FS_EmptySet DEF AccessInit, EventsHold
<1>2. FloodsStand(asked, floods, time) /\ LimitsStand(asked, limits, time)
  BY DEF AccessInit, FloodsStand, LimitsStand, Stands, Account
<1> QED BY <1>1, <1>2 DEF AccessInit, CountInv

LEMMA LimitersAreKnown ==
    /\ "flood" \notin Limiters
    /\ \A r \in Endpoints : r.limiter \in Limiters
    /\ \A l \in Limiters \cup {"flood"} : MaxOf[l] \in Nat \ {0}
<1>1. \A r \in Endpoints : r.limiter # "flood"
  BY DEF Endpoints, Route, CheckRoute, CheckBatchRoute, ExpandRoute, ListObjectsRoute, ListUsersRoute,
         ScopeRoute, WatchRoute, WriteRoute, WriteBatchRoute, DeleteRoute, PublishRoute, CompileRoute,
         HealthRoute, DocumentRoute, MetricsRoute
<1> QED BY <1>1, AccessAssumption DEF Limiters

\* A recorded event is a new one.
LEMMA Recorded ==
    ASSUME EventsHold(asked), NEW e, e.at \in Int, e.passed \in BOOLEAN,
           e.limiter \in Limiters \cup {"flood"}, Record(e)
    PROVE  /\ EventsHold(asked')
           /\ \E f : f \notin asked /\ f.event = e /\ asked' = asked \cup {f}
<1> DEFINE n == Cardinality(LikeIn(asked, e))
           f == [event |-> e, nth |-> n + 1]
           A == asked \cup {f}
<1>1. asked' = A /\ f.event = e /\ f.nth = n + 1
  BY DEF Record, Like, LikeIn
<1>2. \A d : IsFiniteSet(LikeIn(asked, d)) /\ Cardinality(LikeIn(asked, d)) \in Nat
  <2>1. \A d : LikeIn(asked, d) \subseteq asked
    BY DEF LikeIn
  <2> QED BY <2>1, FS_Subset, FS_CardinalityType DEF EventsHold
<1>3. f \notin asked
  <2>1. n \in Nat
    BY <1>2
  <2> HIDE DEF n
  <2>2. f.event = e /\ f.nth = n + 1
    OBVIOUS
  <2> HIDE DEF f
  <2>3. ASSUME f \in asked PROVE FALSE
    <3>1. f.nth <= Cardinality(LikeIn(asked, e))
      BY <2>2, <2>3 DEF EventsHold
    <3>2. n + 1 <= n
      BY <2>2, <3>1 DEF n
    <3> QED BY <2>1, <3>2
  <2> QED BY <2>3
<1> HIDE DEF f, A
<1>4. IsFiniteSet(A)
  BY FS_AddElement DEF A, EventsHold
<1>5. LikeIn(A, e) = LikeIn(asked, e) \cup {f} /\ f \notin LikeIn(asked, e)
  BY <1>1, <1>3 DEF LikeIn, A
<1>6. Cardinality(LikeIn(A, e)) = n + 1
  BY <1>2, <1>5, FS_AddElement
<1>7. \A d : d # e => LikeIn(A, d) = LikeIn(asked, d)
  BY <1>1 DEF LikeIn, A
<1>8. \A d : Cardinality(LikeIn(asked, d)) <= Cardinality(LikeIn(A, d))
  BY <1>2, <1>6, <1>7
<1>9. ASSUME NEW g \in asked
      PROVE  g.nth \in Nat /\ g.nth <= Cardinality(LikeIn(A, g.event))
  <2>1. g.nth \in Nat /\ g.nth <= Cardinality(LikeIn(asked, g.event))
    BY DEF EventsHold
  <2>2. Cardinality(LikeIn(A, g.event)) \in Nat
    BY <1>2, <1>6, <1>7
  <2> QED BY <1>2, <1>8, <2>1, <2>2
<1>10. /\ f.event.at \in Int /\ Judged(f) /\ f.event.limiter \in Limiters \cup {"flood"}
       /\ f.nth \in Nat /\ f.nth <= Cardinality(LikeIn(A, f.event))
  BY <1>1, <1>2, <1>6 DEF Judged
<1>11. \A g \in asked : g.event.at \in Int /\ Judged(g) /\ g.event.limiter \in Limiters \cup {"flood"}
  BY DEF EventsHold
<1>12. EventsHold(A)
  BY <1>4, <1>9, <1>10, <1>11 DEF EventsHold, A
<1> QED BY <1>1, <1>3, <1>12 DEF A

\* More events leave a refusal justified.
LEMMA RefusalLasts ==
    ASSUME NEW q, NEW A, NEW B, A \subseteq B, IsFiniteSet(B), RefusalHolds(q, A),
           q.state = "answered" /\ q.code = "rate_limited" => q.why = "flood" \/ q.route.limiter \in Limiters
    PROVE  RefusalHolds(q, B)
<1>1. ASSUME NEW st, NEW l \in Limiters \cup {"flood"}, NEW pa, NEW a, NEW b,
             Cardinality(Span(Account(A, st, l, pa), a, b)) > MaxOf[l]
      PROVE  Cardinality(Span(Account(B, st, l, pa), a, b)) > MaxOf[l]
  <2> DEFINE S == Span(Account(A, st, l, pa), a, b)
             T == Span(Account(B, st, l, pa), a, b)
  <2>1. S \subseteq T /\ T \subseteq B
    BY DEF Span, Account
  <2> HIDE DEF S, T
  <2>2. IsFiniteSet(T)
    BY <2>1, FS_Subset
  <2>3. IsFiniteSet(S) /\ Cardinality(S) <= Cardinality(T)
    BY <2>1, <2>2, FS_Subset
  <2>4. Cardinality(S) \in Nat /\ Cardinality(T) \in Nat
    BY <2>2, <2>3, FS_CardinalityType
  <2>5. MaxOf[l] \in Nat /\ Cardinality(S) > MaxOf[l]
    BY <1>1, LimitersAreKnown DEF S
  <2> QED BY <2>3, <2>4, <2>5 DEF T
<1> QED BY <1>1 DEF RefusalHolds

\* What one counted event does to the account it is on, and that a refusal by it is due.
LEMMA CountedOnAccount ==
    ASSUME time \in Int, NEW f, f \notin asked, f.event.at = time,
           NEW counters, NEW k, NEW l \in Limiters \cup {"flood"},
           NEW E, E = Account(asked, f.event.store, l, f.event.payer),
           Stands(E, counters, k, time, MaxOf[l]),
           DidPass(f) <=> Counted(counters, k).count <= MaxOf[l]
    PROVE  /\ Stands(E \cup {f}, Put(counters, k, Counted(counters, k)), k, time, MaxOf[l])
           /\ ~DidPass(f) => Cardinality(Span(E \cup {f}, time - Window, time)) > MaxOf[l]
<1> DEFINE d == Counted(counters, k)
           F == E \cup {f}
<1>1. MaxOf[l] \in Nat \ {0} /\ Window \in Nat \ {0}
  BY LimitersAreKnown, AccessAssumption
<1>2. f \notin E
  BY DEF Account
<1>3. TallyHolds(F, d, time, MaxOf[l]) /\ time - Window < d.start
  BY <1>1, <1>2, CountedInTally DEF Stands
<1>4. k \in DOMAIN Put(counters, k, d) /\ Put(counters, k, d)[k] = d
  BY DEF Put
<1> HIDE DEF F, d
<1>5. Stands(F, Put(counters, k, d), k, time, MaxOf[l])
  BY <1>3, <1>4 DEF Stands
<1>6. ASSUME ~DidPass(f) PROVE Cardinality(Span(F, time - Window, time)) > MaxOf[l]
  <2> DEFINE S == Span(F, d.start - 1, time)
             T == Span(F, time - Window, time)
  <2>1. Cardinality(S) = d.count /\ d.count \in Nat /\ IsFiniteSet(F) /\ d.start \in Int
    BY <1>3 DEF TallyHolds
  <2>2. ~(d.count <= MaxOf[l])
    BY <1>6 DEF d
  <2>3. S \subseteq T /\ T \subseteq F
    BY <1>1, <1>3, <2>1 DEF Span, TallyHolds
  <2>4. IsFiniteSet(T) /\ Cardinality(T) \in Nat
    BY <2>1, PartsAreFinite
  <2> HIDE DEF S, T
  <2>5. Cardinality(S) <= Cardinality(T)
    BY <2>3, <2>4, FS_Subset
  <2>6. Cardinality(T) > MaxOf[l]
    BY <1>1, <2>1, <2>2, <2>4, <2>5
  <2> QED BY <2>6 DEF T
<1> QED BY <1>5, <1>6 DEF F, d

\* An event on another account leaves an account as it is.
LEMMA OtherAccount ==
    ASSUME NEW A, NEW f, NEW st, NEW l, NEW pa,
           ~(f.event.store = st /\ f.event.limiter = l /\ f.event.payer = pa)
    PROVE  Account(A \cup {f}, st, l, pa) = Account(A, st, l, pa)
BY DEF Account

LEMMA OwnAccount ==
    ASSUME NEW A, NEW f
    PROVE  LET e == f.event IN
           Account(A \cup {f}, e.store, e.limiter, e.payer) = Account(A, e.store, e.limiter, e.payer) \cup {f}
BY DEF Account

\* The guard counts.
LEMMA FloodsKeepStanding ==
    ASSUME time \in Int, NEW f, f \notin asked, f.event.at = time, f.event.limiter = "flood",
           FloodsStand(asked, floods, time), LimitsStand(asked, limits, time),
           NEW k, k = <<f.event.store, f.event.payer>>,
           DidPass(f) <=> Counted(floods, k).count <= MaxOf["flood"]
    PROVE  /\ FloodsStand(asked \cup {f}, Put(floods, k, Counted(floods, k)), time)
           /\ LimitsStand(asked \cup {f}, limits, time)
           /\ ~DidPass(f) =>
                 Cardinality(Span(Account(asked \cup {f}, f.event.store, "flood", f.event.payer),
                                  time - Window, time)) > MaxOf["flood"]
<1> DEFINE A == asked \cup {f}
           put == Put(floods, k, Counted(floods, k))
           E == Account(asked, f.event.store, "flood", f.event.payer)
<1>1. Stands(E, floods, k, time, MaxOf["flood"])
  BY DEF FloodsStand
<1>2. /\ Stands(E \cup {f}, put, k, time, MaxOf["flood"])
      /\ ~DidPass(f) => Cardinality(Span(E \cup {f}, time - Window, time)) > MaxOf["flood"]
  BY <1>1, CountedOnAccount
<1>3. Account(A, f.event.store, "flood", f.event.payer) = E \cup {f}
  BY OwnAccount
<1>4. ASSUME NEW st, NEW pa PROVE Stands(Account(A, st, "flood", pa), put, <<st, pa>>, time, MaxOf["flood"])
  <2>1. CASE st = f.event.store /\ pa = f.event.payer
    BY <1>2, <1>3, <2>1
  <2>2. CASE ~(st = f.event.store /\ pa = f.event.payer)
    <3>1. Account(A, st, "flood", pa) = Account(asked, st, "flood", pa)
      BY <2>2, OtherAccount
    <3>2. <<st, pa>> # k
      BY <2>2
    <3>3. /\ <<st, pa>> \in DOMAIN put <=> <<st, pa>> \in DOMAIN floods
          /\ <<st, pa>> \in DOMAIN floods => put[<<st, pa>>] = floods[<<st, pa>>]
      BY <3>2 DEF Put
    <3>4. Stands(Account(asked, st, "flood", pa), floods, <<st, pa>>, time, MaxOf["flood"])
      BY DEF FloodsStand
    <3> HIDE DEF A, put
    <3> QED BY <3>1, <3>3, <3>4 DEF Stands
  <2> QED BY <2>1, <2>2
<1>5. ASSUME NEW l \in Limiters, NEW st, NEW pa PROVE Account(A, st, l, pa) = Account(asked, st, l, pa)
  <2>1. f.event.limiter # l
    BY LimitersAreKnown
  <2> QED BY <2>1, OtherAccount
<1> HIDE DEF A, put
<1>6. LimitsStand(A, limits, time)
  BY <1>5 DEF LimitsStand
<1>7. FloodsStand(A, put, time)
  BY <1>4 DEF FloodsStand
<1> QED BY <1>2, <1>3, <1>6, <1>7 DEF A, put

\* The limiter of a route counts.
LEMMA LimitsKeepStanding ==
    ASSUME time \in Int, NEW f, f \notin asked, f.event.at = time, f.event.limiter \in Limiters,
           FloodsStand(asked, floods, time), LimitsStand(asked, limits, time),
           NEW k, k = <<f.event.store, f.event.limiter, f.event.payer>>,
           DidPass(f) <=> Counted(limits, k).count <= MaxOf[f.event.limiter]
    PROVE  /\ FloodsStand(asked \cup {f}, floods, time)
           /\ LimitsStand(asked \cup {f}, Put(limits, k, Counted(limits, k)), time)
           /\ ~DidPass(f) =>
                 Cardinality(Span(Account(asked \cup {f}, f.event.store, f.event.limiter, f.event.payer),
                                  time - Window, time)) > MaxOf[f.event.limiter]
<1> DEFINE A == asked \cup {f}
           own == f.event.limiter
           put == Put(limits, k, Counted(limits, k))
           E == Account(asked, f.event.store, own, f.event.payer)
<1>1. Stands(E, limits, k, time, MaxOf[own])
  BY DEF LimitsStand
<1>2. /\ Stands(E \cup {f}, put, k, time, MaxOf[own])
      /\ ~DidPass(f) => Cardinality(Span(E \cup {f}, time - Window, time)) > MaxOf[own]
  BY <1>1, CountedOnAccount
<1>3. Account(A, f.event.store, own, f.event.payer) = E \cup {f}
  BY OwnAccount
<1>4. ASSUME NEW l \in Limiters, NEW st, NEW pa
      PROVE  Stands(Account(A, st, l, pa), put, <<st, l, pa>>, time, MaxOf[l])
  <2>1. CASE st = f.event.store /\ l = own /\ pa = f.event.payer
    BY <1>2, <1>3, <2>1
  <2>2. CASE ~(st = f.event.store /\ l = own /\ pa = f.event.payer)
    <3>1. Account(A, st, l, pa) = Account(asked, st, l, pa)
      BY <2>2, OtherAccount
    <3>2. <<st, l, pa>> # k
      BY <2>2
    <3>3. /\ <<st, l, pa>> \in DOMAIN put <=> <<st, l, pa>> \in DOMAIN limits
          /\ <<st, l, pa>> \in DOMAIN limits => put[<<st, l, pa>>] = limits[<<st, l, pa>>]
      BY <3>2 DEF Put
    <3>4. Stands(Account(asked, st, l, pa), limits, <<st, l, pa>>, time, MaxOf[l])
      BY DEF LimitsStand
    <3> HIDE DEF A, put
    <3> QED BY <3>1, <3>3, <3>4 DEF Stands
  <2> QED BY <2>1, <2>2
<1>5. \A st, pa : Account(A, st, "flood", pa) = Account(asked, st, "flood", pa)
  BY LimitersAreKnown, OtherAccount
<1> HIDE DEF A, put
<1>6. FloodsStand(A, floods, time)
  BY <1>5 DEF FloodsStand
<1>7. LimitsStand(A, put, time)
  BY <1>4 DEF LimitsStand
<1> QED BY <1>2, <1>3, <1>6, <1>7 DEF A, put

LEMMA AccountsAreSpans ==
    ASSUME NEW e, NEW t, \A f \in asked : Judged(f)
    PROVE  LET E == Account(asked, e.store, e.limiter, e.payer)
           IN  /\ Recent(e, t, BOOLEAN) = Cardinality(Span(E, t - Window, t))
               /\ Recent(e, t, {TRUE}) = Cardinality(Passed(E, t - Window, t))
<1> DEFINE E == Account(asked, e.store, e.limiter, e.payer)
<1>1. OnAccount(e) = E
  BY DEF OnAccount, Account
<1>2. \A f \in E : f.event.passed \in BOOLEAN
  BY DEF Account, Judged
<1> HIDE DEF E
<1>3. { f \in E : /\ t - Window < f.event.at /\ f.event.at <= t
                  /\ f.event.passed \in BOOLEAN } = Span(E, t - Window, t)
  BY <1>2, Zenon DEF Span
<1>4. { f \in E : /\ t - Window < f.event.at /\ f.event.at <= t
                  /\ f.event.passed \in {TRUE} } = Passed(E, t - Window, t)
  BY Zenon DEF Passed, DidPass
<1>5. Recent(e, t, BOOLEAN) = Cardinality(Span(E, t - Window, t))
  BY <1>1, <1>3, Zenon DEF Recent
<1>6. Recent(e, t, {TRUE}) = Cardinality(Passed(E, t - Window, t))
  BY <1>1, <1>4, Zenon DEF Recent
<1> QED BY <1>5, <1>6 DEF E

\* A step of one request while time stands still.
LEMMA CountSlotMoves ==
    ASSUME AccessInv, CountInv, NEW s \in Slots, NEW p, requests' = [requests EXCEPT ![s] = p],
           UNCHANGED <<time, redis>>,
           EventsHold(asked'), asked \subseteq asked',
           FloodsStand(asked', floods', time), LimitsStand(asked', limits', time),
           p # Absent => /\ RefusalHolds(p, asked')
                         /\ p.state = "limiting" /\ p.route.gate # "open" => p.scopes # Absent
    PROVE  CountInv'
<1>1. requests'[s] = p /\ \A r \in Slots \ {s} : requests'[r] = requests[r]
  BY DEF AccessInv
<1>2. ASSUME NEW r \in Slots, requests'[r] # Absent
      PROVE  /\ RefusalHolds(requests'[r], asked')
             /\ requests'[r].state = "limiting" /\ requests'[r].route.gate # "open" =>
                   requests'[r].scopes # Absent
  <2>1. CASE r = s
    BY <1>1, <1>2, <2>1
  <2>2. CASE r # s
    <3> DEFINE q == requests[r]
    <3>1. /\ requests'[r] = q /\ q # Absent /\ RefusalHolds(q, asked)
          /\ q.state = "limiting" /\ q.route.gate # "open" => q.scopes # Absent
      BY <1>1, <1>2, <2>2 DEF CountInv
    <3>2. q.why = "flood" \/ q.route.limiter \in Limiters
      BY <3>1, LimitersAreKnown DEF AccessInv, RequestRecords
    <3>3. RefusalHolds(q, asked')
      BY <3>1, <3>2, RefusalLasts DEF EventsHold
    <3> QED BY <3>1, <3>3
  <2> QED BY <2>1, <2>2
<1>3. /\ EventsHold(asked)'
      /\ FloodsStand(asked, floods, time)'
      /\ LimitsStand(asked, limits, time)'
  BY DEF EventsHold, FloodsStand, LimitsStand
<1> QED BY <1>2, <1>3 DEF CountInv, RefusalHolds, StoreOf, Payer

\* A step of one request that nothing counts and no limiter refuses.
LEMMA UncountedSlotMoves ==
    ASSUME AccessInv, CountInv, NEW s \in Slots, NEW p, requests' = [requests EXCEPT ![s] = p],
           UNCHANGED <<time, redis, counterVars>>,
           p # Absent => /\ p.state = "answered" => p.code # "rate_limited"
                         /\ p.state = "limiting" /\ p.route.gate # "open" => p.scopes # Absent
    PROVE  CountInv'
<1>1. p # Absent => RefusalHolds(p, asked')
  BY DEF RefusalHolds
<1>2. asked' = asked /\ floods' = floods /\ limits' = limits
  BY DEF counterVars
<1>3. EventsHold(asked) /\ FloodsStand(asked, floods, time) /\ LimitsStand(asked, limits, time)
  BY DEF CountInv
<1> QED BY <1>1, <1>2, <1>3, CountSlotMoves

LEMMA UncountedAnswer ==
    ASSUME AccessInv, CountInv, NEW s \in Slots, requests[s] # Absent, NEW code, NEW why,
           code # "rate_limited", Respond(s, code, why), UNCHANGED <<time, redis, counterVars>>
    PROVE  CountInv'
<1> DEFINE p == [requests[s] EXCEPT !.state = "answered", !.code = code, !.why = why, !.answeredAt = time]
<1>1. requests[s] \in RequestRecords /\ requests' = [requests EXCEPT ![s] = p]
  BY DEF Respond, AccessInv
<1>2. p.state = "answered" /\ p.code = code
  BY <1>1 DEF RequestRecords
<1> HIDE DEF p
<1> QED BY <1>1, <1>2, UncountedSlotMoves

\* The fields of an event, of which one is a truth value.
Fields(e, st, l, pa, passes) ==
    /\ e.store = st /\ e.limiter = l /\ e.payer = pa /\ e.at = time
    /\ e.passed \in BOOLEAN
    /\ e.passed \in {TRUE} <=> passes

LEMMA EventFields ==
    ASSUME NEW st, NEW l, NEW pa, NEW passes \in BOOLEAN
    PROVE  Fields(Event(st, l, pa, passes), st, l, pa, passes)
<1> DEFINE e == Event(st, l, pa, passes)
<1>1. e.passed = passes
  BY Zenon DEF Event
<1>2. e.passed \in BOOLEAN /\ (e.passed \in {TRUE} <=> passes)
  BY <1>1
<1>3. e.store = st /\ e.limiter = l /\ e.payer = pa /\ e.at = time
  BY Zenon DEF Event
<1> HIDE DEF e
<1>4. Fields(e, st, l, pa, passes)
  BY <1>2, <1>3, Zenon DEF Fields
<1> QED BY <1>4 DEF e

LEMMA FloodGuardCounts ==
    ASSUME AccessInv, CountInv, NEW s \in Slots, FloodGuard(s)
    PROVE  CountInv'
<1> DEFINE q == requests[s]
           k == <<StoreOf(q.replica), ClientAddress(q.chain)>>
           passes == Counted(floods, k).count <= MaxOf["flood"]
           e == Event(k[1], "flood", q.chain[2], passes)
<1>1. q # Absent /\ q \in RequestRecords /\ time \in Int /\ q.state = "guarding"
  BY DEF AccessInv, FloodGuard, In
<1>2. ClientAddress(q.chain) = q.chain[2]
  <2>1. q.chain \in { r.chain : r \in Asked }
    BY <1>1 DEF RequestRecords
  <2>2. \A r \in Asked : Len(r.chain) > 1
    BY AccessAssumption DEF Asked
  <2> QED BY <2>1, <2>2 DEF ClientAddress
<1>3. /\ Record(e) /\ floods' = Put(floods, k, Counted(floods, k))
      /\ UNCHANGED <<time, redis, limits>>
      /\ IF passes THEN Proceed(s, "authorizing") ELSE Respond(s, "rate_limited", "flood")
  BY DEF FloodGuard
<1>4. /\ e.store = StoreOf(q.replica) /\ e.limiter = "flood" /\ e.payer = q.chain[2] /\ e.at = time
      /\ e.passed \in BOOLEAN /\ (e.passed \in {TRUE} <=> passes)
  <2>1. passes \in BOOLEAN /\ k[1] = StoreOf(q.replica)
    OBVIOUS
  <2> HIDE DEF passes, k
  <2>2. Fields(e, k[1], "flood", q.chain[2], passes)
    BY <2>1, EventFields, Zenon
  <2> HIDE DEF e
  <2> QED BY <2>1, <2>2, Zenon DEF Fields
<1> HIDE DEF e
<1>5. EventsHold(asked') /\ \E f : f \notin asked /\ f.event = e /\ asked' = asked \cup {f}
  BY <1>1, <1>3, <1>4, Recorded DEF CountInv
<1>6. PICK f : f \notin asked /\ f.event = e /\ asked' = asked \cup {f}
  BY <1>5
<1>7. k = <<f.event.store, f.event.payer>> /\ f.event.at = time /\ f.event.limiter = "flood"
      /\ f.event.store = StoreOf(q.replica) /\ f.event.payer = q.chain[2]
      /\ (DidPass(f) <=> passes)
  BY <1>2, <1>4, <1>6 DEF DidPass
<1> HIDE DEF k
<1>8. FloodsStand(asked, floods, time) /\ LimitsStand(asked, limits, time)
  BY DEF CountInv
<1>9. /\ FloodsStand(asked', floods', time) /\ LimitsStand(asked', limits', time)
      /\ ~passes => Cardinality(Span(Account(asked', StoreOf(q.replica), "flood", q.chain[2]),
                                     time - Window, time)) > MaxOf["flood"]
  BY <1>1, <1>3, <1>6, <1>7, <1>8, FloodsKeepStanding
<1>10. CASE passes
  <2> DEFINE p == [q EXCEPT !.state = "authorizing"]
  <2>1. requests' = [requests EXCEPT ![s] = p]
    BY <1>3, <1>10 DEF Proceed, AccessInv
  <2>2. p.state = "authorizing"
    BY <1>1 DEF RequestRecords
  <2> HIDE DEF p
  <2>3. RefusalHolds(p, asked')
    BY <2>2 DEF RefusalHolds
  <2> QED BY <1>3, <1>5, <1>6, <1>9, <2>1, <2>2, <2>3, CountSlotMoves
<1>11. CASE ~passes
  <2> DEFINE p == [q EXCEPT !.state = "answered", !.code = "rate_limited", !.why = "flood",
                            !.answeredAt = time]
  <2>1. requests' = [requests EXCEPT ![s] = p]
    BY <1>3, <1>11 DEF Respond, AccessInv
  <2>2. /\ p.state = "answered" /\ p.why = "flood" /\ p.answeredAt = time
        /\ p.replica = q.replica /\ p.chain = q.chain
    BY <1>1 DEF RequestRecords
  <2> HIDE DEF p
  <2>3. RefusalHolds(p, asked')
    BY <1>9, <1>11, <2>2 DEF RefusalHolds
  <2> QED BY <1>3, <1>5, <1>6, <1>9, <2>1, <2>2, <2>3, CountSlotMoves
<1> QED BY <1>10, <1>11

LEMMA LimitRouteCounts ==
    ASSUME AccessInv, CountInv, NEW s \in Slots, LimitRoute(s)
    PROVE  CountInv'
<1> DEFINE q == requests[s]
           l == q.route.limiter
           k == <<StoreOf(q.replica), l, CallerKey(q)>>
           passes == Counted(limits, k).count <= MaxOf[l]
           e == Event(k[1], l, Payer(q), passes)
<1>1. q # Absent /\ q \in RequestRecords /\ time \in Int /\ q.state = "limiting"
      /\ (q.route.gate # "open" => q.scopes # Absent)
  BY DEF AccessInv, CountInv, LimitRoute, In
<1>2. l \in Limiters /\ CallerKey(q) = Payer(q)
  BY <1>1, LimitersAreKnown DEF RequestRecords, CallerKey, Payer
<1>3. /\ Record(e) /\ limits' = Put(limits, k, Counted(limits, k))
      /\ UNCHANGED <<time, redis, floods>>
      /\ IF passes THEN Proceed(s, "handling") ELSE Respond(s, "rate_limited", "limit")
  BY DEF LimitRoute
<1>4. /\ e.store = StoreOf(q.replica) /\ e.limiter = l /\ e.payer = Payer(q) /\ e.at = time
      /\ e.passed \in BOOLEAN /\ (e.passed \in {TRUE} <=> passes)
  <2>1. passes \in BOOLEAN /\ k[1] = StoreOf(q.replica)
    OBVIOUS
  <2> HIDE DEF passes, k
  <2>2. Fields(e, k[1], l, Payer(q), passes)
    BY <2>1, EventFields, Zenon
  <2> HIDE DEF e
  <2> QED BY <2>1, <2>2, Zenon DEF Fields
<1> HIDE DEF e
<1>5. EventsHold(asked') /\ \E f : f \notin asked /\ f.event = e /\ asked' = asked \cup {f}
  BY <1>1, <1>2, <1>3, <1>4, Recorded DEF CountInv
<1>6. PICK f : f \notin asked /\ f.event = e /\ asked' = asked \cup {f}
  BY <1>5
<1>7. k = <<f.event.store, f.event.limiter, f.event.payer>> /\ f.event.at = time /\ f.event.limiter = l
      /\ f.event.store = StoreOf(q.replica) /\ f.event.payer = Payer(q)
      /\ (DidPass(f) <=> passes)
  BY <1>2, <1>4, <1>6 DEF DidPass
<1> HIDE DEF k
<1>8. FloodsStand(asked, floods, time) /\ LimitsStand(asked, limits, time)
  BY DEF CountInv
<1>9. /\ FloodsStand(asked', floods', time) /\ LimitsStand(asked', limits', time)
      /\ ~passes => Cardinality(Span(Account(asked', StoreOf(q.replica), l, Payer(q)),
                                     time - Window, time)) > MaxOf[l]
  BY <1>1, <1>2, <1>3, <1>6, <1>7, <1>8, LimitsKeepStanding
<1>10. CASE passes
  <2> DEFINE p == [q EXCEPT !.state = "handling"]
  <2>1. requests' = [requests EXCEPT ![s] = p]
    BY <1>3, <1>10 DEF Proceed, AccessInv
  <2>2. p.state = "handling"
    BY <1>1 DEF RequestRecords
  <2> HIDE DEF p
  <2>3. RefusalHolds(p, asked')
    BY <2>2 DEF RefusalHolds
  <2> QED BY <1>3, <1>5, <1>6, <1>9, <2>1, <2>2, <2>3, CountSlotMoves
<1>11. CASE ~passes
  <2> DEFINE p == [q EXCEPT !.state = "answered", !.code = "rate_limited", !.why = "limit",
                            !.answeredAt = time]
  <2>1. requests' = [requests EXCEPT ![s] = p]
    BY <1>3, <1>11 DEF Respond, AccessInv
  <2>2. /\ p.state = "answered" /\ p.why = "limit" /\ p.answeredAt = time
        /\ p.replica = q.replica /\ p.route = q.route /\ p.scopes = q.scopes
        /\ p.cred = q.cred /\ p.chain = q.chain
    BY <1>1 DEF RequestRecords
  <2> HIDE DEF p
  <2>3. Payer(p) = Payer(q)
    BY <2>2 DEF Payer
  <2>4. RefusalHolds(p, asked')
    BY <1>1, <1>2, <1>9, <1>11, <2>2, <2>3 DEF RefusalHolds
  <2> QED BY <1>3, <1>5, <1>6, <1>9, <2>1, <2>2, <2>4, CountSlotMoves
<1> QED BY <1>10, <1>11

LEMMA RequestCounts ==
    ASSUME AccessInv, CountInv, NEW s \in Slots, RequestStep(s)
    PROVE  CountInv'
<1> DEFINE q == requests[s]
<1>1. ASSUME NEW q0 \in Traffic[workload].requests, NEW r \in Replicas, Arrive(s, q0, r)
      PROVE  CountInv'
  <2> DEFINE p == [route |-> q0.route, cred |-> q0.cred, chain |-> q0.chain, namespaces |-> q0.namespaces,
                   replica |-> r, state |-> FirstState(q0.route), dead |-> IsDead(q0.cred),
                   scopes |-> Absent, ran |-> FALSE, code |-> Pass, why |-> "none", answeredAt |-> time]
  <2>1. requests' = [requests EXCEPT ![s] = p] /\ UNCHANGED <<time, redis, counterVars>>
    BY <1>1 DEF Arrive
  <2>2. p.state # "answered" /\ (p.state = "limiting" => p.route.gate = "open")
    BY DEF FirstState
  <2> HIDE DEF p
  <2> QED BY <2>1, <2>2, UncountedSlotMoves
<1>2. CASE StoreUnreachable(s)
  BY <1>2, UncountedAnswer DEF StoreUnreachable, In
<1>3. CASE Authorize(s)
  <2> DEFINE auth == IF q.route.gate = "admin" THEN AdminAuth(q.cred) ELSE ReadAuth(q.cred)
             p == [q EXCEPT !.state = "limiting", !.scopes = auth.scopes]
  <2>1. q # Absent /\ q \in RequestRecords /\ UNCHANGED <<time, redis, counterVars>>
    BY <1>3 DEF Authorize, In, AccessInv
  <2>2. CASE auth = Refused
    <3>1. Respond(s, "unauthorized", "credential")
      BY <1>3, <2>2 DEF Authorize
    <3> QED BY <2>1, <3>1, UncountedAnswer
  <2>3. CASE auth # Refused
    <3>1. requests' = [requests EXCEPT ![s] = p]
      BY <1>3, <2>3 DEF Authorize, AccessInv
    <3>2. \/ auth = Everything
          \/ \E row : auth = WithScopes(row)
      BY <2>3 DEF AdminAuth, ReadAuth
    <3>3. auth = [scopes |-> auth.scopes] /\ auth.scopes # Absent
      BY <2>3, <3>2 DEF Everything, WithScopes, Refused
    <3> HIDE DEF auth
    <3>4. p.state = "limiting" /\ p.scopes # Absent
      BY <2>1, <3>3 DEF RequestRecords
    <3> HIDE DEF p
    <3> QED BY <2>1, <3>1, <3>4, UncountedSlotMoves
  <2> QED BY <2>2, <2>3
<1>4. CASE KeyLookupFails(s)
  BY <1>4, UncountedAnswer DEF KeyLookupFails, In
<1>5. CASE HandlerRefuses(s)
  <2>1. /\ q # Absent /\ UNCHANGED <<time, redis, counterVars>> /\ q.route \in Endpoints
    BY <1>5 DEF HandlerRefuses, In, AccessInv, RequestRecords
  <2>2. PICK i \in ChecksOf(q.route) :
            \E o \in StageOutcomes(q, q.route.stages[i]) \ {Pass} : Respond(s, o, "handler")
    BY <1>5, Zenon DEF HandlerRefuses
  <2>3. ASSUME NEW o \in StageOutcomes(q, q.route.stages[i]) \ {Pass}
        PROVE  o # "rate_limited"
    <3>1. q.route.stages[i] \in Checks
      BY <2>1, StagesAreKnown
    <3> QED BY <3>1 DEF Checks, StageOutcomes, WordOutcomes, FilterOutcomes, CompiledOutcomes, Pass
  <2> QED BY <2>1, <2>2, <2>3, UncountedAnswer
<1>6. CASE HandlerRuns(s)
  <2>1. q # Absent /\ q \in RequestRecords /\ UNCHANGED <<time, redis, counterVars>>
    BY <1>6 DEF HandlerRuns, In, AccessInv
  <2>2. PICK o \in RunOutcomes(Work(q.route)) :
            requests' = [requests EXCEPT ![s].state = "answered", ![s].ran = TRUE,
                           ![s].code = o, ![s].why = "work", ![s].answeredAt = time]
    BY <1>6 DEF HandlerRuns
  <2> DEFINE p == [q EXCEPT !.state = "answered", !.ran = TRUE, !.code = o, !.why = "work",
                            !.answeredAt = time]
  <2>3. requests' = [requests EXCEPT ![s] = p]
    BY <2>2 DEF AccessInv
  <2>4. o # "rate_limited"
    <3>1. Work(q.route) \in {"run", "runChecked", "runTargets"}
      BY <2>1, StagesAreKnown DEF RequestRecords, Works
    <3> QED BY <3>1 DEF RunOutcomes, ValidatedOutcomes, GuardedOutcomes, ServedOutcomes
  <2>5. p.state = "answered" /\ p.code = o
    BY <2>1 DEF RequestRecords
  <2> HIDE DEF p
  <2> QED BY <2>1, <2>3, <2>4, <2>5, UncountedSlotMoves
<1>7. CASE Finish(s)
  BY <1>7, UncountedSlotMoves DEF Finish
<1> QED BY <1>1, <1>2, <1>3, <1>4, <1>5, <1>6, <1>7, FloodGuardCounts, LimitRouteCounts DEF RequestStep

LEMMA AccessNextCounts ==
    ASSUME AccessInv, CountInv, AccessNext
    PROVE  CountInv'
<1>1. CASE UNCHANGED <<redis, requests, counterVars>> /\ time' \in Int /\ time <= time'
  <2>1. asked' = asked /\ floods' = floods /\ limits' = limits /\ requests' = requests /\ redis' = redis
    BY <1>1 DEF counterVars
  <2>2. time \in Int
    BY DEF AccessInv
  <2>3. ASSUME NEW E, NEW counters, NEW k, NEW max, Stands(E, counters, k, time, max)
        PROVE  Stands(E, counters, k, time', max)
    BY <1>1, <2>2, <2>3, TallyLasts DEF Stands
  <2>4. FloodsStand(asked, floods, time') /\ LimitsStand(asked, limits, time')
    BY <2>3 DEF CountInv, FloodsStand, LimitsStand
  <2> QED BY <2>1, <2>4 DEF CountInv, RefusalHolds, StoreOf, Payer, EventsHold, FloodsStand, LimitsStand
<1>2. CASE TimePasses
  BY <1>1, <1>2 DEF TimePasses, AccessInv
<1>3. CASE \E s \in Slots : RequestStep(s)
  BY <1>3, RequestCounts
<1>4. CASE \E k \in RawKeys : KeyStep(k)
  <2>1. UNCHANGED <<time, redis, requests, counterVars>>
    BY <1>4 DEF KeyStep, CreateKey, RevokeKey
  <2> QED BY <1>1, <2>1 DEF AccessInv
<1> QED BY <1>2, <1>3, <1>4 DEF AccessNext

LEMMA AccessInvariance == AccessSpec => [](AccessInv /\ CountInv)
<1>1. ASSUME AccessInv, CountInv, [AccessNext]_accessVars PROVE AccessInv' /\ CountInv'
  <2>1. CASE UNCHANGED accessVars
    <3>1. AccessInv'
      BY <1>1, <2>1 DEF accessVars, AccessInv
    <3>2. CountInv'
      BY <1>1, <2>1 DEF accessVars, counterVars, CountInv, RefusalHolds, StoreOf, Payer, EventsHold,
                        FloodsStand, LimitsStand
    <3> QED BY <3>1, <3>2
  <2> QED BY <1>1, <2>1, AccessNextKeeps, AccessNextCounts
<1> QED BY <1>1, AccessInvInit, CountInvInit, PTL DEF AccessSpec

\* In any Window of time a limiter and the flood guard let through less than twice their
\* maximum of one caller, on every store they count in, however many requests come and
\* whatever they claim of themselves (increment of redis-store.ts, authFloodGuard and
\* rateLimitKeyGenerator of server.ts).
THEOREM WindowsAreBounded == AccessSpec => []LimitsHold
<1>1. ASSUME AccessInv, CountInv PROVE LimitsHold
  <2> SUFFICES ASSUME NEW f \in asked, NEW t \in 0 .. time
               PROVE  Recent(f.event, t, {TRUE}) <= 2 * MaxOf[f.event.limiter] - 1
    BY DEF LimitsHold
  <2> DEFINE e == f.event
             E == Account(asked, e.store, e.limiter, e.payer)
  <2>1. t \in Int /\ t - Window \in Int /\ \A g \in asked : Judged(g)
    BY <1>1, WindowIsPositive DEF CountInv, EventsHold, AccessInv
  <2>2. Recent(e, t, {TRUE}) = Cardinality(Passed(E, t - Window, t))
    BY <2>1, AccountsAreSpans, Zenon
  <2>3. E # {}
    BY DEF Account
  <2>4. \E counters, k : Stands(E, counters, k, time, MaxOf[e.limiter])
    <3>1. e.limiter \in Limiters \cup {"flood"}
      BY <1>1 DEF CountInv, EventsHold
    <3>2. CASE e.limiter = "flood"
      BY <1>1, <3>2 DEF CountInv, FloodsStand
    <3>3. CASE e.limiter \in Limiters
      BY <1>1, <3>3 DEF CountInv, LimitsStand
    <3> QED BY <3>1, <3>2, <3>3
  <2>5. PICK counters, k : Stands(E, counters, k, time, MaxOf[e.limiter])
    BY <2>4
  <2> HIDE DEF E
  <2>6. TallyHolds(E, counters[k], time, MaxOf[e.limiter])
    BY <2>3, <2>5 DEF Stands
  <2>7. Cardinality(Passed(E, t - Window, t)) <= 2 * MaxOf[e.limiter] - 1
    BY <2>1, <2>6 DEF TallyHolds
  <2> QED BY <2>2, <2>7
<1> QED BY <1>1, AccessInvariance, PTL

\* Who is refused has asked more often than the limit within the Window before, and
\* behind a credential with one that was accepted: nobody pays for the traffic of others.
THEOREM RefusalsAreDue == AccessSpec => []RefusedForOwnTraffic
<1>1. ASSUME AccessInv, CountInv PROVE RefusedForOwnTraffic
  <2> SUFFICES ASSUME NEW s \in Slots, requests[s] # Absent, requests[s].state = "answered",
                      requests[s].code = "rate_limited"
               PROVE  LET q == requests[s]
                          limiter == IF q.why = "flood" THEN "flood" ELSE q.route.limiter
                          payer == IF q.why = "flood" THEN q.chain[2] ELSE Payer(q)
                          own == [store |-> StoreOf(q.replica), limiter |-> limiter, payer |-> payer]
                      IN  /\ Recent(own, q.answeredAt, BOOLEAN) > MaxOf[limiter]
                          /\ (q.why = "limit" /\ q.route.gate # "open") => q.scopes # Absent
    BY DEF RefusedForOwnTraffic
  <2> DEFINE q == requests[s]
             limiter == IF q.why = "flood" THEN "flood" ELSE q.route.limiter
             payer == IF q.why = "flood" THEN q.chain[2] ELSE Payer(q)
             own == [store |-> StoreOf(q.replica), limiter |-> limiter, payer |-> payer]
  <2>1. RefusalHolds(q, asked) /\ q \in RequestRecords
    BY <1>1 DEF CountInv, AccessInv
  <2>2. q.answeredAt \in Int /\ q.answeredAt - Window \in Int /\ \A g \in asked : Judged(g)
    BY <1>1, <2>1, WindowIsPositive DEF CountInv, EventsHold, RequestRecords
  <2>3. own.store = StoreOf(q.replica) /\ own.limiter = limiter /\ own.payer = payer
    OBVIOUS
  <2>4. /\ Cardinality(Span(Account(asked, StoreOf(q.replica), limiter, payer),
                            q.answeredAt - Window, q.answeredAt)) > MaxOf[limiter]
        /\ (q.why = "limit" /\ q.route.gate # "open") => q.scopes # Absent
    BY <2>1 DEF RefusalHolds
  <2> HIDE DEF own, limiter, payer
  <2>5. Recent(own, q.answeredAt, BOOLEAN) =
           Cardinality(Span(Account(asked, StoreOf(q.replica), limiter, payer),
                            q.answeredAt - Window, q.answeredAt))
    BY <2>2, <2>3, AccountsAreSpans, Zenon
  <2>6. Recent(own, q.answeredAt, BOOLEAN) > MaxOf[limiter]
    BY <2>4, <2>5
  <2> QED BY <2>4, <2>6 DEF own, limiter, payer
<1> QED BY <1>1, AccessInvariance, PTL

-----------------------------------------------------------------------------
(* Runs of the soundness fuzzer. *)

RunStates == {"idle", "publishing", "writing", "backdating", "checking", "checkingIndex",
              "recording", "dropRun", "dropTuples", "returning"}

\* What a run in slot r holds of its own.
Held(r) == [pc |-> rpc[r], seed |-> seed[r], dry |-> dry[r], mode |-> mode[r], anchor |-> anchor[r],
            todo |-> todo[r], published |-> published[r], pin |-> pin[r], live |-> live[r],
            via |-> viaIndex[r], hits |-> hits[r], id |-> id[r], result |-> fuzzResult[r],
            before |-> before[r], spoilt |-> spoilt[r]]

Fixture(m) == DOMAIN FixtureOf[m.seed]
Tuple(m, i) == FixtureOf[m.seed][i]

\* What a write stores, and what the reference resolver takes to be stored.
FreshExpiry(f, a) == IF ExpiryKindOf[f] = "plain" THEN Never ELSE a + Margin
Expected(s, a) == Holds(s, [f \in AllTuples |-> ExpiryOf(f, a)], a)

Acquitted(o) == o.verdict = "sound" /\ o.divergence = Void /\ o.indexDivergence = Void

\* Where the run is in its work, and what it has found so far.
WorkHolds(m, t) ==
    /\ m.pc # "idle" => m.seed \in Seeds
    /\ m.pc \in {"idle", "publishing"} => m.published = 0
    /\ m.pc \in {"writing", "backdating", "checking", "checkingIndex", "recording"} => m.published # 0
    /\ m.published # 0 => m.anchor <= t /\ t < m.anchor + Margin
    /\ m.pc \in {"writing", "backdating", "dropTuples"} => m.todo \subseteq Fixture(m)
    /\ m.pc \in {"idle", "publishing", "writing", "backdating", "checking"} => m.via = Void /\ m.hits = 0
    /\ m.pc \in {"checkingIndex", "recording"} => m.live = Expected(m.seed, m.anchor)
    /\ m.pc = "checkingIndex" => m.mode = "warm" /\ m.via = Void
    /\ m.pc = "recording" => /\ m.via \in {Void, m.live}
                             /\ m.mode = "warm" => m.hits # 0
                             /\ m.mode = "cold" => m.hits = 0
    /\ m.result # Void => Acquitted(m.result)

\* The rows of its tuples.
RowsHold(m, stored) ==
    /\ m.pc = "publishing" => \A i \in Fixture(m) : stored[Tuple(m, i)] = Void
    /\ m.pc = "writing" => \A i \in Fixture(m) :
          /\ stored[Tuple(m, i)] \in {Void, FreshExpiry(Tuple(m, i), m.anchor)}
          /\ i \notin m.todo => stored[Tuple(m, i)] = FreshExpiry(Tuple(m, i), m.anchor)
    /\ m.pc = "backdating" => \A i \in Fixture(m) :
          /\ stored[Tuple(m, i)] \in {FreshExpiry(Tuple(m, i), m.anchor), ExpiryOf(Tuple(m, i), m.anchor)}
          /\ i \notin m.todo => stored[Tuple(m, i)] = ExpiryOf(Tuple(m, i), m.anchor)
          /\ i \in m.todo => ExpiryKindOf[Tuple(m, i)] = "expired"
    /\ m.pc \in {"checking", "checkingIndex", "recording"} => \A i \in Fixture(m) :
          stored[Tuple(m, i)] = ExpiryOf(Tuple(m, i), m.anchor)
    /\ m.pc = "dropTuples" /\ ~m.spoilt => \A i \in Fixture(m) \ m.todo : stored[Tuple(m, i)] = Void
    /\ m.pc = "returning" /\ m.dry /\ ~m.spoilt => \A i \in Fixture(m) : stored[Tuple(m, i)] = Void

\* A cold run is ahead of the index, and what a warm run has built stays as it is.
PinHolds(m, ix, token, mark) ==
    /\ m.mode = "cold" /\ (m.pc = "backdating" \/ (m.pc = "writing" /\ m.todo # Fixture(m))) => mark < token
    /\ m.mode = "cold" /\ m.pc = "checking" => mark < m.pin
    /\ m.mode = "warm" /\ m.pc \in {"checking", "checkingIndex"} =>
          m.pin <= mark /\ \A i \in Fixture(m) : ix[Tuple(m, i)] = ExpiryOf(Tuple(m, i), m.anchor)

\* What is to be undone, and what has been.
TraceHolds(m, cfgs, recorded) ==
    /\ m.pc # "idle" => m.before = [rows |-> {}, configs |-> m.before.configs]
    /\ m.pc \notin {"idle", "returning"} =>
          /\ m.published = 0 => cfgs[m.seed] = m.before.configs
          /\ m.published # 0 => /\ cfgs[m.seed] = m.before.configs \cup {m.published}
                                /\ m.published \notin m.before.configs
    /\ m.pc = "returning" /\ m.dry /\ ~m.spoilt => cfgs[m.seed] = m.before.configs
    /\ m.pc \in {"dropTuples", "returning"} /\ m.dry /\ ~m.spoilt => m.id \notin recorded

ReportHolds(o) ==
    o # Void => /\ Acquitted(o.result)
                /\ o.clean => o.left = o.before /\ ~o.recorded

SlotsTyped ==
    /\ rpc \in [Runs -> RunStates] /\ seed \in [Runs -> Seeds \cup {Void}]
    /\ dry \in [Runs -> BOOLEAN] /\ mode \in [Runs -> Modes]
    /\ anchor \in [Runs -> Nat] /\ todo \in [Runs -> SUBSET Nat]
    /\ published \in [Runs -> Nat] /\ pin \in [Runs -> Nat]
    /\ live \in [Runs -> BOOLEAN] /\ DOMAIN viaIndex = Runs /\ hits \in [Runs -> Nat]
    /\ id \in [Runs -> {Void} \cup Runs \X Nat] /\ \A r \in Runs : id[r] \in {Void} \cup {r} \X Nat
    /\ DOMAIN fuzzResult = Runs /\ DOMAIN reported = Runs /\ DOMAIN before = Runs
    /\ spoilt \in [Runs -> BOOLEAN]

StoreTyped ==
    /\ clock \in Nat /\ lastToken \in Nat /\ watermark \in Nat /\ starts \in Nat
    /\ watermark <= lastToken
    /\ fixtureRows \in [AllTuples -> Int \cup {Never, Void}]
    /\ configs \in [Seeds -> SUBSET (Nat \ {0})] /\ \A s \in Seeds : IsFiniteSet(configs[s])
    /\ runRows \subseteq Runs \X Nat

\* Runs that go on together differ in their seeds, and are not of the two kinds that
\* spoil one another.
RunsApart(q, r) ==
    rpc[q] # "idle" /\ rpc[r] # "idle" =>
        seed[q] # seed[r] /\ {mode[q], mode[r]} # {"cold", "warm"}

SoundnessInv ==
    /\ StoreTyped /\ SlotsTyped
    /\ \A q \in Runs : \A r \in Runs \ {q} : RunsApart(q, r)
    /\ \A r \in Runs : /\ WorkHolds(Held(r), clock)
                       /\ RowsHold(Held(r), fixtureRows)
                       /\ PinHolds(Held(r), indexed, lastToken, watermark)
                       /\ TraceHolds(Held(r), configs, runRows)
                       /\ ReportHolds(reported[r])

LEMMA SoundnessInvInit == SoundnessInit => SoundnessInv
<1> SUFFICES ASSUME SoundnessInit PROVE SoundnessInv
  OBVIOUS
<1> USE DEF SoundnessInit
<1>1. StoreTyped
  <2>1. \A s \in Seeds : IsFiniteSet(configs[s])
    BY FS_EmptySet
  <2>2. configs \in [Seeds -> SUBSET (Nat \ {0})] /\ fixtureRows \in [AllTuples -> Int \cup {Never, Void}]
    OBVIOUS
  <2> QED BY <2>1, <2>2 DEF StoreTyped
<1>2. SlotsTyped
  BY DEF SlotsTyped, RunStates, Modes
<1>3. \A q, r \in Runs : RunsApart(q, r)
  BY DEF RunsApart
<1>4. ASSUME NEW r \in Runs
      PROVE  /\ WorkHolds(Held(r), clock) /\ RowsHold(Held(r), fixtureRows)
             /\ PinHolds(Held(r), indexed, lastToken, watermark)
             /\ TraceHolds(Held(r), configs, runRows) /\ ReportHolds(reported[r])
  BY DEF Held, WorkHolds, RowsHold, PinHolds, TraceHolds, ReportHolds
<1> QED BY <1>1, <1>2, <1>3, <1>4 DEF SoundnessInv

\* What a run may do to what others share.
Aside(q) ==
    \/ UNCHANGED <<fixtureRows, lastToken, configs, runRows, indexed, watermark>>
    \/ /\ rpc[q] # "idle"
       /\ \A f \in AllTuples : f \notin TuplesOf(seed[q]) => fixtureRows'[f] = fixtureRows[f]
       /\ \A s \in Seeds : s # seed[q] => configs'[s] = configs[s]
       /\ lastToken <= lastToken' /\ lastToken' \in Nat
       /\ runRows' \subseteq runRows \cup {q} \X Nat
       /\ \/ UNCHANGED <<indexed, watermark>>
          \/ /\ mode[q] = "warm"
             /\ indexed' = fixtureRows /\ watermark' = lastToken
             /\ UNCHANGED <<fixtureRows, lastToken>>

\* It leaves what the others rely on.
LEMMA OthersHold ==
    ASSUME SoundnessInv, NEW q \in Runs, NEW r \in Runs \ {q}, Aside(q),
           Held(r)' = Held(r), reported'[r] = reported[r], clock' = clock
    PROVE  /\ WorkHolds(Held(r)', clock') /\ RowsHold(Held(r)', fixtureRows')
           /\ PinHolds(Held(r)', indexed', lastToken', watermark')
           /\ TraceHolds(Held(r)', configs', runRows') /\ ReportHolds(reported'[r])
<1> DEFINE m == Held(r)
<1>1. /\ WorkHolds(m, clock) /\ RowsHold(m, fixtureRows) /\ PinHolds(m, indexed, lastToken, watermark)
      /\ TraceHolds(m, configs, runRows) /\ ReportHolds(reported[r])
  BY DEF SoundnessInv
<1>2. CASE UNCHANGED <<fixtureRows, lastToken, configs, runRows, indexed, watermark>>
  BY <1>1, <1>2
<1>3. CASE m.pc = "idle"
  <2> HIDE DEF m
  <2>1. /\ RowsHold(m, fixtureRows')
        /\ PinHolds(m, indexed', lastToken', watermark')
        /\ TraceHolds(m, configs', runRows')
    BY <1>3 DEF RowsHold, PinHolds, TraceHolds
  <2> QED BY <1>1, <2>1 DEF m
<1>4. CASE /\ ~UNCHANGED <<fixtureRows, lastToken, configs, runRows, indexed, watermark>>
           /\ m.pc # "idle"
  <2>1. /\ rpc[q] # "idle" /\ rpc[r] # "idle" /\ seed[q] \in Seeds /\ seed[r] \in Seeds
        /\ seed[q] # seed[r] /\ {mode[q], mode[r]} # {"cold", "warm"}
    <3>1. WorkHolds(Held(q), clock) /\ RunsApart(q, r)
      BY DEF SoundnessInv
    <3> QED BY <1>1, <1>4, <3>1 DEF Aside, RunsApart, WorkHolds, Held
  <2>2. /\ m.seed = seed[r] /\ m.mode = mode[r] /\ m.id = id[r] /\ m.pin = pin[r]
    BY DEF Held
  <2>3. \A i \in Fixture(m) : Tuple(m, i) \in AllTuples /\ Tuple(m, i) \in TuplesOf(m.seed)
    BY <2>1, <2>2, SoundnessAssumption DEF Fixture, Tuple, TuplesOf
  <2>4. \A i \in Fixture(m) : fixtureRows'[Tuple(m, i)] = fixtureRows[Tuple(m, i)]
    <3>1. \A i \in Fixture(m) : Tuple(m, i) \notin TuplesOf(seed[q])
      BY <2>1, <2>2, <2>3, SoundnessAssumption
    <3> QED BY <1>4, <2>3, <3>1 DEF Aside
  <2>5. configs'[m.seed] = configs[m.seed]
    BY <1>4, <2>1, <2>2 DEF Aside
  <2>6. m.id \notin runRows => m.id \notin runRows'
    <3>1. m.id = Void \/ m.id \in {r} \X Nat
      BY <2>2 DEF SoundnessInv, SlotsTyped
    <3>2. m.id \notin {q} \X Nat
      BY <3>1, SoundnessAssumption
    <3> QED BY <1>4, <3>2 DEF Aside
  <2>7. /\ lastToken \in Nat /\ lastToken' \in Nat /\ watermark \in Nat /\ m.pin \in Nat
        /\ lastToken <= lastToken' /\ watermark <= lastToken
    BY <1>4, <2>2 DEF SoundnessInv, StoreTyped, SlotsTyped, Aside
  <2>8. \/ UNCHANGED <<indexed, watermark>>
        \/ /\ mode[q] = "warm" /\ indexed' = fixtureRows /\ watermark' = lastToken
           /\ UNCHANGED <<fixtureRows, lastToken>>
    BY <1>4 DEF Aside
  <2> HIDE DEF m
  <2>9. RowsHold(m, fixtureRows')
    BY <1>1, <2>4 DEF RowsHold
  <2>10. TraceHolds(m, configs', runRows')
    BY <1>1, <2>5, <2>6 DEF TraceHolds
  <2>11. PinHolds(m, indexed', lastToken', watermark')
    <3>1. CASE UNCHANGED <<indexed, watermark>>
      BY <1>1, <2>7, <3>1 DEF PinHolds
    <3>2. CASE mode[q] = "warm" /\ indexed' = fixtureRows /\ watermark' = lastToken
      <4>1. m.mode # "cold"
        BY <2>1, <2>2, <3>2
      <4>2. m.pc \in {"checking", "checkingIndex"} =>
                \A i \in Fixture(m) : indexed'[Tuple(m, i)] = ExpiryOf(Tuple(m, i), m.anchor)
        BY <1>1, <3>2 DEF RowsHold
      <4> QED BY <1>1, <2>7, <3>2, <4>1, <4>2 DEF PinHolds
    <3> QED BY <2>8, <3>1, <3>2
  <2> QED BY <1>1, <2>9, <2>10, <2>11 DEF m
<1> QED BY <1>2, <1>3, <1>4

SelfHolds(r) == /\ WorkHolds(Held(r), clock) /\ RowsHold(Held(r), fixtureRows)
                /\ PinHolds(Held(r), indexed, lastToken, watermark)
                /\ TraceHolds(Held(r), configs, runRows)

\* A step of the run in slot q: what is left to show is that it keeps its own.
LEMMA StepHolds ==
    ASSUME SoundnessInv, NEW q \in Runs, Aside(q), clock' = clock, StoreTyped', SlotsTyped',
           \A r \in Runs \ {q} : Held(r)' = Held(r) /\ reported'[r] = reported[r],
           rpc'[q] # "idle" => \A r \in Runs \ {q} : rpc[r] # "idle" =>
               seed'[q] # seed[r] /\ {mode'[q], mode[r]} # {"cold", "warm"},
           SelfHolds(q)', ReportHolds(reported'[q])
    PROVE  SoundnessInv'
<1>1. ASSUME NEW p \in Runs, NEW r \in Runs \ {p} PROVE RunsApart(p, r)'
  <2>1. RunsApart(p, r) /\ RunsApart(r, p)
    BY DEF SoundnessInv
  <2>2. \A s \in Runs \ {q} : rpc'[s] = rpc[s] /\ seed'[s] = seed[s] /\ mode'[s] = mode[s]
    BY DEF Held
  <2>3. CASE p = q
    BY <2>2, <2>3 DEF RunsApart
  <2>4. CASE r = q
    BY <2>2, <2>4 DEF RunsApart
  <2>5. CASE p # q /\ r # q
    BY <2>1, <2>2, <2>5 DEF RunsApart
  <2> QED BY <2>3, <2>4, <2>5
<1>2. ASSUME NEW r \in Runs
      PROVE  SelfHolds(r)' /\ ReportHolds(reported'[r])
  <2>1. CASE r = q
    BY <2>1
  <2>2. CASE r # q
    BY <2>2, OthersHold DEF SelfHolds
  <2> QED BY <2>1, <2>2
<1> QED BY <1>1, <1>2 DEF SoundnessInv, SelfHolds

\* A step within the work of a run: it keeps its seed, its mode and what it reported.
LEMMA WorkStepHolds ==
    ASSUME SoundnessInv, NEW q \in Runs, Aside(q), clock' = clock, StoreTyped', SlotsTyped',
           \A r \in Runs \ {q} : Held(r)' = Held(r), UNCHANGED <<optionVars, reported>>,
           rpc[q] # "idle", SelfHolds(q)'
    PROVE  SoundnessInv'
<1>1. \A r \in Runs \ {q} : rpc[r] # "idle" =>
          seed'[q] # seed[r] /\ {mode'[q], mode[r]} # {"cold", "warm"}
  BY DEF SoundnessInv, RunsApart, optionVars
<1>2. ReportHolds(reported'[q])
  BY DEF SoundnessInv
<1> QED BY <1>1, <1>2, StepHolds

LEMMA StartKeeps ==
    ASSUME SoundnessInv, ~Reruns, NEW q \in Runs, NEW s \in Seeds, NEW d \in BOOLEAN, NEW m \in Modes,
           Start(q, s, d, m)
    PROVE  SoundnessInv'
<1>1. /\ UNCHANGED <<clock, fixtureRows, lastToken, configs, runRows, indexed, watermark, todo, progressVars>>
      /\ rpc[q] = "idle" /\ starts' = starts + 1
      /\ ~Used(s)
      /\ \A r \in Runs : rpc[r] # "idle" => {m, mode[r]} # {"cold", "warm"}
  BY DEF Start, MayStart
<1>2. /\ rpc'[q] = "publishing" /\ seed'[q] = s /\ dry'[q] = d /\ mode'[q] = m /\ before'[q] = Trace(s)
      /\ spoilt'[q] = FALSE /\ reported'[q] = Void
      /\ \A r \in Runs \ {q} : /\ rpc'[r] = rpc[r] /\ seed'[r] = seed[r] /\ dry'[r] = dry[r]
                               /\ mode'[r] = mode[r] /\ before'[r] = before[r]
                               /\ spoilt'[r] = spoilt[r] /\ reported'[r] = reported[r]
  BY DEF SoundnessInv, SlotsTyped, Start
<1>3. StoreTyped'
  BY <1>1 DEF SoundnessInv, StoreTyped
<1>4. SlotsTyped'
  BY <1>1 DEF SoundnessInv, SlotsTyped, Start, RunStates, progressVars
<1>5. \A r \in Runs \ {q} : Held(r)' = Held(r)
  BY <1>1, <1>2 DEF Held, progressVars
<1>6. \A r \in Runs \ {q} : rpc[r] # "idle" => s # seed[r]
  BY <1>1 DEF Used
<1>7. SelfHolds(q)'
  <2>1. WorkHolds(Held(q), clock)
    BY DEF SoundnessInv
  <2>2. WorkHolds(Held(q)', clock')
    BY <1>1, <1>2, <2>1 DEF WorkHolds, Held, progressVars
  <2>3. Trace(s).rows = {}
    BY <1>1 DEF Used
  <2>4. RowsHold(Held(q)', fixtureRows')
    <3>1. \A i \in DOMAIN FixtureOf[s] : FixtureOf[s][i] \in TuplesOf(s)
      BY DEF TuplesOf
    <3>2. \A i \in DOMAIN FixtureOf[s] : fixtureRows[FixtureOf[s][i]] = Void
      BY <2>3, <3>1 DEF Trace
    <3> QED BY <1>1, <1>2, <3>2 DEF RowsHold, Held, Fixture, Tuple
  <2>5. PinHolds(Held(q)', indexed', lastToken', watermark')
    BY <1>2 DEF PinHolds, Held
  <2>6. TraceHolds(Held(q)', configs', runRows')
    <3>1. published'[q] = 0
      BY <1>1, <2>1 DEF WorkHolds, Held, progressVars
    <3>2. Trace(s) = [rows |-> {}, configs |-> configs[s]]
      BY <2>3 DEF Trace
    <3>3. before'[q].configs = configs[s] /\ before'[q] = [rows |-> {}, configs |-> before'[q].configs]
      BY <1>2, <3>2
    <3> HIDE DEF Trace
    <3> QED BY <1>1, <1>2, <3>1, <3>3 DEF TraceHolds, Held
  <2> QED BY <2>2, <2>4, <2>5, <2>6 DEF SelfHolds
<1>8. ReportHolds(reported'[q])
  BY <1>2 DEF ReportHolds
<1> QED BY <1>1, <1>2, <1>3, <1>4, <1>5, <1>6, <1>7, <1>8, StepHolds DEF Aside

\* The greatest version of a namespace and zero is not less than any.
LEMMA VersionIsNew ==
    ASSUME NEW S \in SUBSET (Nat \ {0}), IsFiniteSet(S)
    PROVE  LET v == Max(S \cup {0}) + 1
           IN  v \in Nat \ {0} /\ v \notin S /\ IsFiniteSet(S \cup {v})
<1> DEFINE T == S \cup {0}
<1>1. T \subseteq Nat /\ T # {} /\ IsFiniteSet(T)
  BY FS_AddElement
<1>2. PICK b \in Nat : \A n \in T : n <= b
  BY <1>1, FiniteIsBounded
<1>3. \E m \in T : \A n \in T : n <= m
  BY <1>1, <1>2, GreatestNumber
<1>4. \E m \in T : \A n \in T : m >= n
  BY <1>1, <1>3
<1> HIDE DEF T
<1>5. Max(T) \in T /\ \A n \in T : Max(T) >= n
  BY <1>4 DEF Max
<1>6. Max(T) + 1 \in Nat \ {0} /\ Max(T) + 1 \notin T
  <2>1. Max(T) \in Nat
    BY <1>1, <1>5
  <2>2. ASSUME Max(T) + 1 \in T PROVE FALSE
    <3>1. Max(T) >= Max(T) + 1
      BY <1>5, <2>2
    <3> QED BY <2>1, <3>1
  <2> QED BY <2>1, <2>2
<1>7. IsFiniteSet(S \cup {Max(T) + 1})
  BY FS_AddElement
<1> QED BY <1>6, <1>7 DEF T

LEMMA PublishFixtureKeeps ==
    ASSUME SoundnessInv, NEW q \in Runs, PublishFixture(q)
    PROVE  SoundnessInv'
<1> DEFINE s == seed[q]
           v == Max(configs[s] \cup {0}) + 1
<1>1. /\ UNCHANGED <<clock, fixtureRows, lastToken, runRows, indexed, watermark, starts, optionVars,
                     pin, live, viaIndex, hits, id, fuzzResult, reported, before, spoilt>>
      /\ rpc[q] = "publishing"
      /\ configs' = [configs EXCEPT ![s] = @ \cup {v}]
      /\ published' = [published EXCEPT ![q] = v]
      /\ anchor' = [anchor EXCEPT ![q] = clock]
      /\ todo' = [todo EXCEPT ![q] = DOMAIN FixtureOf[s]]
      /\ rpc' = [rpc EXCEPT ![q] = "writing"]
  BY DEF PublishFixture
<1>2. /\ WorkHolds(Held(q), clock) /\ RowsHold(Held(q), fixtureRows) /\ TraceHolds(Held(q), configs, runRows)
      /\ StoreTyped /\ SlotsTyped
  BY DEF SoundnessInv
<1>3. s \in Seeds
  BY <1>1, <1>2 DEF WorkHolds, Held
<1>4. v \in Nat \ {0} /\ v \notin configs[s] /\ IsFiniteSet(configs[s] \cup {v})
  BY <1>2, <1>3, VersionIsNew DEF StoreTyped
<1> HIDE DEF v
<1>5. /\ rpc'[q] = "writing" /\ published'[q] = v /\ anchor'[q] = clock /\ todo'[q] = DOMAIN FixtureOf[s]
      /\ \A r \in Runs \ {q} : /\ rpc'[r] = rpc[r] /\ published'[r] = published[r]
                               /\ anchor'[r] = anchor[r] /\ todo'[r] = todo[r]
  BY <1>1, <1>2 DEF SlotsTyped
<1>6. configs'[s] = configs[s] \cup {v} /\ \A u \in Seeds : u # s => configs'[u] = configs[u]
  BY <1>1, <1>2, <1>3 DEF StoreTyped
<1>7. StoreTyped'
  <2>1. configs' \in [Seeds -> SUBSET (Nat \ {0})]
    BY <1>1, <1>2, <1>4 DEF StoreTyped
  <2>2. \A u \in Seeds : IsFiniteSet(configs'[u])
    BY <1>2, <1>4, <1>6 DEF StoreTyped
  <2> QED BY <1>1, <1>2, <2>1, <2>2 DEF StoreTyped
<1>8. SlotsTyped'
  <2>1. DOMAIN FixtureOf[s] \in SUBSET Nat /\ clock \in Nat
    BY <1>2, <1>3, SoundnessAssumption DEF StoreTyped
  <2> QED BY <1>1, <1>2, <1>4, <2>1 DEF SlotsTyped, RunStates, optionVars
<1>9. \A r \in Runs \ {q} : Held(r)' = Held(r)
  BY <1>1, <1>5 DEF Held, optionVars
<1>10. SelfHolds(q)'
  <2>1. s = seed'[q] /\ before'[q] = before[q] /\ viaIndex'[q] = viaIndex[q] /\ hits'[q] = hits[q]
        /\ fuzzResult'[q] = fuzzResult[q]
    BY <1>1 DEF optionVars
  <2>2. WorkHolds(Held(q)', clock')
    <3>1. clock \in Nat /\ Margin \in Nat \ {0}
      BY <1>2, SoundnessAssumption DEF StoreTyped
    <3>2. clock <= clock /\ clock < clock + Margin
      BY <3>1
    <3> QED BY <1>1, <1>2, <1>3, <1>4, <1>5, <2>1, <3>2 DEF WorkHolds, Held, Fixture
  <2>3. RowsHold(Held(q)', fixtureRows')
    BY <1>1, <1>2, <1>5, <2>1 DEF RowsHold, Held, Fixture, Tuple
  <2>4. PinHolds(Held(q)', indexed', lastToken', watermark')
    BY <1>5, <2>1 DEF PinHolds, Held, Fixture
  <2>5. TraceHolds(Held(q)', configs', runRows')
    <3>1. configs[s] = before[q].configs /\ before[q] = [rows |-> {}, configs |-> before[q].configs]
      BY <1>1, <1>2 DEF TraceHolds, WorkHolds, Held
    <3> QED BY <1>4, <1>5, <1>6, <2>1, <3>1 DEF TraceHolds, Held
  <2> QED BY <2>2, <2>3, <2>4, <2>5 DEF SelfHolds
<1>11. Aside(q)
  BY <1>1, <1>2, <1>6 DEF Aside, StoreTyped
<1> QED BY <1>1, <1>7, <1>8, <1>9, <1>10, <1>11, WorkStepHolds

\* The position that a loop has come to.
LEMMA ComingIsLeft ==
    ASSUME SoundnessInv, NEW q \in Runs, rpc[q] \in {"writing", "backdating", "dropTuples"}, todo[q] # {}
    PROVE  /\ seed[q] \in Seeds /\ Coming(q) \in todo[q]
           /\ Coming(q) \in DOMAIN FixtureOf[seed[q]]
           /\ ComingTuple(q) \in AllTuples /\ ComingTuple(q) \in TuplesOf(seed[q])
           /\ ComingTuple(q) = FixtureOf[seed[q]][Coming(q)]
<1>1. WorkHolds(Held(q), clock) /\ todo[q] \subseteq Nat
  BY DEF SoundnessInv, SlotsTyped
<1>2. seed[q] \in Seeds /\ todo[q] \subseteq DOMAIN FixtureOf[seed[q]]
  BY <1>1 DEF WorkHolds, Held, Fixture
<1>3. \E i \in todo[q] : \A j \in todo[q] : i <= j
  BY <1>1, LeastNumber
<1>4. Coming(q) \in todo[q]
  BY <1>3 DEF Coming
<1>5. ComingTuple(q) = FixtureOf[seed[q]][Coming(q)]
  BY DEF ComingTuple
<1>6. FixtureOf[seed[q]][Coming(q)] \in AllTuples /\ FixtureOf[seed[q]][Coming(q)] \in TuplesOf(seed[q])
  BY <1>2, <1>4, SoundnessAssumption DEF TuplesOf
<1> QED BY <1>2, <1>4, <1>5, <1>6

LEMMA WriteFixtureTupleKeeps ==
    ASSUME SoundnessInv, NEW q \in Runs, WriteFixtureTuple(q)
    PROVE  SoundnessInv'
<1> DEFINE f == ComingTuple(q)
           c == Coming(q)
           s == seed[q]
           x == Written(q, f)
<1>1. /\ UNCHANGED <<clock, configs, runRows, indexed, watermark, starts, rpc, optionVars,
                     progressVars, reported, before, spoilt>>
      /\ rpc[q] = "writing" /\ todo[q] # {}
      /\ fixtureRows' = [fixtureRows EXCEPT ![f] = x]
      /\ lastToken' = lastToken + 1
      /\ todo' = [todo EXCEPT ![q] = @ \ {c}]
  BY DEF WriteFixtureTuple
<1>2. /\ WorkHolds(Held(q), clock) /\ RowsHold(Held(q), fixtureRows) /\ TraceHolds(Held(q), configs, runRows)
      /\ PinHolds(Held(q), indexed, lastToken, watermark)
      /\ StoreTyped /\ SlotsTyped
  BY DEF SoundnessInv
<1>3. /\ s \in Seeds /\ c \in todo[q] /\ c \in DOMAIN FixtureOf[s] /\ f \in AllTuples /\ f \in TuplesOf(s)
      /\ f = FixtureOf[s][c]
  BY <1>1, ComingIsLeft
<1>4. x = FreshExpiry(f, anchor[q])
  <2>1. fixtureRows[f] \in {Void, FreshExpiry(f, anchor[q])}
    BY <1>1, <1>2, <1>3 DEF RowsHold, Held, Fixture, Tuple
  <2> QED BY <2>1 DEF Written, FreshExpiry
<1> HIDE DEF x, f, c
<1>5. /\ fixtureRows'[f] = x /\ \A g \in AllTuples : g # f => fixtureRows'[g] = fixtureRows[g]
      /\ todo'[q] = todo[q] \ {c} /\ \A r \in Runs \ {q} : todo'[r] = todo[r]
  BY <1>1, <1>2, <1>3 DEF StoreTyped, SlotsTyped
<1>6. x \in Int \cup {Never, Void}
  <2>1. anchor[q] \in Nat /\ Margin \in Nat
    BY <1>2, SoundnessAssumption DEF SlotsTyped
  <2> QED BY <1>4, <2>1 DEF FreshExpiry
<1>7. StoreTyped'
  <2>1. fixtureRows' \in [AllTuples -> Int \cup {Never, Void}]
    BY <1>1, <1>2, <1>6 DEF StoreTyped
  <2> QED BY <1>1, <1>2, <2>1 DEF StoreTyped
<1>8. SlotsTyped'
  BY <1>1, <1>2 DEF SlotsTyped, optionVars, progressVars
<1>9. \A r \in Runs \ {q} : Held(r)' = Held(r)
  BY <1>1, <1>5 DEF Held, optionVars, progressVars
<1>10. SelfHolds(q)'
  <2>1. WorkHolds(Held(q)', clock')
    BY <1>1, <1>2, <1>5 DEF WorkHolds, Held, optionVars, progressVars, Fixture
  <2>2. RowsHold(Held(q)', fixtureRows')
    <3>1. ASSUME NEW i \in DOMAIN FixtureOf[s]
          PROVE  /\ fixtureRows'[FixtureOf[s][i]] \in {Void, FreshExpiry(FixtureOf[s][i], anchor[q])}
                 /\ i \notin todo'[q] =>
                        fixtureRows'[FixtureOf[s][i]] = FreshExpiry(FixtureOf[s][i], anchor[q])
      <4>1. /\ fixtureRows[FixtureOf[s][i]] \in {Void, FreshExpiry(FixtureOf[s][i], anchor[q])}
            /\ i \notin todo[q] => fixtureRows[FixtureOf[s][i]] = FreshExpiry(FixtureOf[s][i], anchor[q])
        BY <1>1, <1>2 DEF RowsHold, Held, Fixture, Tuple
      <4>2. FixtureOf[s][i] \in AllTuples
        BY <1>3, SoundnessAssumption
      <4> QED BY <1>3, <1>4, <1>5, <4>1, <4>2
    <3> QED BY <1>1, <3>1 DEF RowsHold, Held, Fixture, Tuple, optionVars, progressVars
  <2>3. PinHolds(Held(q)', indexed', lastToken', watermark')
    <3>1. watermark < lastToken + 1
      BY <1>2 DEF StoreTyped
    <3> QED BY <1>1, <3>1 DEF PinHolds, Held
  <2>4. TraceHolds(Held(q)', configs', runRows')
    BY <1>1, <1>2 DEF TraceHolds, Held, optionVars, progressVars
  <2> QED BY <2>1, <2>2, <2>3, <2>4 DEF SelfHolds
<1>11. Aside(q)
  <2>1. \A g \in AllTuples : g \notin TuplesOf(s) => fixtureRows'[g] = fixtureRows[g]
    BY <1>3, <1>5
  <2>2. lastToken <= lastToken' /\ lastToken' \in Nat
    BY <1>1, <1>2 DEF StoreTyped
  <2> QED BY <1>1, <2>1, <2>2 DEF Aside
<1> QED BY <1>1, <1>7, <1>8, <1>9, <1>10, <1>11, WorkStepHolds

LEMMA FixtureWrittenKeeps ==
    ASSUME SoundnessInv, NEW q \in Runs, FixtureWritten(q)
    PROVE  SoundnessInv'
<1> DEFINE s == seed[q]
<1>1. /\ UNCHANGED <<storeVars, optionVars, progressVars, reported, before, spoilt>>
      /\ rpc[q] = "writing" /\ todo[q] = {}
      /\ todo' = [todo EXCEPT ![q] = ExpiredOf(s)]
      /\ rpc' = [rpc EXCEPT ![q] = "backdating"]
  BY DEF FixtureWritten
<1>2. /\ WorkHolds(Held(q), clock) /\ RowsHold(Held(q), fixtureRows) /\ TraceHolds(Held(q), configs, runRows)
      /\ PinHolds(Held(q), indexed, lastToken, watermark)
      /\ StoreTyped /\ SlotsTyped
  BY DEF SoundnessInv
<1>3. s \in Seeds /\ DOMAIN FixtureOf[s] \subseteq Nat /\ DOMAIN FixtureOf[s] # {}
  <2>1. s \in Seeds
    BY <1>1, <1>2 DEF WorkHolds, Held
  <2>2. FixtureOf[s] \in Seq(AllTuples) /\ FixtureOf[s] # << >>
    BY <2>1, SoundnessAssumption
  <2>3. 1 \in DOMAIN FixtureOf[s] /\ DOMAIN FixtureOf[s] \subseteq Nat
    BY <2>2
  <2> QED BY <2>1, <2>3
<1>4. /\ todo'[q] = ExpiredOf(s) /\ rpc'[q] = "backdating"
      /\ \A r \in Runs \ {q} : todo'[r] = todo[r] /\ rpc'[r] = rpc[r]
  BY <1>1, <1>2 DEF SlotsTyped
<1>5. StoreTyped'
  BY <1>1, <1>2 DEF StoreTyped, storeVars
<1>6. SlotsTyped'
  <2>1. ExpiredOf(s) \subseteq Nat
    BY <1>3 DEF ExpiredOf
  <2> QED BY <1>1, <1>2, <2>1 DEF SlotsTyped, RunStates, optionVars, progressVars
<1>7. \A r \in Runs \ {q} : Held(r)' = Held(r)
  BY <1>1, <1>4 DEF Held, optionVars, progressVars
<1>8. SelfHolds(q)'
  <2>1. WorkHolds(Held(q)', clock')
    <3>1. ExpiredOf(s) \subseteq DOMAIN FixtureOf[s]
      BY DEF ExpiredOf
    <3> QED BY <1>1, <1>2, <1>4, <3>1 DEF WorkHolds, Held, optionVars, progressVars, storeVars, Fixture
  <2>2. RowsHold(Held(q)', fixtureRows')
    <3>1. ASSUME NEW i \in DOMAIN FixtureOf[s]
          PROVE  /\ fixtureRows[FixtureOf[s][i]] = FreshExpiry(FixtureOf[s][i], anchor[q])
                 /\ i \notin ExpiredOf(s) =>
                        fixtureRows[FixtureOf[s][i]] = ExpiryOf(FixtureOf[s][i], anchor[q])
                 /\ i \in ExpiredOf(s) => ExpiryKindOf[FixtureOf[s][i]] = "expired"
      <4>1. fixtureRows[FixtureOf[s][i]] = FreshExpiry(FixtureOf[s][i], anchor[q])
        BY <1>1, <1>2 DEF RowsHold, Held, Fixture, Tuple
      <4>2. ExpiryKindOf[FixtureOf[s][i]] \in {"plain", "valid", "expired"}
        BY <1>3, SoundnessAssumption
      <4> QED BY <4>1, <4>2 DEF ExpiredOf, FreshExpiry, ExpiryOf
    <3> QED BY <1>1, <1>4, <3>1 DEF RowsHold, Held, Fixture, Tuple, optionVars, progressVars, storeVars
  <2>3. PinHolds(Held(q)', indexed', lastToken', watermark')
    BY <1>1, <1>2, <1>3, <1>4 DEF PinHolds, Held, optionVars, storeVars, Fixture
  <2>4. TraceHolds(Held(q)', configs', runRows')
    BY <1>1, <1>2, <1>4 DEF TraceHolds, Held, optionVars, progressVars, storeVars
  <2> QED BY <2>1, <2>2, <2>3, <2>4 DEF SelfHolds
<1>9. Aside(q)
  BY <1>1 DEF Aside, storeVars
<1> QED BY <1>1, <1>5, <1>6, <1>7, <1>8, <1>9, WorkStepHolds DEF storeVars

LEMMA BackdateTupleKeeps ==
    ASSUME SoundnessInv, NEW q \in Runs, BackdateTuple(q)
    PROVE  SoundnessInv'
<1> DEFINE f == ComingTuple(q)
           c == Coming(q)
           s == seed[q]
           x == anchor[q] - Margin
<1>1. /\ UNCHANGED <<clock, lastToken, configs, runRows, indexed, watermark, starts, rpc, optionVars,
                     progressVars, reported, before, spoilt>>
      /\ rpc[q] = "backdating" /\ todo[q] # {}
      /\ fixtureRows' = [fixtureRows EXCEPT ![f] = IF @ = Void THEN Void ELSE x]
      /\ todo' = [todo EXCEPT ![q] = @ \ {c}]
  BY DEF BackdateTuple
<1>2. /\ WorkHolds(Held(q), clock) /\ RowsHold(Held(q), fixtureRows) /\ TraceHolds(Held(q), configs, runRows)
      /\ PinHolds(Held(q), indexed, lastToken, watermark)
      /\ StoreTyped /\ SlotsTyped
  BY DEF SoundnessInv
<1>3. /\ s \in Seeds /\ c \in todo[q] /\ c \in DOMAIN FixtureOf[s] /\ f \in AllTuples /\ f \in TuplesOf(s)
      /\ f = FixtureOf[s][c]
  BY <1>1, ComingIsLeft
<1>4. ExpiryKindOf[f] = "expired" /\ fixtureRows[f] \in {FreshExpiry(f, anchor[q]), ExpiryOf(f, anchor[q])}
  BY <1>1, <1>2, <1>3 DEF RowsHold, Held, Fixture, Tuple
<1>5. x \in Int /\ ExpiryOf(f, anchor[q]) = x /\ fixtureRows[f] # Void
  <2>1. anchor[q] \in Nat /\ Margin \in Nat
    BY <1>2, SoundnessAssumption DEF SlotsTyped
  <2>2. FreshExpiry(f, anchor[q]) \in Int
    BY <1>4, <2>1 DEF FreshExpiry
  <2> QED BY <1>4, <2>1, <2>2, SoundnessAssumption DEF ExpiryOf
<1> HIDE DEF x, f, c
<1>6. /\ fixtureRows' = [fixtureRows EXCEPT ![f] = x]
      /\ fixtureRows'[f] = x /\ \A g \in AllTuples : g # f => fixtureRows'[g] = fixtureRows[g]
      /\ todo'[q] = todo[q] \ {c} /\ \A r \in Runs \ {q} : todo'[r] = todo[r]
  BY <1>1, <1>2, <1>3, <1>5 DEF StoreTyped, SlotsTyped
<1>7. StoreTyped'
  <2>1. fixtureRows' \in [AllTuples -> Int \cup {Never, Void}]
    BY <1>2, <1>5, <1>6 DEF StoreTyped
  <2> QED BY <1>1, <1>2, <2>1 DEF StoreTyped
<1>8. SlotsTyped'
  BY <1>1, <1>2 DEF SlotsTyped, optionVars, progressVars
<1>9. \A r \in Runs \ {q} : Held(r)' = Held(r)
  BY <1>1, <1>6 DEF Held, optionVars, progressVars
<1>10. SelfHolds(q)'
  <2>1. WorkHolds(Held(q)', clock')
    BY <1>1, <1>2, <1>6 DEF WorkHolds, Held, optionVars, progressVars, Fixture
  <2>2. RowsHold(Held(q)', fixtureRows')
    <3>1. ASSUME NEW i \in DOMAIN FixtureOf[s]
          PROVE  LET g == FixtureOf[s][i] IN
                 /\ fixtureRows'[g] \in {FreshExpiry(g, anchor[q]), ExpiryOf(g, anchor[q])}
                 /\ i \notin todo'[q] => fixtureRows'[g] = ExpiryOf(g, anchor[q])
                 /\ i \in todo'[q] => ExpiryKindOf[g] = "expired"
      <4> DEFINE g == FixtureOf[s][i]
      <4>1. /\ fixtureRows[g] \in {FreshExpiry(g, anchor[q]), ExpiryOf(g, anchor[q])}
            /\ i \notin todo[q] => fixtureRows[g] = ExpiryOf(g, anchor[q])
            /\ i \in todo[q] => ExpiryKindOf[g] = "expired"
        BY <1>1, <1>2 DEF RowsHold, Held, Fixture, Tuple
      <4>2. g \in AllTuples
        BY <1>3, SoundnessAssumption
      <4> QED BY <1>3, <1>5, <1>6, <4>1, <4>2
    <3> QED BY <1>1, <3>1 DEF RowsHold, Held, Fixture, Tuple, optionVars, progressVars
  <2>3. PinHolds(Held(q)', indexed', lastToken', watermark')
    BY <1>1, <1>2 DEF PinHolds, Held, optionVars
  <2>4. TraceHolds(Held(q)', configs', runRows')
    BY <1>1, <1>2 DEF TraceHolds, Held, optionVars, progressVars
  <2> QED BY <2>1, <2>2, <2>3, <2>4 DEF SelfHolds
<1>11. Aside(q)
  <2>1. \A g \in AllTuples : g \notin TuplesOf(s) => fixtureRows'[g] = fixtureRows[g]
    BY <1>3, <1>6
  <2>2. lastToken <= lastToken' /\ lastToken' \in Nat
    BY <1>1, <1>2 DEF StoreTyped
  <2> QED BY <1>1, <2>1, <2>2 DEF Aside
<1> QED BY <1>1, <1>7, <1>8, <1>9, <1>10, <1>11, WorkStepHolds

LEMMA PinRunKeeps ==
    ASSUME SoundnessInv, NEW q \in Runs, PinRun(q)
    PROVE  SoundnessInv'
<1> DEFINE s == seed[q]
           x == IF mode[q] = "off" THEN 0 ELSE lastToken
<1>1. /\ UNCHANGED <<clock, fixtureRows, lastToken, configs, runRows, starts, optionVars, todo, anchor,
                     published, live, viaIndex, hits, id, fuzzResult, reported, before, spoilt>>
      /\ rpc[q] = "backdating" /\ todo[q] = {}
      /\ pin' = [pin EXCEPT ![q] = x]
      /\ IF mode[q] = "warm" THEN indexed' = fixtureRows /\ watermark' = lastToken
         ELSE UNCHANGED <<indexed, watermark>>
      /\ rpc' = [rpc EXCEPT ![q] = "checking"]
  BY DEF PinRun
<1>2. /\ WorkHolds(Held(q), clock) /\ RowsHold(Held(q), fixtureRows) /\ TraceHolds(Held(q), configs, runRows)
      /\ PinHolds(Held(q), indexed, lastToken, watermark)
      /\ StoreTyped /\ SlotsTyped
  BY DEF SoundnessInv
<1>3. x \in Nat /\ watermark \in Nat /\ lastToken \in Nat /\ watermark <= lastToken
  BY <1>2 DEF StoreTyped
<1>4. /\ pin'[q] = x /\ rpc'[q] = "checking"
      /\ \A r \in Runs \ {q} : pin'[r] = pin[r] /\ rpc'[r] = rpc[r]
  BY <1>1, <1>2 DEF SlotsTyped
<1>5. StoreTyped'
  BY <1>1, <1>2, <1>3 DEF StoreTyped
<1>6. SlotsTyped'
  BY <1>1, <1>2, <1>3 DEF SlotsTyped, RunStates, optionVars
<1>7. \A r \in Runs \ {q} : Held(r)' = Held(r)
  BY <1>1, <1>4 DEF Held, optionVars
<1>8. SelfHolds(q)'
  <2>1. WorkHolds(Held(q)', clock')
    BY <1>1, <1>2, <1>4 DEF WorkHolds, Held, optionVars
  <2>2. \A i \in DOMAIN FixtureOf[s] : fixtureRows[FixtureOf[s][i]] = ExpiryOf(FixtureOf[s][i], anchor[q])
    BY <1>1, <1>2 DEF RowsHold, Held, Fixture, Tuple
  <2>3. RowsHold(Held(q)', fixtureRows')
    BY <1>1, <1>4, <2>2 DEF RowsHold, Held, Fixture, Tuple, optionVars
  <2>4. PinHolds(Held(q)', indexed', lastToken', watermark')
    <3>1. CASE mode[q] = "warm"
      <4>1. x <= lastToken
        BY <1>3
      <4> QED BY <1>1, <1>4, <2>2, <3>1, <4>1 DEF PinHolds, Held, Fixture, Tuple, optionVars
    <3>2. CASE mode[q] # "warm"
      <4>1. mode[q] = "cold" => watermark < lastToken
        BY <1>1, <1>2 DEF PinHolds, Held
      <4> QED BY <1>1, <1>4, <3>2, <4>1 DEF PinHolds, Held, optionVars
    <3> QED BY <3>1, <3>2
  <2>5. TraceHolds(Held(q)', configs', runRows')
    BY <1>1, <1>2, <1>4 DEF TraceHolds, Held, optionVars
  <2> QED BY <2>1, <2>3, <2>4, <2>5 DEF SelfHolds
<1>9. Aside(q)
  BY <1>1, <1>3 DEF Aside
<1> QED BY <1>1, <1>5, <1>6, <1>7, <1>8, <1>9, WorkStepHolds

\* Within the margin what is stored is as live as the reference resolver takes it to be.
LEMMA AnswersExpected ==
    ASSUME NEW s \in Seeds, NEW a \in Nat, NEW t \in Nat, a <= t, t < a + Margin,
           NEW stored, \A i \in DOMAIN FixtureOf[s] : stored[FixtureOf[s][i]] = ExpiryOf(FixtureOf[s][i], a)
    PROVE  Holds(s, stored, t) = Expected(s, a)
<1> DEFINE expected == [f \in AllTuples |-> ExpiryOf(f, a)]
<1>1. ASSUME NEW f \in TuplesOf(s)
      PROVE  f \in AllTuples /\ stored[f] = ExpiryOf(f, a)
  <2>1. PICK i \in DOMAIN FixtureOf[s] : f = FixtureOf[s][i]
    BY DEF TuplesOf
  <2>2. f \in AllTuples
    BY <2>1, SoundnessAssumption
  <2> QED BY <2>1, <2>2
<1>2. ASSUME NEW f \in TuplesOf(s)
      PROVE  IsLive(stored[f], t) <=> IsLive(expected[f], a)
  <2>1. expected[f] = stored[f] /\ stored[f] = ExpiryOf(f, a)
    BY <1>1
  <2>2. Margin \in Nat \ {0} /\ Void # Never /\ Void \notin Int /\ Never \notin Int
    BY SoundnessAssumption
  <2>3. ExpiryKindOf[f] \in {"plain", "valid", "expired"}
    BY <1>1, SoundnessAssumption
  <2>4. CASE ExpiryKindOf[f] = "plain"
    BY <2>1, <2>2, <2>4 DEF ExpiryOf, IsLive
  <2>5. CASE ExpiryKindOf[f] = "valid"
    <3>1. stored[f] = a + Margin /\ a + Margin \in Int /\ a + Margin > t /\ a + Margin > a
      BY <2>1, <2>2, <2>5 DEF ExpiryOf
    <3> QED BY <2>1, <2>2, <3>1 DEF IsLive
  <2>6. CASE ExpiryKindOf[f] = "expired"
    <3>1. stored[f] = a - Margin /\ a - Margin \in Int /\ ~ (a - Margin > t) /\ ~ (a - Margin > a)
      BY <2>1, <2>2, <2>6 DEF ExpiryOf
    <3> QED BY <2>1, <2>2, <3>1 DEF IsLive
  <2> QED BY <2>3, <2>4, <2>5, <2>6
<1> HIDE DEF expected
<1>3. Holds(s, stored, t) <=> Holds(s, expected, a)
  BY <1>2 DEF Holds
<1>4. Holds(s, stored, t) \in BOOLEAN /\ Holds(s, expected, a) \in BOOLEAN
  BY DEF Holds
<1> QED BY <1>3, <1>4 DEF Expected, expected

LEMMA CheckLiveKeeps ==
    ASSUME SoundnessInv, NEW q \in Runs, CheckLive(q)
    PROVE  SoundnessInv'
<1> DEFINE s == seed[q]
           served == mode[q] = "cold" /\ IndexServes(q)
           x == Holds(s, IF served THEN indexed ELSE fixtureRows, clock)
           h == IF served THEN 1 ELSE 0
           at == IF mode[q] = "warm" THEN "checkingIndex" ELSE "recording"
<1>1. /\ UNCHANGED <<storeVars, optionVars, todo, anchor, published, pin, viaIndex, id, fuzzResult,
                     reported, before, spoilt>>
      /\ rpc[q] = "checking"
      /\ live' = [live EXCEPT ![q] = x] /\ hits' = [hits EXCEPT ![q] = h] /\ rpc' = [rpc EXCEPT ![q] = at]
  BY DEF CheckLive
<1>2. /\ WorkHolds(Held(q), clock) /\ RowsHold(Held(q), fixtureRows) /\ TraceHolds(Held(q), configs, runRows)
      /\ PinHolds(Held(q), indexed, lastToken, watermark)
      /\ StoreTyped /\ SlotsTyped
  BY DEF SoundnessInv
<1>3. ~served
  <2>1. mode[q] = "cold" => watermark < pin[q]
    BY <1>1, <1>2 DEF PinHolds, Held
  <2>2. watermark \in Nat /\ pin[q] \in Nat
    BY <1>2 DEF StoreTyped, SlotsTyped
  <2> QED BY <2>1, <2>2 DEF IndexServes
<1>4. x = Expected(s, anchor[q]) /\ h = 0
  <2>1. /\ s \in Seeds /\ anchor[q] <= clock /\ clock < anchor[q] + Margin
    BY <1>1, <1>2 DEF WorkHolds, Held
  <2>2. anchor[q] \in Nat /\ clock \in Nat
    BY <1>2 DEF StoreTyped, SlotsTyped
  <2>3. \A i \in DOMAIN FixtureOf[s] : fixtureRows[FixtureOf[s][i]] = ExpiryOf(FixtureOf[s][i], anchor[q])
    BY <1>1, <1>2 DEF RowsHold, Held, Fixture, Tuple
  <2>4. Holds(s, fixtureRows, clock) = Expected(s, anchor[q])
    BY <2>1, <2>2, <2>3, AnswersExpected
  <2> QED BY <1>3, <2>4
<1>5. x \in BOOLEAN /\ h \in Nat /\ at \in {"checkingIndex", "recording"}
  BY DEF Holds
<1> HIDE DEF x, h, served
<1>6. /\ live'[q] = x /\ hits'[q] = h /\ rpc'[q] = at
      /\ \A r \in Runs \ {q} : live'[r] = live[r] /\ hits'[r] = hits[r] /\ rpc'[r] = rpc[r]
  BY <1>1, <1>2 DEF SlotsTyped
<1>7. StoreTyped'
  BY <1>1, <1>2 DEF StoreTyped, storeVars
<1>8. SlotsTyped'
  BY <1>1, <1>2, <1>5 DEF SlotsTyped, RunStates, optionVars
<1>9. \A r \in Runs \ {q} : Held(r)' = Held(r)
  BY <1>1, <1>6 DEF Held, optionVars
<1>10. SelfHolds(q)'
  <2>1. WorkHolds(Held(q)', clock')
    BY <1>1, <1>2, <1>4, <1>6 DEF WorkHolds, Held, optionVars, storeVars
  <2>2. RowsHold(Held(q)', fixtureRows')
    BY <1>1, <1>2, <1>5, <1>6 DEF RowsHold, Held, Fixture, Tuple, optionVars, storeVars
  <2>3. PinHolds(Held(q)', indexed', lastToken', watermark')
    BY <1>1, <1>2, <1>5, <1>6 DEF PinHolds, Held, Fixture, Tuple, optionVars, storeVars
  <2>4. TraceHolds(Held(q)', configs', runRows')
    BY <1>1, <1>2, <1>5, <1>6 DEF TraceHolds, Held, optionVars, storeVars
  <2> QED BY <2>1, <2>2, <2>3, <2>4 DEF SelfHolds
<1>11. Aside(q)
  BY <1>1 DEF Aside, storeVars
<1> QED BY <1>1, <1>7, <1>8, <1>9, <1>10, <1>11, WorkStepHolds DEF storeVars

LEMMA CheckIndexKeeps ==
    ASSUME SoundnessInv, NEW q \in Runs, CheckIndex(q)
    PROVE  SoundnessInv'
<1> DEFINE s == seed[q]
           x == Holds(s, IF IndexServes(q) THEN indexed ELSE fixtureRows, clock)
           h == IF IndexServes(q) THEN 1 ELSE 0
<1>1. /\ UNCHANGED <<storeVars, optionVars, todo, anchor, published, pin, live, id, fuzzResult,
                     reported, before, spoilt>>
      /\ rpc[q] = "checkingIndex"
      /\ viaIndex' = [viaIndex EXCEPT ![q] = x] /\ hits' = [hits EXCEPT ![q] = h]
      /\ rpc' = [rpc EXCEPT ![q] = "recording"]
  BY DEF CheckIndex
<1>2. /\ WorkHolds(Held(q), clock) /\ RowsHold(Held(q), fixtureRows) /\ TraceHolds(Held(q), configs, runRows)
      /\ PinHolds(Held(q), indexed, lastToken, watermark)
      /\ StoreTyped /\ SlotsTyped
  BY DEF SoundnessInv
<1>3. mode[q] = "warm"
  BY <1>1, <1>2 DEF WorkHolds, Held
<1>4. IndexServes(q) /\ \A i \in DOMAIN FixtureOf[s] :
          indexed[FixtureOf[s][i]] = ExpiryOf(FixtureOf[s][i], anchor[q])
  BY <1>1, <1>2, <1>3 DEF PinHolds, Held, Fixture, Tuple, IndexServes
<1>5. x = live[q] /\ h = 1
  <2>1. /\ s \in Seeds /\ anchor[q] <= clock /\ clock < anchor[q] + Margin
        /\ live[q] = Expected(s, anchor[q])
    BY <1>1, <1>2 DEF WorkHolds, Held
  <2>2. anchor[q] \in Nat /\ clock \in Nat
    BY <1>2 DEF StoreTyped, SlotsTyped
  <2>3. Holds(s, indexed, clock) = Expected(s, anchor[q])
    BY <1>4, <2>1, <2>2, AnswersExpected
  <2> QED BY <1>4, <2>1, <2>3
<1> HIDE DEF x, h
<1>6. /\ viaIndex'[q] = x /\ hits'[q] = h /\ rpc'[q] = "recording"
      /\ \A r \in Runs \ {q} : viaIndex'[r] = viaIndex[r] /\ hits'[r] = hits[r] /\ rpc'[r] = rpc[r]
  BY <1>1, <1>2 DEF SlotsTyped
<1>7. StoreTyped'
  BY <1>1, <1>2 DEF StoreTyped, storeVars
<1>8. SlotsTyped'
  BY <1>1, <1>2, <1>5 DEF SlotsTyped, RunStates, optionVars
<1>9. \A r \in Runs \ {q} : Held(r)' = Held(r)
  BY <1>1, <1>6 DEF Held, optionVars
<1>10. SelfHolds(q)'
  <2>1. WorkHolds(Held(q)', clock')
    BY <1>1, <1>2, <1>3, <1>5, <1>6 DEF WorkHolds, Held, optionVars, storeVars
  <2>2. RowsHold(Held(q)', fixtureRows')
    BY <1>1, <1>2, <1>6 DEF RowsHold, Held, Fixture, Tuple, optionVars, storeVars
  <2>3. PinHolds(Held(q)', indexed', lastToken', watermark')
    BY <1>1, <1>2, <1>6 DEF PinHolds, Held, Fixture, Tuple, optionVars, storeVars
  <2>4. TraceHolds(Held(q)', configs', runRows')
    BY <1>1, <1>2, <1>6 DEF TraceHolds, Held, optionVars, storeVars
  <2> QED BY <2>1, <2>2, <2>3, <2>4 DEF SelfHolds
<1>11. Aside(q)
  BY <1>1 DEF Aside, storeVars
<1> QED BY <1>1, <1>7, <1>8, <1>9, <1>10, <1>11, WorkStepHolds DEF storeVars

LEMMA RecordRunKeeps ==
    ASSUME SoundnessInv, NEW q \in Runs, RecordRun(q)
    PROVE  SoundnessInv'
<1> DEFINE x == <<q, starts>>
           o == RunOutcome(q)
           at == AfterWork(q)
<1>1. /\ UNCHANGED <<clock, fixtureRows, lastToken, configs, indexed, watermark, starts, optionVars, todo,
                     anchor, published, pin, live, viaIndex, hits, reported, before, spoilt>>
      /\ rpc[q] = "recording"
      /\ runRows' = runRows \cup {x} /\ id' = [id EXCEPT ![q] = x]
      /\ fuzzResult' = [fuzzResult EXCEPT ![q] = o] /\ rpc' = [rpc EXCEPT ![q] = at]
  BY DEF RecordRun
<1>2. /\ WorkHolds(Held(q), clock) /\ RowsHold(Held(q), fixtureRows) /\ TraceHolds(Held(q), configs, runRows)
      /\ PinHolds(Held(q), indexed, lastToken, watermark)
      /\ StoreTyped /\ SlotsTyped
  BY DEF SoundnessInv
<1>3. Acquitted(o)
  <2>1. /\ live[q] = Expected(seed[q], anchor[q]) /\ viaIndex[q] \in {Void, live[q]}
        /\ mode[q] = "warm" => hits[q] # 0
        /\ mode[q] = "cold" => hits[q] = 0
    BY <1>1, <1>2 DEF WorkHolds, Held
  <2>2. Divergence(q) = Void
    BY <2>1 DEF Divergence, ReferenceAllowed, Expected
  <2>3. IndexDivergence(q) = Void
    BY <2>1 DEF IndexDivergence
  <2>4. Void # "index_false_grant"
    BY SoundnessAssumption
  <2>5. Verdict(q) = "sound"
    BY <2>1, <2>2, <2>3, <2>4 DEF Verdict, IsFalseGrant, IndexGateFailed
  <2> QED BY <2>2, <2>3, <2>5 DEF Acquitted, RunOutcome
<1>4. x \in {q} \X Nat /\ at = (IF dry[q] THEN "dropRun" ELSE "returning")
  BY <1>2 DEF AfterWork, StoreTyped
<1> HIDE DEF x, o, at
<1>5. /\ id'[q] = x /\ fuzzResult'[q] = o /\ rpc'[q] = at
      /\ \A r \in Runs \ {q} : id'[r] = id[r] /\ fuzzResult'[r] = fuzzResult[r] /\ rpc'[r] = rpc[r]
  BY <1>1, <1>2 DEF SlotsTyped
<1>6. StoreTyped'
  <2>1. runRows' \subseteq Runs \X Nat
    BY <1>1, <1>2, <1>4 DEF StoreTyped
  <2> QED BY <1>1, <1>2, <2>1 DEF StoreTyped
<1>7. SlotsTyped'
  <2>1. id' \in [Runs -> {Void} \cup Runs \X Nat] /\ \A r \in Runs : id'[r] \in {Void} \cup {r} \X Nat
    BY <1>1, <1>2, <1>4, <1>5 DEF SlotsTyped
  <2>2. rpc' \in [Runs -> RunStates] /\ DOMAIN fuzzResult' = Runs
    BY <1>1, <1>2, <1>4 DEF SlotsTyped, RunStates
  <2> QED BY <1>1, <1>2, <2>1, <2>2 DEF SlotsTyped, optionVars
<1>8. \A r \in Runs \ {q} : Held(r)' = Held(r)
  BY <1>1, <1>5 DEF Held, optionVars
<1>9. SelfHolds(q)'
  <2>1. WorkHolds(Held(q)', clock')
    BY <1>1, <1>2, <1>3, <1>4, <1>5 DEF WorkHolds, Held, optionVars
  <2>2. RowsHold(Held(q)', fixtureRows')
    BY <1>1, <1>2, <1>4, <1>5 DEF RowsHold, Held, optionVars
  <2>3. PinHolds(Held(q)', indexed', lastToken', watermark')
    BY <1>1, <1>2, <1>4, <1>5 DEF PinHolds, Held, optionVars
  <2>4. TraceHolds(Held(q)', configs', runRows')
    BY <1>1, <1>2, <1>4, <1>5 DEF TraceHolds, Held, optionVars
  <2> QED BY <2>1, <2>2, <2>3, <2>4 DEF SelfHolds
<1>10. Aside(q)
  BY <1>1, <1>2, <1>4 DEF Aside, StoreTyped
<1> QED BY <1>1, <1>6, <1>7, <1>8, <1>9, <1>10, WorkStepHolds

LEMMA RunThrowsKeeps ==
    ASSUME SoundnessInv, NEW q \in Runs, RunThrows(q)
    PROVE  SoundnessInv'
<1> DEFINE at == AfterWork(q)
<1>1. /\ UNCHANGED <<storeVars, optionVars, progressVars, reported, before, spoilt>>
      /\ rpc[q] \in {"publishing", "writing", "backdating", "checking", "checkingIndex", "recording"}
      /\ rpc' = [rpc EXCEPT ![q] = at] /\ todo' = [todo EXCEPT ![q] = {}]
  BY DEF RunThrows
<1>2. /\ WorkHolds(Held(q), clock) /\ RowsHold(Held(q), fixtureRows) /\ TraceHolds(Held(q), configs, runRows)
      /\ PinHolds(Held(q), indexed, lastToken, watermark)
      /\ StoreTyped /\ SlotsTyped
  BY DEF SoundnessInv
<1>3. at = (IF dry[q] THEN "dropRun" ELSE "returning")
  BY DEF AfterWork
<1> HIDE DEF at
<1>4. /\ rpc'[q] = at /\ \A r \in Runs \ {q} : rpc'[r] = rpc[r] /\ todo'[r] = todo[r]
  BY <1>1, <1>2 DEF SlotsTyped
<1>5. StoreTyped'
  BY <1>1, <1>2 DEF StoreTyped, storeVars
<1>6. SlotsTyped'
  BY <1>1, <1>2, <1>3 DEF SlotsTyped, RunStates, optionVars, progressVars
<1>7. \A r \in Runs \ {q} : Held(r)' = Held(r)
  BY <1>1, <1>4 DEF Held, optionVars, progressVars
<1>8. SelfHolds(q)'
  <2>1. WorkHolds(Held(q)', clock')
    BY <1>1, <1>2, <1>3, <1>4 DEF WorkHolds, Held, optionVars, progressVars, storeVars
  <2>2. RowsHold(Held(q)', fixtureRows')
    BY <1>1, <1>3, <1>4 DEF RowsHold, Held, optionVars
  <2>3. PinHolds(Held(q)', indexed', lastToken', watermark')
    BY <1>3, <1>4 DEF PinHolds, Held
  <2>4. TraceHolds(Held(q)', configs', runRows')
    BY <1>1, <1>2, <1>3, <1>4 DEF TraceHolds, Held, optionVars, progressVars, storeVars
  <2> QED BY <2>1, <2>2, <2>3, <2>4 DEF SelfHolds
<1>9. Aside(q)
  BY <1>1 DEF Aside, storeVars
<1> QED BY <1>1, <1>5, <1>6, <1>7, <1>8, <1>9, WorkStepHolds DEF storeVars

LEMMA DropRunKeeps ==
    ASSUME SoundnessInv, NEW q \in Runs, DropRun(q)
    PROVE  SoundnessInv'
<1> DEFINE s == seed[q]
<1>1. /\ UNCHANGED <<clock, fixtureRows, lastToken, configs, indexed, watermark, starts, optionVars,
                     progressVars, reported, before>>
      /\ rpc[q] = "dropRun"
      /\ \/ runRows' = runRows \ {id[q]} /\ spoilt' = spoilt
         \/ runRows' = runRows /\ spoilt' = [spoilt EXCEPT ![q] = TRUE]
      /\ todo' = [todo EXCEPT ![q] = DOMAIN FixtureOf[s]] /\ rpc' = [rpc EXCEPT ![q] = "dropTuples"]
  BY DEF DropRun
<1>2. /\ WorkHolds(Held(q), clock) /\ RowsHold(Held(q), fixtureRows) /\ TraceHolds(Held(q), configs, runRows)
      /\ PinHolds(Held(q), indexed, lastToken, watermark)
      /\ StoreTyped /\ SlotsTyped
  BY DEF SoundnessInv
<1>3. s \in Seeds /\ DOMAIN FixtureOf[s] \in SUBSET Nat
  <2>1. s \in Seeds
    BY <1>1, <1>2 DEF WorkHolds, Held
  <2> QED BY <2>1, SoundnessAssumption
<1>4. /\ rpc'[q] = "dropTuples" /\ todo'[q] = DOMAIN FixtureOf[s]
      /\ \/ id[q] \notin runRows' \/ spoilt'[q]
      /\ \A r \in Runs \ {q} : rpc'[r] = rpc[r] /\ todo'[r] = todo[r] /\ spoilt'[r] = spoilt[r]
  BY <1>1, <1>2 DEF SlotsTyped
<1>5. StoreTyped' /\ runRows' \subseteq runRows
  <2>1. runRows' \subseteq runRows
    BY <1>1
  <2> QED BY <1>1, <1>2, <2>1 DEF StoreTyped
<1>6. SlotsTyped'
  BY <1>1, <1>2, <1>3 DEF SlotsTyped, RunStates, optionVars, progressVars
<1>7. \A r \in Runs \ {q} : Held(r)' = Held(r)
  BY <1>1, <1>4 DEF Held, optionVars, progressVars
<1>8. SelfHolds(q)'
  <2>1. WorkHolds(Held(q)', clock')
    BY <1>1, <1>2, <1>4 DEF WorkHolds, Held, optionVars, progressVars, Fixture
  <2>2. RowsHold(Held(q)', fixtureRows')
    BY <1>1, <1>4 DEF RowsHold, Held, optionVars, Fixture
  <2>3. PinHolds(Held(q)', indexed', lastToken', watermark')
    BY <1>4 DEF PinHolds, Held
  <2>4. TraceHolds(Held(q)', configs', runRows')
    BY <1>1, <1>2, <1>4 DEF TraceHolds, Held, optionVars, progressVars
  <2> QED BY <2>1, <2>2, <2>3, <2>4 DEF SelfHolds
<1>9. Aside(q)
  BY <1>1, <1>2, <1>5 DEF Aside, StoreTyped
<1> QED BY <1>1, <1>5, <1>6, <1>7, <1>8, <1>9, WorkStepHolds

LEMMA DropTupleKeeps ==
    ASSUME SoundnessInv, NEW q \in Runs, DropTuple(q)
    PROVE  SoundnessInv'
<1> DEFINE f == ComingTuple(q)
           c == Coming(q)
           s == seed[q]
<1>1. /\ UNCHANGED <<clock, configs, runRows, indexed, watermark, starts, rpc, optionVars,
                     progressVars, reported, before>>
      /\ rpc[q] = "dropTuples" /\ todo[q] # {}
      /\ \/ /\ fixtureRows' = [fixtureRows EXCEPT ![f] = Void] /\ lastToken' = lastToken + 1
            /\ spoilt' = spoilt
         \/ /\ UNCHANGED <<fixtureRows, lastToken>> /\ spoilt' = [spoilt EXCEPT ![q] = TRUE]
      /\ todo' = [todo EXCEPT ![q] = @ \ {c}]
  BY DEF DropTuple
<1>2. /\ WorkHolds(Held(q), clock) /\ RowsHold(Held(q), fixtureRows) /\ TraceHolds(Held(q), configs, runRows)
      /\ PinHolds(Held(q), indexed, lastToken, watermark)
      /\ StoreTyped /\ SlotsTyped
  BY DEF SoundnessInv
<1>3. /\ s \in Seeds /\ c \in todo[q] /\ c \in DOMAIN FixtureOf[s] /\ f \in AllTuples /\ f \in TuplesOf(s)
      /\ f = FixtureOf[s][c]
  BY <1>1, ComingIsLeft
<1> HIDE DEF f, c
<1>4. /\ todo'[q] = todo[q] \ {c}
      /\ \A r \in Runs \ {q} : todo'[r] = todo[r] /\ spoilt'[r] = spoilt[r]
      /\ \A g \in AllTuples : g # f => fixtureRows'[g] = fixtureRows[g]
      /\ \/ fixtureRows'[f] = Void /\ spoilt'[q] = spoilt[q]
         \/ spoilt'[q]
  BY <1>1, <1>2, <1>3 DEF StoreTyped, SlotsTyped
<1>5. StoreTyped'
  <2>1. fixtureRows' \in [AllTuples -> Int \cup {Never, Void}]
    BY <1>1, <1>2 DEF StoreTyped
  <2>2. lastToken' \in Nat /\ watermark' <= lastToken'
    BY <1>1, <1>2 DEF StoreTyped
  <2> QED BY <1>1, <1>2, <2>1, <2>2 DEF StoreTyped
<1>6. SlotsTyped'
  BY <1>1, <1>2 DEF SlotsTyped, optionVars, progressVars
<1>7. \A r \in Runs \ {q} : Held(r)' = Held(r)
  BY <1>1, <1>4 DEF Held, optionVars, progressVars
<1>8. SelfHolds(q)'
  <2>1. WorkHolds(Held(q)', clock')
    BY <1>1, <1>2, <1>4 DEF WorkHolds, Held, optionVars, progressVars, Fixture
  <2>2. RowsHold(Held(q)', fixtureRows')
    <3>1. ASSUME ~spoilt'[q], NEW i \in DOMAIN FixtureOf[s] \ todo'[q]
          PROVE  fixtureRows'[FixtureOf[s][i]] = Void
      <4>1. fixtureRows'[f] = Void /\ ~spoilt[q]
        BY <1>4, <3>1
      <4>2. i = c \/ i \notin todo[q]
        BY <1>4
      <4>3. i \notin todo[q] => fixtureRows[FixtureOf[s][i]] = Void
        BY <1>1, <1>2, <4>1 DEF RowsHold, Held, Fixture, Tuple
      <4>4. FixtureOf[s][i] \in AllTuples
        BY <1>3, SoundnessAssumption
      <4> QED BY <1>3, <1>4, <4>1, <4>2, <4>3, <4>4
    <3> QED BY <1>1, <3>1 DEF RowsHold, Held, Fixture, Tuple, optionVars, progressVars
  <2>3. PinHolds(Held(q)', indexed', lastToken', watermark')
    BY <1>1 DEF PinHolds, Held
  <2>4. TraceHolds(Held(q)', configs', runRows')
    BY <1>1, <1>2, <1>4 DEF TraceHolds, Held, optionVars, progressVars
  <2> QED BY <2>1, <2>2, <2>3, <2>4 DEF SelfHolds
<1>9. Aside(q)
  <2>1. \A g \in AllTuples : g \notin TuplesOf(s) => fixtureRows'[g] = fixtureRows[g]
    BY <1>3, <1>4
  <2>2. lastToken <= lastToken' /\ lastToken' \in Nat
    BY <1>1, <1>2 DEF StoreTyped
  <2> QED BY <1>1, <2>1, <2>2 DEF Aside
<1> QED BY <1>1, <1>5, <1>6, <1>7, <1>8, <1>9, WorkStepHolds

LEMMA DropVersionKeeps ==
    ASSUME SoundnessInv, NEW q \in Runs, DropVersion(q)
    PROVE  SoundnessInv'
<1> DEFINE s == seed[q]
           v == published[q]
<1>1. /\ UNCHANGED <<clock, fixtureRows, lastToken, runRows, indexed, watermark, starts, optionVars, todo,
                     progressVars, reported, before>>
      /\ rpc[q] = "dropTuples" /\ todo[q] = {}
      /\ \/ configs' = [configs EXCEPT ![s] = @ \ {v}] /\ spoilt' = spoilt
         \/ configs' = configs /\ spoilt' = [spoilt EXCEPT ![q] = TRUE]
      /\ rpc' = [rpc EXCEPT ![q] = "returning"]
  BY DEF DropVersion
<1>2. /\ WorkHolds(Held(q), clock) /\ RowsHold(Held(q), fixtureRows) /\ TraceHolds(Held(q), configs, runRows)
      /\ PinHolds(Held(q), indexed, lastToken, watermark)
      /\ StoreTyped /\ SlotsTyped
  BY DEF SoundnessInv
<1>3. s \in Seeds
  BY <1>1, <1>2 DEF WorkHolds, Held
<1>4. /\ rpc'[q] = "returning"
      /\ \A r \in Runs \ {q} : rpc'[r] = rpc[r] /\ spoilt'[r] = spoilt[r]
      /\ \A u \in Seeds : u # s => configs'[u] = configs[u]
      /\ \/ configs'[s] = configs[s] \ {v} /\ spoilt'[q] = spoilt[q]
         \/ configs'[s] = configs[s] /\ spoilt'[q]
  BY <1>1, <1>2, <1>3 DEF StoreTyped, SlotsTyped
<1>5. StoreTyped'
  <2>1. configs' \in [Seeds -> SUBSET (Nat \ {0})]
    BY <1>1, <1>2 DEF StoreTyped
  <2>2. IsFiniteSet(configs[s]) /\ IsFiniteSet(configs[s] \ {v})
    BY <1>2, <1>3, FS_RemoveElement DEF StoreTyped
  <2>3. \A u \in Seeds : IsFiniteSet(configs'[u])
    BY <1>2, <1>4, <2>2 DEF StoreTyped
  <2> QED BY <1>1, <1>2, <2>1, <2>3 DEF StoreTyped
<1>6. SlotsTyped'
  BY <1>1, <1>2 DEF SlotsTyped, RunStates, optionVars, progressVars
<1>7. \A r \in Runs \ {q} : Held(r)' = Held(r)
  BY <1>1, <1>4 DEF Held, optionVars, progressVars
<1>8. SelfHolds(q)'
  <2>1. WorkHolds(Held(q)', clock')
    BY <1>1, <1>2, <1>4 DEF WorkHolds, Held, optionVars, progressVars
  <2>2. RowsHold(Held(q)', fixtureRows')
    <3>1. ASSUME ~spoilt'[q], NEW i \in DOMAIN FixtureOf[s]
          PROVE  fixtureRows[FixtureOf[s][i]] = Void
      BY <1>1, <1>2, <1>4, <3>1 DEF RowsHold, Held, Fixture, Tuple
    <3> QED BY <1>1, <1>4, <3>1 DEF RowsHold, Held, Fixture, Tuple, optionVars, progressVars
  <2>3. PinHolds(Held(q)', indexed', lastToken', watermark')
    BY <1>4 DEF PinHolds, Held
  <2>4. TraceHolds(Held(q)', configs', runRows')
    <3>1. before[q] = [rows |-> {}, configs |-> before[q].configs]
      BY <1>1, <1>2 DEF TraceHolds, Held
    <3>2. ASSUME dry[q], ~spoilt'[q]
          PROVE  configs'[s] = before[q].configs /\ id[q] \notin runRows
      <4>1. configs'[s] = configs[s] \ {v} /\ ~spoilt[q]
        BY <1>4, <3>2
      <4>2. id[q] \notin runRows
        BY <1>1, <1>2, <3>2, <4>1 DEF TraceHolds, Held
      <4>3. CASE v = 0
        <5>1. configs[s] = before[q].configs
          BY <1>1, <1>2, <4>3 DEF TraceHolds, Held
        <5>2. 0 \notin configs[s]
          BY <1>2, <1>3 DEF StoreTyped
        <5> QED BY <4>1, <4>2, <4>3, <5>1, <5>2
      <4>4. CASE v # 0
        <5>1. configs[s] = before[q].configs \cup {v} /\ v \notin before[q].configs
          BY <1>1, <1>2, <4>4 DEF TraceHolds, Held
        <5> QED BY <4>1, <4>2, <5>1
      <4> QED BY <4>3, <4>4
    <3> QED BY <1>1, <1>4, <3>1, <3>2 DEF TraceHolds, Held, optionVars, progressVars
  <2> QED BY <2>1, <2>2, <2>3, <2>4 DEF SelfHolds
<1>9. Aside(q)
  BY <1>1, <1>2, <1>4 DEF Aside, StoreTyped
<1> QED BY <1>1, <1>5, <1>6, <1>7, <1>8, <1>9, WorkStepHolds

LEMMA ReturnRunKeeps ==
    ASSUME SoundnessInv, NEW q \in Runs, ReturnRun(q)
    PROVE  SoundnessInv'
<1> DEFINE s == seed[q]
           o == IF fuzzResult[q] = Void THEN Void
                ELSE [result |-> fuzzResult[q], clean |-> dry[q] /\ ~spoilt[q],
                      recorded |-> id[q] \in runRows, left |-> Trace(s), before |-> before[q]]
<1>1. /\ UNCHANGED <<storeVars, todo>>
      /\ rpc[q] = "returning" /\ rpc' = [rpc EXCEPT ![q] = "idle"]
      /\ reported' = [reported EXCEPT ![q] = o]
  BY DEF ReturnRun
<1>2. /\ WorkHolds(Held(q), clock) /\ RowsHold(Held(q), fixtureRows) /\ TraceHolds(Held(q), configs, runRows)
      /\ StoreTyped /\ SlotsTyped
  BY DEF SoundnessInv
<1>3. s \in Seeds
  BY <1>1, <1>2 DEF WorkHolds, Held
<1>4. ReportHolds(o)
  <2>1. CASE fuzzResult[q] = Void
    BY <2>1 DEF ReportHolds
  <2>2. CASE fuzzResult[q] # Void
    <3>1. Acquitted(fuzzResult[q])
      BY <1>2, <2>2 DEF WorkHolds, Held
    <3>2. ASSUME dry[q], ~spoilt[q] PROVE Trace(s) = before[q] /\ id[q] \notin runRows
      <4>1. configs[s] = before[q].configs /\ id[q] \notin runRows
            /\ before[q] = [rows |-> {}, configs |-> before[q].configs]
        BY <1>1, <1>2, <3>2 DEF TraceHolds, Held
      <4>2. ASSUME NEW f \in TuplesOf(s) PROVE fixtureRows[f] = Void
        <5>1. PICK i \in DOMAIN FixtureOf[s] : f = FixtureOf[s][i]
          BY DEF TuplesOf
        <5> QED BY <1>1, <1>2, <3>2, <5>1 DEF RowsHold, Held, Fixture, Tuple
      <4>3. { t \in TuplesOf(s) : fixtureRows[t] # Void } = {}
        BY <4>2
      <4>4. Trace(s) = [rows |-> {}, configs |-> configs[s]]
        BY <4>3 DEF Trace
      <4> QED BY <4>1, <4>4
    <3>3. /\ o.result = fuzzResult[q] /\ o.clean = (dry[q] /\ ~spoilt[q])
          /\ o.recorded = (id[q] \in runRows) /\ o.left = Trace(s) /\ o.before = before[q]
      BY <2>2
    <3> HIDE DEF o
    <3> QED BY <3>1, <3>2, <3>3 DEF ReportHolds
  <2> QED BY <2>1, <2>2
<1> HIDE DEF o
<1>5. rpc'[q] = "idle" /\ reported'[q] = o
  BY <1>1, <1>2 DEF SlotsTyped
<1>6. StoreTyped'
  BY <1>1, <1>2 DEF StoreTyped, storeVars
<1>7. SlotsTyped'
  BY <1>1, <1>2 DEF SlotsTyped, RunStates, Modes, ReturnRun
<1>8. \A r \in Runs \ {q} : Held(r)' = Held(r) /\ reported'[r] = reported[r]
  BY <1>1, <1>2 DEF Held, SlotsTyped, ReturnRun
<1>9. SelfHolds(q)'
  <2>1. /\ published'[q] = 0 /\ viaIndex'[q] = Void /\ hits'[q] = 0 /\ fuzzResult'[q] = Void
    BY <1>2 DEF SlotsTyped, ReturnRun
  <2> QED BY <1>5, <2>1 DEF SelfHolds, WorkHolds, RowsHold, PinHolds, TraceHolds, Held
<1>10. Aside(q) /\ clock' = clock
  BY <1>1 DEF Aside, storeVars
<1> QED BY <1>4, <1>5, <1>6, <1>7, <1>8, <1>9, <1>10, StepHolds

LEMMA ClockMovesKeeps ==
    ASSUME SoundnessInv, ClockMoves
    PROVE  SoundnessInv'
<1>1. /\ clock' = clock + 1 /\ clock \in Nat
      /\ UNCHANGED <<fixtureRows, lastToken, configs, runRows, indexed, watermark, starts, runVars>>
  BY DEF ClockMoves, SoundnessInv, StoreTyped
<1>2. StoreTyped' /\ SlotsTyped'
  BY <1>1 DEF SoundnessInv, StoreTyped, SlotsTyped, runVars, optionVars, progressVars
<1>3. \A q \in Runs : \A r \in Runs \ {q} : RunsApart(q, r)'
  BY <1>1 DEF SoundnessInv, RunsApart, runVars, optionVars
<1>4. ASSUME NEW r \in Runs PROVE SelfHolds(r)' /\ ReportHolds(reported'[r])
  <2>1. Held(r)' = Held(r) /\ reported'[r] = reported[r]
    BY <1>1 DEF Held, runVars, optionVars, progressVars
  <2>2. /\ WorkHolds(Held(r), clock) /\ RowsHold(Held(r), fixtureRows) /\ ReportHolds(reported[r])
        /\ PinHolds(Held(r), indexed, lastToken, watermark) /\ TraceHolds(Held(r), configs, runRows)
    BY DEF SoundnessInv
  <2>3. published[r] # 0 => anchor[r] <= clock' /\ clock' < anchor[r] + Margin
    <3>1. anchor[r] \in Nat
      BY DEF SoundnessInv, SlotsTyped
    <3>2. published[r] # 0 => anchor[r] <= clock
      BY <2>2 DEF WorkHolds, Held
    <3> QED BY <1>1, <3>1, <3>2 DEF ClockMoves
  <2>4. WorkHolds(Held(r), clock')
    BY <2>2, <2>3 DEF WorkHolds, Held
  <2> QED BY <1>1, <2>1, <2>2, <2>4 DEF SelfHolds
<1> QED BY <1>2, <1>3, <1>4 DEF SoundnessInv, SelfHolds

LEMMA SoundnessNextKeeps ==
    ASSUME ~Reruns, SoundnessInv, [SoundnessNext]_soundnessVars
    PROVE  SoundnessInv'
<1>1. CASE UNCHANGED soundnessVars
  BY <1>1 DEF soundnessVars, storeVars, runVars, optionVars, progressVars, SoundnessInv, StoreTyped,
              SlotsTyped, RunsApart, Held
<1>2. CASE SoundnessNext
  BY <1>2, StartKeeps, PublishFixtureKeeps, WriteFixtureTupleKeeps, FixtureWrittenKeeps, BackdateTupleKeeps,
     PinRunKeeps, CheckLiveKeeps, CheckIndexKeeps, RecordRunKeeps, RunThrowsKeeps, DropRunKeeps,
     DropTupleKeeps, DropVersionKeeps, ReturnRunKeeps, ClockMovesKeeps
     DEF SoundnessNext, RunStep
<1> QED BY <1>1, <1>2

\* As long as no two runs share a seed, a resolver that is right is not accused, whatever
\* else runs and fails beside the run, as far as the clock may go (runSoundnessFuzz,
\* runner.ts:871-1168).
THEOREM NotAccused == ASSUME ~Reruns PROVE SoundnessSpec => []RightResolverNotAccused
<1>1. ASSUME SoundnessInv, [SoundnessNext]_soundnessVars PROVE SoundnessInv'
  BY <1>1, SoundnessNextKeeps
<1>2. SoundnessInv => RightResolverNotAccused
  BY DEF SoundnessInv, RightResolverNotAccused, ReportHolds, Acquitted
<1> QED BY <1>1, <1>2, SoundnessInvInit, PTL DEF SoundnessSpec

\* Under the same condition a dry run of which no delete has failed leaves its seed as
\* it found it (cleanupDryRunArtifacts, runner.ts:777-869).
THEOREM LeavesNoTrace == ASSUME ~Reruns PROVE SoundnessSpec => []DryRunLeavesNoTrace
<1>1. ASSUME SoundnessInv, [SoundnessNext]_soundnessVars PROVE SoundnessInv'
  BY <1>1, SoundnessNextKeeps
<1>2. SoundnessInv => DryRunLeavesNoTrace
  BY DEF SoundnessInv, DryRunLeavesNoTrace, ReportHolds
<1> QED BY <1>1, <1>2, SoundnessInvInit, PTL DEF SoundnessSpec
=============================================================================
