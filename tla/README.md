# Relationship-based authorization, modelled in TLA+

The engine stores relationship tuples (`folder:f1#viewer@group:g1#member`) in Postgres, keeps a schema that says how relations and permissions follow from them, and answers whether a subject has a name on an object. It promises more than an answer: that an answer pinned to a consistency token covers every write up to it, that a cache, an index and a change feed in front of the store do not weaken this, that every decision is in a hash-chained log, and that two independently written resolvers agree. This directory models those promises, model-checks them on small instances and proves the ones that matter most.

All paths below are those of the repository; its TypeScript is under `src/` there (`src/store/tuples.ts`), its documentation under `docs/`.

## The system and its parts

| Part | State it keeps | Operations | Where |
|---|---|---|---|
| Tuple store | `relation_tuples`, `write_log`, its identity sequence, the write-log advisory lock | `writeTuple`, `deleteTuple` | `src/store/tuples.ts` |
| Consistency tokens, pinned checks | one REPEATABLE READ transaction per check | `productionCheck`, `assertTokenObserved` | `src/store/tokens.ts`, `src/resolve/production/resolver.ts` |
| Production resolver | none; one snapshot, a depth, a visited path | `resolve`, `evalRewrite`, the recursive query | `src/resolve/production/resolver.ts` |
| Reference resolver | none; rows in memory | `resolveMembership`, `resolveRelation`, `evalRewrite` | `src/resolve/reference/resolver.ts` |
| Check cache | entries under (question, token), the epoch | `beginMiss`, `trySet`, `clear`, TTL and LRU | `src/resolve/production/cache.ts`, `performCheck` in `src/audit/checks.ts` |
| Audit chain | `checks` rows with `prev_hash`, `row_hash`, `chain_seq`; the chain lock; the anchor file | `insertCheckRow`, `audit verify`, `audit anchor` | `src/audit/checks.ts`, `src/audit/anchor.ts`, `src/cli/commands/audit.ts` |
| Watch stream | a cursor, a flag and a poll loop per connection; the connection counter | `GET /watch`, `fetchWatchEvents` | `src/store/watch.ts`, `src/api/server.ts` |
| Relation membership index | `relation_membership_index`, `watermark_token` | rebuild, lookup, reverse lookup | `src/store/relation-index.ts` |
| Expand and list | none | `expand`, `listUsers`, `listObjects` | `src/audit/expand.ts`, `src/audit/list.ts` |
| Scope and privilege-escalation reports | none | scope, privesc | `src/audit/scope.ts`, `src/audit/privesc.ts` |
| Schema language and compiler | none | parse, `compileParsedNamespaces` and its checks | `src/schema/dsl/` |
| Schema publish, rollback | versioned rows of `namespace_configs`, one advisory lock per namespace | `publishSchema`, `schema publish`, `schema rollback` | `src/schema/publish.ts`, `src/cli/commands/schema.ts` |
| Schema diff, monotonicity | what the classifier has found out about a schema | `schema diff`, `classifyMonotone`, `findFlippableExclusion` | `src/schema/diff.ts`, `src/metamorphic/monotonicity.ts` |
| API keys, flood guard, limiters | `api_keys`; window counters in memory or in Redis | create, revoke, look up, count | `src/api/auth.ts`, `src/api/db-api-keys.ts`, `src/api/redis-store.ts`, `src/api/server.ts` |
| Migrations | `schema_migrations`, an advisory lock of the session | `runMigrations` | `src/store/migrate.ts` |
| Soundness fuzzing | run rows, the tuples and versions of its fixtures in the live store | generate, compare, classify, clean up | `src/soundness/` |
| Schema verifier | none; the findings about the claims of one file | search, SMT and CHC tiers, bounded search, replay, fuzzing | `tools/schema-verifier/` |
| Simulation harness | locks, snapshots and connections in memory | a scheduler of interleavings | `src/store/dst/` |
| HTTP surface, command line, reports | none of their own | request and argument handling, formatting | `src/api/`, `src/cli/`, `src/report/` |

### How they interact

A write reaches the store from a route of the server, from the command line or from another server process. It commits one row change and one `write_log` row; the identity column gives the token, and the token is the only clock that the parts share. A route that wrote clears the cache of its own process and of no other. A check looks in the cache first; a miss runs `productionCheck` in a transaction whose snapshot covers its token, and a relation of a pinned check may be answered by the index, if the watermark reaches the token. Either way `performCheck` inserts a row into the audit chain before it answers and before the miss is stored. The watch stream and the index read `write_log` and `relation_tuples` on their own, by polling and by rebuilding. Postgres is the only thing the processes share.

### What is hard about it

- *Ordering.* The token is allocated outside the transaction that carries it, so commit order and token order agree only because of the write-log lock. Everything pinned relies on it.
- *Atomicity.* Checks, rebuilds, listings and `audit verify` read by many statements while writers commit between them. Snapshots start at the first statement, not at `BEGIN`.
- *Lost answers.* A connection can die at any statement, at `COMMIT` too. The caller gets an error, and the effect may be there, or land later, or hold a lock until the server notices.
- *Staleness.* The cache, the index, the cursor of a watcher and the tip an anchor is about to write are all read at one time and used at another. Tuples also expire without any write.
- *Cut walks.* The graph has cycles and the walk has a depth limit. An exclusion turns "not found" into "allowed", so every place that cuts a walk short has to remember that it did. The recursive query keeps an arbitrary row of those with one key.
- *Searches that give up.* The schema verifier looks for a counterexample among infinitely many stores. Whatever it cuts (a cycle, an exemption, a candidate that cannot matter) becomes part of a proof.
- *Bounds and exits.* A slot, a buffer and a batch that must be given back or stay bounded on every way out of a handler.

### What makes each part correct

Store: token order is commit order, an answer says what was committed, every call is atomic and every call ends. Pinned check: the snapshot covers the token, all reads are one state, a token that was handed out is never refused. Resolvers: what is decided is what the schema means, at every depth limit. Cache: an answer reflects every write acknowledged before the check began, and a cached grant needs no tuple that may have gone. Audit chain: one chain, without a fork, and a verdict of "intact" or "anchored" means that what was recorded is there. Watch: no gap and no repetition over any number of reconnects, bounded slots and buffers, every event arrives. Index: the rows are of the state the watermark names, pinned answers cover the token, a listing misses nothing, an old index is never published over a new one. Listing: it agrees with the check and misses nobody without saying so. Compiler: it takes the files whose rules can all be evaluated, and no other. Diff and classifier: what they prove to be kept is kept, whatever was published or asked before. Publish: the latest version is the last one committed, a stored tuple is one that the schemas it was validated against take, and a publish that was acknowledged is seen. Migrations: every one once, in order, and every runner ends. Fuzzer: a right resolver is never accused, and a dry run leaves nothing behind. Verifier: a claim it calls proved is true of every store, and one it calls violated is broken by a store it can show. API: what runs had the authority for it when it was looked up, no window lets more through than it promises, and nobody is refused for the traffic of others.

## The modules

```
AtomicStore  <--refines--  TupleStore  <--extends--  PinnedCheck -- TupleStoreProofs
    +-- WatchFeed  --+
    +-- CheckCache --+-- ServerProofs
    +-- LeopardIndex -- LeopardIndexProofs

AuditChain    -- AuditChainProofs
SchemaPublish -- SchemaPublishProofs
Migrations, ApiAccess, SoundnessRun -- OperationsProofs
NumberLemmas: used by all of the proofs

TupleGraph -- ProductionResolver -- Meaning --+-- Decisions -- ResolverProofs
           -- ReferenceResolver --------------+       |
                           Meaning -- Witnesses ------+-- CheckEvaluation
TupleGraph -- ListUsers ------------------------------+
TupleGraph -- SchemaCompiler -- SchemaDiff --+
                              Monotonicity --+-- SchemaEvolution (extends Meaning)

SchemaGraph -- SchemaSearch -- SchemaTiers -- SchemaVerifier (extends Meaning)
```

**AtomicStore** is what the store promises: a request takes effect at one instant, with a token larger than all before. `TupleStore` is shown to implement it (`Atomic`, by TLC and by proof), so the parts that only use the store (`WatchFeed`, `CheckCache`, `LeopardIndex`) are written over the abstract one, and their state spaces stay small.

**TupleStore** is `writeTuple` and `deleteTuple`, one action per awaited statement: `Begin` (validation of `expiresAt`, `BEGIN`), `AcquireWriteLogLock`, `InsertTuple` with `on conflict do nothing`, the read of the existing row after a conflict, `DeleteTuple`, the `write_log` insert, `COMMIT`, the answer. A statement may throw; a connection may die, and the call is told of an error while the server still holds the lock (`orphaned`) or still carries out the commit (`orphanedCommit`). `Reap` and `LandOrphan` are Postgres ending or finishing such a session. `seq` never rolls back: tokens have gaps.

**PinnedCheck** adds `productionCheck` beside the writers: the token asserted on the pool, `BEGIN`, the statement that asserts it again and thereby takes the snapshot, the reads of the walk one statement each. Which facts it reads, and in which order, is left open; that makes the result independent of schema and graph.

**CheckCache** is `performCheck` between the cache and the routes that write: `CacheKey`, `beginMiss` and the epoch fence of `trySet`, hits and misses that are audited before they answer, batches whose items commit, are rejected or throw one by one, the clear, eviction and TTL, writers in other processes, and the clock. The permission is `granted but not banned`, the smallest one for which an expiring tuple can turn a denial into a grant.

**WatchFeed** is the handler of `GET /watch`: `ResolveSince`, `Open` with its slot, the loop of `Fetch`, `Deliver`, `Wake`, `PollFails`, the 'close' event of the request as an action of its own (`EmitClose`), and the client that receives, vanishes and reconnects with the last token it got.

**AuditChain** is `insertCheckRow`, one action per statement under the chain lock, with the same failures as the write path; `audit anchor` (`ReadChainTip`, `AppendAnchor`) and `audit verify` (`ReadRows`, then the anchors), which are not atomic; rows from before the chain existed; and the edits, deletions, truncations and rewrites the chain and the anchors are there to show. A hash is the sequence of what was hashed, which is SHA-256 without collisions.

**LeopardIndex** is the index: rebuilds by the refresh loop and by operators (`BeginRebuild`, `AnchorRebuild`, `TryLock`, `Refill`, `Publish`), the lookup of a pinned check with its savepoint and its fall-back to the walk, and the statements by which `listObjects` takes candidates from the index or scans. One subject is followed. A *route* is one simple path from a relation of an object to the subject; the set of routes is a constant, so the module says nothing about how the closure is computed from a graph and everything about when.

**TupleGraph** holds a published schema and rows, written as `writeTuple` validates them (subject types, wildcards, windows). **ProductionResolver** is `resolve`, `evalRewrite` and the recursive query. `ReachableFrontiers` is the set of all row sets the query can return, over every choice `distinct on` has. An outcome is (allowed, certain, touched): the answer, whether a cycle guard or a depth limit left it open, and whether a live row with a window was read. **ReferenceResolver** is the resolver that shares no code with it. Both walks are recursive functions on a height: a call at height `h` uses the calls at `h - 1`, and `Height` is as many as a walk under a depth limit can nest (the rules bounded by `MaxNesting`). **ListUsers** is the tree of `expand`, the set algebra of `evaluateExpandNode` with wildcards and co-finite results, and the candidates of `listObjects`. **Meaning** gives names their meaning: the well-founded model of the schema's rules over the live rows, computed by the alternating fixpoint. **Decisions** says what the answers of the two resolvers are worth against it (`DecidedMeansMeant`, `DeeperOnlyDecidesMore`, `AnyRowsSameAnswer`), and uses no `RECURSIVE` operator, so it can be proved about. The evidence both resolvers return, the tree of a proof or of a disproof, is declared in `TupleGraph`; **Witnesses** reads it against the rows and the schema alone: does it derive what was asked, or close every way to derive it? **CheckEvaluation** adds to `Decisions` what is said of evidence, of listings and of windows that end. Writers are atomic here: a check reads one snapshot, which is what `ReadsOneState` shows.

**SchemaCompiler** is `compileParsedNamespaces`: from parsed namespaces, with whatever mistakes a file has, to a schema or a set of error kinds. **SchemaDiff** is `isProvableWidenOrEqual` and what `schema diff` prints; **Monotonicity** is `classifyMonotone`, with the cache it keeps per schema, and `findFlippableExclusion`. **SchemaEvolution** puts them to use: files are compiled, compared and published one after the other while tuples are written and names are classified, and what the analyses said is held against `Meaning`.

**SchemaGraph** is the graph the verifier builds of a schema: nodes for names and for the anonymous parts of rules, edges of seven kinds, what is reachable and whether it is recursive. **SchemaSearch** is `checkInvariant`, the backward search with a union-find of the objects it introduces. **SchemaTiers** is the two encodings that are tried where the search gives no answer: a formula over uninterpreted relations, whose models the solver picks from (the solver itself is external: any model may come), and a least fixpoint of nodes, with the walk that makes a witness of it. **SchemaVerifier** is `checkAndValidate` and `verify`: the tiers in their order, the bounded search, the replay of a witness by the production resolver on a scratch store, the fuzzing of a HOLDS, and the exit code. Afterwards tuples are written under the schema, and the verdicts are held against `Meaning`.

**SchemaPublish** is `publishSchema`, one action per awaited statement: an advisory lock per namespace in the order of the file, the next version, the inserts, `COMMIT`; the deadlock that Postgres breaks; its callers (API, command line, rollback, the dry run that deletes what it published); a `writeTuple` that reads the configs of object and subject by two statements before it begins; and checks whose cached answer a publish clears. What a schema says of a tuple is a set of tuples it takes.

**SoundnessRun** is `runSoundnessFuzz` against the live store: publish, write, backdate, compare, record, and the clean-up of a dry run, where any step may fail. **Migrations** is `runMigrations` by several processes with pools of their own, the session lock on one connection, each file in a transaction on another, and a lock connection that may die. **ApiAccess** is what every request passes: the flood guard by address, the key lookup, the limiters, the checks of the route and the work, on two replicas, with counters in memory or in Redis, and keys that are made, expire and are revoked meanwhile.

### How state and actions correspond to the code

- One action is the code between two `await`s, with the statement it awaits. What the database does for that statement (a lock wait, a conflict, a snapshot) is its guard and its effect.
- A database snapshot is a copy of the committed variables, taken by the first statement of a REPEATABLE READ transaction; a READ COMMITTED statement reads the committed variables as they are.
- A key of a tuple is a model value (`Facts`), its window an instant of a small clock; `None` is a missing row and `NoExpiry` a null. In the evaluation modules, where the shape of a tuple matters, it is a record of object, relation, subject and subject relation.
- `now()` of a transaction is fixed at `BEGIN`. The clock of the processes and that of Postgres are one variable.
- A statement that throws, a dead connection and an abandoned request are actions that may always be taken; nothing makes them happen.
- A definition commented `Mutant:` is a plausible bug (a dropped guard, an off-by-one, a missing reset). No specification uses it. Put in place of the definition it stands before, it makes the property break, which shows that the property says something about that definition. `PROJECT.json` lists the pairs.

## The runs

Each cfg names its bounds. They are chosen so that the smallest instance of each hazard fits, and the coverage of the actions confirms that every action is taken. Modules that do not interact are checked in one run where their questions are alike: a variable `scene` of the MC module, chosen at the start, says which of them moves, so nothing is multiplied.

| Run | Instance | Question |
|---|---|---|
| `write_path` | two calls, two tuples, two tokens, one tick, one check | With throwing statements, dead connections and lost answers: is commit order token order, does an answer say what was committed, is a call atomic? Does the snapshot of a check cover its token, are its reads one state, is a token somebody holds ever refused? |
| `operations` | three calls that start again and again; two publishers; three migration runners on pools of two connections | Does everything that waits for a lock in the database end? Is each migration applied once, in order? |
| `server` | one slot of checks beside a writer with batches of two, foreign writers and the clock; one client of two streams with one slot | Do hits and misses reflect acknowledged writes and tokens? Does the clock take an allow from the cache? Gaps, lost slots and unbounded buffers over reconnects; does an event arrive? |
| `audit_chain` | two callers, two bodies, three rows, one of them possibly a legacy row, one tick, one anchor, one change by somebody | Is the chain unforked, and do "intact" and "anchored" mean what was recorded? |
| `leopard_index` | two rebuilds, one check, one listing, two tuples of which one is on both routes, tokens 1 and 3, one tick | Do pinned answers cover the token, does a listing miss something, does the watermark go back? |
| `requests` | four schemas, every store of fifteen tuples that the schema accepts (every subset, with up to three windows), depth limits 0, 1, 2 and 11; two requests at a time, up to four in all, on two replicas, with and without Redis, four workloads | Is what both resolvers, `listUsers` and `listObjects` decide what the schema means, and does their evidence show it? Authority at the time of the lookup, limits per window, refusals |
| `schema_evolution` | seven rules of one permission with four of another, four relations, and files with mistakes; every store of four tuples | Does the compiler take the right files, and is what diff and classifier claim so? |
| `publishing` | two publishers, a writer and a check; two runs of the fuzzer, two fixtures; the verifier with ten schemas, ten files of claims and every store of six tuples | Versions, stale validation, stale answers after a publish; false verdicts and leftovers of the fuzzer; is a claim that exits 0 true, and one that exits 1 false? |
| `cache_denied` | the cache of `server` | Finding 1 |
| `list_denied` | as `requests`, at one depth | Finding 2 |
| `silent_revocation` | as `schema_evolution` | Finding 3 |
| `holds_forever` | the verifier with one claim | Finding 4 |

Why the bounds are enough:

- *Write path.* An overtaking token needs two writers; a wrong created/deleted answer needs two on one tuple; the second tuple lets them be on different ones. Two tokens leave a gap (a rolled-back transaction keeps its token) or two commits. One check cannot disturb another, since it writes nothing, and two writers give a write before, between and after its statements. The constraint `ClockOrCheck` lets the clock move only while there is no check; a tuple that ends in the middle of a walk is in `leopard_index`, where the check has a fixed `asOf` and the clock moves. The rest is what the theorems below cover for any number.
- *Operations.* Three calls on one tuple are a holder, a dead one and a waiter. Two publishers with sources that name the same namespaces in opposite orders are a circle of locks; `salted` collides with `doc` in the key of its lock. Of three runners two share a pool of two connections, so that each may hold one and want another, and one has a directory with a file less.
- *Streams.* Two handlers are an old stream that has not noticed that its client is gone, and its successor; that is all a client can have at a time with one slot. `Scope` leaves one of two tuples out, so that a batch of one can be entirely filtered.
- *Cache.* A batch of two is the smallest of which one item can fail. `Pins = {1}` beside unpinned checks gives two keys. Slots are used again, so one slot is any number of checks one after the other; two at a time do not interact but through the store of the cache, which evictions and foreign fills already vary.
- *Audit.* Two callers can fork the chain; three rows have a first, a middle and a last one, and a deletion of each is a different case. The constraint `ClockMovesEarly` lets the clock move only while there are at most two rows that nobody has touched: `checked_at` is hashed beside the body, and an edit of either is the same to the chain.
- *Index.* Two rebuilds are the waiting one and the overtaking one. The constraint `AtMostTwoCalls` says that at most two of the four callers are under way at a time, and that a check and a listing do not meet, since neither writes anything; every other pair still interleaves in every order. Tokens 1 and 3 tell a token from a position in the log. At most one of the routes has more than one hop, and `MaxDepth = 1` is the longest.
- *Evaluation.* The four schemas are: inherited permissions with unions and intersections; a subtracted side that is inherited and has the groups; a permission that subtracts itself through its parent; nested groups with several routes, a link to a userset and an exclusion of two relations. The tuples contain cycles of groups and of folders, a wildcard, and a diamond, which is the smallest graph where `distinct on` has a choice. `Ample = 4` is the longest proof that fifteen tuples admit; `DeeperOnlyDecidesMore` compares the small limits with each other and with 11, the most names on objects a schema here has (`|Pairs|` under the first), from where on a limit decides all that is true if nothing is subtracted. `MaxNesting = 2` is how deep their rules are nested. The theorems below say the same of any schema, store and limit.
- *Schemas in use.* The rules are those that the four containments of the diff tell apart, each also with the other permission under it, subtracted by it and inherited over `parent`. The action constraint `AnalysedFirst` fixes the order in which steps that do not depend on one another are taken.
- *Publishing.* Two publishes are enough for a version to be handed out twice and for a validation to straddle one. The constraint `FirstRunFirst` explores writers and checks beside the publishers one kind at a time, gives the second run of the fuzzer the second slot, and lets at most one of the two use the index (the claim on a seed, which is all they share, does not depend on it). A fixture has an expired grant, or a valid one with an expired ban: the two ways in which a window that is read too early changes a verdict.
- *Verifier.* The ten schemas have every operator, inheritance of the permission itself and of a relation, groups within groups, and a wildcard; the claims have every kind of constraint, alone and together, and a file of two. Bound 1 and six stored tuples over two documents and two people contain a counterexample to every claim that has one without groups. `UsedIfClean` lets tuples be written only when the exit code is 0 or 2.
- *Access.* Four requests are one more than a limiter whose maximum is two lets through in two windows, and three from one address are one more than its maximum; two ticks are one window and the beginning of the next. The workloads are floods from two addresses of which one forges a chain (four requests where the replicas share their counters, three where they do not, since each then has fewer to count), bursts of three without a key from one address, and single requests of every kind beside keys that come and go. The theorems below say the same of any number of requests.

### Fairness

Each scene of `operations` and the scene of the streams in `server` have the fairness of their own module. *Writes*: a call whose statement can go on does (`WF` on `Proceed`: the event loop), a waiter of the write-log lock that is served again and again gets it (`SF` on `AcquireWriteLogLock`: Postgres grants a lock in queue order, and the lock is taken by others in between), and Postgres ends or finishes the session of a dead client (`WF` on `Reap \/ LandOrphan`). *Publishes*: the same for `PublishProceeds` and `LockNamespace`, and Postgres breaks a deadlock (`WF` on `BreakDeadlock`: `deadlock_timeout`). *Migrations*: a call goes on, and gets the lock or the answer of its pool when these are free again and again. *Streams*: the loop of a handler runs, a socket that is gone emits 'close', and a connected client reads what it is sent; a client may vanish at any time, and `EventArrives` allows the stream to end. Nothing anywhere says that a statement succeeds or that a call is made.

## What is proved

`TLAPS` proves the following for every value of the constants that satisfies the named assumptions, so for any number of calls, checks, rebuilds, publishes, requests, runs, tuples and tokens, and for every schema, depth and depth limit.

| Module | Theorems | Inductive invariant |
|---|---|---|
| `TupleStoreProofs` | `TypeCorrect`, `TokenOrder`, `AnswersRecorded`, `Refinement` | `IndInv` |
| | `PinnedGuarantee`, `AcknowledgedGuarantee` | `IndInv` and `PinHeld` |
| | `CheckTypeCorrect`, `OneState` | `CheckInv` |
| `ServerProofs` | `CacheTypeCorrect`, `WritesAreSeen`, `PinnedThroughCache`, `AllowsLast` | `CacheInv` |
| | `WatchTypeCorrect`, `StreamsBounded`, `NoGap` | `WatchInv` |
| `AuditChainProofs` | `ChainNeverBroken`, `IntactIsAsRecorded`, `AnchoredIsAsRecorded` | `TamperInv` |
| `LeopardIndexProofs` | `LeopardTypeCorrect`, `IndexOfWatermark`, `PinnedThroughIndex`, `IndexNeverOlder` | `LeopardInv` |
| | `ListComplete` | `ListInv` |
| `SchemaPublishProofs` | `PublishedHistory` | `PublishInv` |
| | `StoredWasTaken` | `PublishInv` and `WritersHold` |
| | `AcknowledgedIsSeen` | `PublishInv`, `ServerHolds` and `ChecksHold` |
| `OperationsProofs` | `AppliedOnceInOrder` | `MigrationInv` |
| | `WorkIsAuthorized` | `AccessInv` |
| | `WindowsAreBounded`, `RefusalsAreDue` | `AccessInv` and `CountInv` |
| | `NotAccused`, `LeavesNoTrace` | `SoundnessInv` |
| `ResolverProofs` | `ResolversDecideWhatIsMeant`, `KeptRowsDoNotShow`, `DeeperDecidesMore`, `UnreportedExpiryKeeps` | `GraphInv` |

*Write path.* None of the properties is inductive alone. `NoTokenOvertaken` needs that a transaction with a token holds the lock (`LockHeld`), that all tokens in sight are at most `seq` (`TokensAllocated`), and that the log ascends (`TokensAscend`). `Refinement` needs `DecisionsHold`: what a statement of a call concluded from the rows is still so when the call commits, because every change of rows is made by the holder of the lock. Every step then is a stutter or, for `Commit` and `LandOrphan`, one `Perform` of the abstract store.

*Pinned check.* `PinHeld` says that from the statement that anchors the snapshot on, the part of the log that the snapshot has reaches the pin. With `TokensAscend` of the write path, reaching the pin is having every write up to it. `AcknowledgedGuarantee` is an action property: a check that is refused was not pinned to a token that was in the log when it started. `OneState` needs `RowsFollowLog`, which says that the committed rows are what the log makes of an empty table, and `ReadsHold`, which says that the snapshot of a check is what a prefix of the log makes, and that each fact it has read is as that prefix has it.

*Cache.* `CacheInv` is `CacheTypeOK`, `StoreShape` (the types of log and rows, and that tokens ascend), `WithinLog` (epochs and log positions are at most the current ones), `Cached` (an entry has seen every acknowledged write, observes its key's token and, if it allows, rests on a grant without a window and on no live ban), `InFlight` (the same of a miss whose epoch is still the current one) and `Told`. The fence is needed exactly in `InFlight`: a miss that a clear has overtaken is bound to nothing, and may not be stored. `AllowsLast` follows from `trySet` not storing an allow that touched a window.

*Watch stream.* `NoGap` speaks of what a client has got over several connections, so the invariant follows a write from the log to the client: a batch is the part of the log after the cursor (`HandlerHolds`), the frames on the wire go on where the client stopped (`ClientHolds`), and the handler's cursor is where the wire ends (`LinkHolds`). Each part is a `Run`, a sequence of log entries of the scope with none left out between. `SlotsHold` counts: the counter is the number of handlers in a streaming state, hence the finiteness of `Streams`. The buffer is bounded because a handler that wrote too much waits before it fetches again. The theorems are about `WatchSpec`, with clients that reconnect with the token they got; the browser that does not is an observation below.

*Audit chain.* `TamperInv` holds while anybody edits, deletes, truncates or rewrites rows, so the theorems are about `TamperSpec`. `StoreHolds` relates the rows there are to the rows that were recorded: each is what is left of one that was (`LeftOf`), and while nobody cut off or rewrote the end, the recorded rows are one chain and the table reaches to its tip. `CallHolds` says that the tip a call has read is still the tip of what was recorded while it holds the lock. `ReadHolds` and `AnchorHolds` say the same of what `audit verify` has read and of what an anchor file holds, which are older than the table. `IntactIsAsRecorded` then is a fact about two chains: two that meet at one hash agree below it, since a hash is of everything before it. Whoever may cut off or rewrite the end can make another intact chain, so `IntactIsAsRecorded` speaks of tables of which nobody did, and `AnchoredIsAsRecorded` of any, up to the last anchor taken before.

*Index.* `LeopardInv` is `LeopardTypeOK`, `StoreShape`, `Marked` (the committed rows belong to the snapshot the watermark names), `Complete` (a row for every root that the snapshot reaches, and no other), `Rebuilding` (the same of the rows of a rebuild under way, and a rebuild that has filled excludes another) and `Checking` (what a check has answered is of a state that covers its pin). `IndexNeverOlder` follows from a rebuild that lost the race failing with a serialization error at its update. `ListInv` adds what a listing relies on: that what was reached ever since it began (`held`) is in the index it trusts, in the candidates it took, or in what it has found allowed (`ListsHold`), and that a snapshot with the whole log has the rows as they are (`SnapshotsHold`), which is why a listing may compare the watermark with the last token and then read the index.

*Publishes.* `PublishInv` is about all publishers at once: the lock of a namespace has one holder (`LocksHold`), what is inserted and not committed is newer than the table has it (`VersionsHold`) and collides with no other transaction (`KeysHold`), and the table is the log less what dry runs deleted (`LogHolds`). The version is read under the lock, which is why it is still free at the insert. A deletion by a dry run could free a version for reuse; `SaltsAssumption` is what keeps it from being one that somebody else has seen. `WritersHold` bounds when the configs a `writeTuple` read were the latest, and `ServerHolds` with `ChecksHold` is the fence of the cache again, for publishes.

*Migrations.* `MigrationInv` says that a call in the loop has a migration left and all before it in the table (`LoopHolds`), that what is about to commit has not committed (`CommitHolds`), and that no two calls are about to commit the same (`Apart`). This holds although the lock is lost with its connection: the second defence is the primary key of `schema_migrations`, in one transaction with the SQL of the file.

*Requests.* `AccessInv` says that behind the lookup a request is entitled by the key as it was then (`Entitled`); a key that is dead stays dead. `WindowsAreBounded` is about counters with a fixed start. A counter stands to the events of its account as `TallyHolds` says: it has counted all since its start; of the window before its start at most one less than the maximum passed, the first of its own being the one that opened it; and no window anywhere saw more than two maxima less one. `CountInv` says that each counter does (`FloodsStand`, `LimitsStand`), that no two events are one (`EventsHold`), and that each refusal named a counter that was over (`RefusalHolds`).

*Fuzzer.* `SoundnessInv` says of each run that its rows are those its step requires (`RowsHold`), that the clock is within the margin of its expiries until it has compared (`WorkHolds`), that a cold run is ahead of the watermark and a warm one's rows are in the index (`PinHolds`), what the deletions have left to undo (`TraceHolds`), and that the runs do not meet (`RunsApart`). Both theorems assume that no two runs share a seed (`~Reruns`): with one seed they share their rows, which `src/soundness/runner.ts:141-163` leaves to the caller; the observations say what happens.

*Resolvers.* `GraphInv` is small (the schema is one, each stored tuple was accepted by it); what the theorems need is induction over walks, not over steps.

- *Recursion.* The resolvers, the rounds of the recursive query, the least fixpoints, the truth of a rule and the alternation are functions on `Nat` whose value at `h` is made from the one at `h - 1`. Each is first shown to be such a function: functions that obey it up to any number exist and agree with one another, so that together they are one on all of `Nat` (`RecursionsAreDefined`). From then on it is unfolded by one equation, and properties pass from `h - 1` to `h` by `Along`.
- *The well-founded model.* `IsPair` says what `Model` is: `true` is the least set closed under the rules when what they subtract is looked up in `possible`, and `possible` the least when it is looked up in `true`. That the fixpoints and the alternation reach it within the number of names on objects is by counting: each step adds a name or has ended.
- *`ResolversDecideWhatIsMeant`.* By induction on the height of a walk, for either resolver with the same hypothesis (`SoundWalk`): what is allowed holds under (`true`, `possible`), and what is denied with certainty does not hold under (`possible`, `true`). An exclusion swaps the two. A call that meets a name it is already on, or its limit, denies without certainty, and says nothing. For the recursive query it takes that its rows lead from the name asked to a tuple of the subject, and that rows that were not cut include every way there is.
- *`KeptRowsDoNotShow`.* After `m` rounds the keys of the rows are those at most `m` links away (`Spreads`), a set in which neither the rows kept nor the limit occur; the first round that a key comes in is then the same as well.
- *`DeeperDecidesMore`.* What was decided stays: `Kept` relates the outcomes of a walk and of the same walk under a larger limit, and passes through every operator. That enough depth decides all that is true (schemas that subtract nothing) is by the stages of the least fixpoint: what enters at stage `n` has a derivation from earlier stages, so a walk that follows it never returns to a name it is on, and `n` is at most the number of names.
- *`UnreportedExpiryKeeps`.* An action property: a walk that saw no window takes the same rounds, reads the same rows and says the same after a step that ends windows (`Lasts`). TLC checks what it says of allowed answers, at an ample depth, as `UnreportedExpiryChangesNothing`: an invariant that evaluates the resolver again with every set of windows ended (`After(ts)!ProductionCheck`); the proof system does not take an instance with a parameter, and TLC does not remember values of a primed function, so each has the form it can use.

`NumberLemmas` holds what replaces induction: a set of numbers that is not empty has a least member (`LeastNumber`), from which follow the greatest of a bounded set, that a recursion along `1..n` defines a function (`RecursionDefines`), and that what passes from each number to the next holds of all (`Along`). Each is an argument by least counterexample, with the library's theorem that `<` is well-founded. What the users of the abstract store share (the log ascends, what applying an entry does to the rows) are the first lemmas of `ServerProofs` and `LeopardIndexProofs`.

### Assumptions

The theorems rest on these and on nothing else; TLC evaluates each in a run.

- *Nulls and bounds* (`BoundsAssumption`, `NullsAssumption`, `ChecksAssumption`, `MissingAssumption`, and parts of the others): bounds are numbers, and the values that stand for null are apart from the rest.
- `CacheAssumption`, `LeopardAssumption`, `WatchAssumption`: batches, limits and depths are positive; tokens are positive numbers; a process has finitely many connections, and the index finitely many roots.
- `ChainAssumption`: something can be recorded, and legacy rows are among the rows that fit.
- `SourcesAssumption`: a source declares a namespace, and none twice (`src/schema/dsl/parser.ts:608`). `SaltsAssumption`: a namespace with the salt of a seed is declared by no other source and named by no other tuple (`src/soundness/generators.ts:39-66`, `:1346-1358`).
- `MigrationsAssumption`: what precedes a file in one directory precedes it in every directory that has it (the names are sorted, `src/store/migrate.ts:33-40`, and a release only adds files).
- `AccessAssumption`: the address chain of a request has the socket and at least one entry of the proxy (the deployment that `src/api/server.ts:645-655` is written for); the scopes of a key are null or a list (`src/api/db-api-keys.ts:176-190`); maxima and the window are positive.
- `GraphAssumption`: tuples are finitely many, of entities; a schema has finitely many namespaces and names, and rules nested at most `MaxNesting` deep (the parser's `MAX_EXPRESSION_NESTING_DEPTH`). `DepthsAssumption`: a depth limit is a natural number.
- `SoundnessAssumption`: fixtures have tuples, seeds share none (the salt again), and the margin is positive.

### What stays with TLC

- Liveness, and everything that rests on fairness: every call and every runner ends, every event arrives.
- What evidence and listings show (`AnswersReverify`, `ListsMissNothingSilently`): `Witnesses` and `ListUsers` recurse over trees, by operators declared `RECURSIVE`, which the proof system does not take.
- `UnreportedExpiryChangesNothing` as the invariant it is; as an action property, of all answers and limits, it is proved (`UnreportedExpiryKeeps`).
- The analyses of schemas (`CompilesWhatIsMeaningful`, `ClassificationIgnoresHistory`, `LocatedExclusionIsAtWork`, `ProvenIsKept`) and the verifier (`ExitZeroIsProof`, `ViolationIsReal`): `RECURSIVE` again, over the syntax of rules.
- Runs of the fuzzer that share a seed: what `LeavesNoTrace` says is false of them, as TLC shows (see the observations).

## Findings

1. **A cached denial outlives its reason** (`cache_denied`, `DeniedStaysCorrect`). `src/resolve/production/cache.ts:107` says that a cached denial "stays correct forever whether or not it touched an expiring tuple along the way". With an exclusion, a live tuple on the subtracted side denies; when its window ends, a fresh check allows, and the cached denial is answered until the TTL. The grant side is right: `AllowOutlivesNoTuple` is proved.
2. **`listUsers` lists subjects that the check denies** (`list_denied`, `ListedIsAllowed`). A subtracted side that ends at the cycle guard or at the depth limit evaluates to no members, and nobody is subtracted; both resolvers deny there. Two folders that are each other's parent suffice. `src/audit/list.ts:860` says that these nodes mirror the resolvers. Where the check is decided, the listing agrees (`ListsMissNothingSilently`).
3. **A revocation without a warning** (`silent_revocation`, `NoSilentRevocation`). `schema diff` compares the rule of each permission by itself. With `view = member - denied` and a candidate that adds a second relation to `denied`, the diff says that `denied` widens and `view` is unchanged, and prints no warning; the publish takes `view` from whoever is in the added relation. `src/schema/diff.ts:2-3` asks just this question of the diff, and `:29-30` says that a missed narrowing is not a safe failure. What the diff proves of rules whose names keep their meaning is right: `ProvenIsKept`.

4. **A claim that "provably can't be violated" and can** (`holds_forever`, `HoldsForever`). Claim that `s` never has `view` on `o`, given that `s` is nowhere a viewer but on `p`, and that `o` and `p` are distinct; with `view = viewer + parent->view`. The verifier answers HOLDS, exact, exit code 0. Yet `o#parent@p` and `p#viewer@s` meet every constraint and grant. Following `parent`, the search makes a new object and asks at `tools/schema-verifier/src/reachability/search.ts:253-262` whether that one is exempt; that it may turn out to be `p` is not known there, and the branch fails. `tools/schema-verifier/README.md:217-218` says that HOLDS means the invariant "provably can't be violated by any tuple set, ever". For claims without such an exemption it does (`ExitZeroIsProof`).

## Observations

Behaviour worth knowing when the code changes; none of it is claimed as a defect. Each can be seen by adding the property named to the cfg named, with the constants given.

- `AllowedByOneState` (`MCLeopardIndex.cfg` with `Routes <- Apart`, `Facts = {direct, member}`, `Tokens = {1, 2, 3}`, `MaxDepth = 0`): one check can take one relation from the index, as of its watermark, and another from the walk, as of its snapshot. Both cover the pin; together they may be an answer that no single state gives.
- `SuccessfulWriteInvalidates` (`MCCheckCacheDenied.cfg`): the batch route returns its 503 before the clear when one item throws and others have committed. `docs/CONSISTENCY.md:260` says that every successful write through the process clears the cache; the caller of that batch was not told of a success, and `AcknowledgedWritesAreSeen` holds.
- `GoneClientIsNoticed` of `WatchFeed`: a client that goes away between the first `await` of the handler and the registration of the 'close' listener; the handler's flag is never set.
- `WatchNoGap` under `BrowserSpec` of `WatchFeed`: a browser that reconnects with `Last-Event-ID` starts from the present, and misses what was written in between.
- `CheckedAtFollowsChain` (`MCAuditChain.cfg` under `Spec`): `checked_at` is taken before the chain lock, so it need not ascend along the chain. `MismatchMeansTampered` likewise: `audit verify` reads rows first and anchors second, and an anchor of a newer row in between is reported as a mismatch.
- `FloodWindowRolls` (`MCRequests.cfg` with `Traffic <- OnlyFloods`): `src/api/server.ts:1308-1309` calls the window of the flood guard rolling; it is a fixed one that starts with the first request, so twice the maximum fits around its end.
- `DryRunLeavesNoTrace` with `Reruns = TRUE` and one run (`MCPublishing.cfg`): a dry run of a seed that was run for good before takes the tuples of that run with it (`src/soundness/runner.ts:109-112`).
- `SubtractFlips` (`MCSchemaEvolution.cfg`): for `view = member | (member - suspended)` the exclusion that is located does not flip the check, since the first branch still grants (`src/metamorphic/monotonicity.ts:437-438`).
- The reference resolver's cycle guard leaves a cycle of userset tuples on a subtracted side open and denies, where production's recursive query exhausts the cycle and decides that the subject is not there. Both are sound (`DecidedMeansMeant`), but the classification of the fuzzer would call it a false grant.
- `subjectTypeKey` does not look at the wildcard, so `schema diff` calls a relation that loses `user:*` and keeps `user` unchanged (`src/schema/diff.ts:105-113`).
- `HoldsWithinBound` (`MCHoldsForever.cfg` with `ClaimFiles <- MCFiles`): the bounded search tries the relations that the scan of the graph lists, and a relation that a permission only follows is not among them (`fragment.ts:59-92`), so the HOLDS up to `k` leaves out stores within `k`. `tools/schema-verifier/README.md:253` says every type-valid tuple set; `test/smt.test.ts:145-156` knows of it. Where subject and object of the goal have one type, the object is not in the pools either (`candidates.ts:72-73`).
- A relation that a claim gives a value is taken to have no other (`search.ts` binds it as a slot): with `viewer(o) = x` and `distinct(s, x)` the verifier answers HOLDS, though a second viewer may be stored. `ExitZeroIsProof` is about the stores without (`TakenLiterally`), where a fact that a claim rules out is not implied by a wildcard either; on wildcards the exact and the bounded search differ.
- The trials that look for counterexamples to a HOLDS ignore the constraints of the claim, so a right HOLDS may exit 3; they take the goal's own objects only from namespaces with a block (`fuzz.ts:61`), so a subject of a type without one is in no trial, the mistake that `candidates.ts:26-35` describes as mended in the bounded search. A witness whose subject was unified with another variable of the claim may be replayed under the other name, and exits 3 too (`replay.ts:87-92`).
- A seed that is replayed after the margin of its expiries has passed is judged by windows that have ended since (`src/soundness/runner.ts:941-966`); a publish whose acknowledgement of `COMMIT` is lost leaves its version behind, dry run or not.

## What is not modelled

- *Lexing and parsing* of schemas, and the JSON that routes, reports and commands make: conversions without a state, of which no property here depends on the wording.
- *The generators* of the fuzzer: seeded randomness; their fixtures are given as constants.
- *The simulation harness* (`src/store/dst/`): a model of Postgres in memory for tests. The locks and snapshots it imitates are the guards of `TupleStore`, `Migrations` and `LeopardIndex`.
- *Of the verifier:* the parser of claims, the frontends for other schema languages, and the budgets of search and compilation, which end in the same UNKNOWN; a solver that runs out of time is the bounded search being always possible.
- *The closure algorithm of the index* over a graph; the routes are given.
- *Scope and privilege-escalation reports*: they repeat `listObjects` and diff its results.
- *Statement timeouts* other than as statements that fail, and the eviction of the least recently used of the 50,000 addresses the flood guard keeps.

## Plan

1. The diff and the classifier as recursive functions on the height of a rule, as the resolvers are, so that `ProvenIsKept` and `ClassificationIgnoresHistory` can be proved from the lemmas about `Meaning`.
2. The trees of evidence and of `expand` likewise: `AnswersReverify` for every schema.
3. The program of the runs `operations` and `server` as one: a publish, a migration and a write that meet, instead of scenes side by side.
4. The simulation harness, shown to be the Postgres that `TupleStore` assumes.
