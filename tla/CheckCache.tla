----------------------------- MODULE CheckCache -----------------------------
(***************************************************************************)
(* The check-result cache of one server process (src/resolve/production/   *)
(* cache.ts) between performCheck (src/audit/checks.ts) and the routes     *)
(* that write (src/api/server.ts): hits, misses fenced by an epoch, the    *)
(* whole-cache clear of a successful write, batches of which one item may  *)
(* throw, entries the TTL or the LRU bound drops, writers in other         *)
(* processes, and tuples that expire.  A walk is one read of one state     *)
(* (PinnedCheck), a write one step of the abstract store (TupleStore); the *)
(* permission is an exclusion: a live grant and no live ban.               *)
(***************************************************************************)
EXTENDS AtomicStore

CONSTANTS Checks,     \* concurrent activations of performCheck, on one subject,
                      \* permission and object
          Writers,    \* concurrent /tuples and /tuples/batch requests
          BatchSize,  \* items of the largest batch
          Grants,     \* tuples that grant the permission
          Bans,       \* tuples that take it away
          Pins,       \* the values of atToken checks ask for
          MaxNow      \* the last instant of the clock

ASSUME CacheAssumption == /\ Grants \cup Bans \subseteq Facts
                          /\ BatchSize \in Nat \ {0}
                          /\ MaxNow \in Nat
                          /\ Tokens \subseteq Nat \ {0}
                          /\ Pins \subseteq Nat
                          /\ Expiries \subseteq Nat
                          /\ None \notin Nat /\ NoExpiry \notin Nat /\ None # NoExpiry

VARIABLES now,        \* the clock
          epoch,      \* CheckCache.epoch
          store,      \* CheckCache.store: the cached result under each key, or None
          kpc,        \* where each check is
          key,        \* its cache key: atToken, None for an unpinned check
          missEpoch,  \* its beginMiss()
          result,     \* its hit, or what its walk found
          need,       \* how much of write_log was acknowledged when it started
          told,       \* the last answer given in each slot, with the need it had
          wpc,        \* where each write request is
          left,       \* items of it that are not settled
          wrote,      \* log position of its last item that came back ok, or 0
          acked,      \* log position up to which successful responses were sent
          succeeded   \* log position up to which a request that is over had ok items

checkVars == <<kpc, key, missEpoch, result, need, told>>
writerVars == <<wpc, left, wrote, acked, succeeded>>
cacheVars == <<rows, history, now, epoch, store, checkVars, writerVars>>

Keys == Pins \cup {None}
Later(m, n) == IF m < n THEN n ELSE m

CacheInit == /\ Init
             /\ now = 0
             /\ epoch = 0
             /\ store = [p \in Keys |-> None]
             /\ kpc = [k \in Checks |-> "idle"]
             /\ key = [k \in Checks |-> None]
             /\ missEpoch = [k \in Checks |-> 0]
             /\ result = [k \in Checks |-> None]
             /\ need = [k \in Checks |-> 0]
             /\ told = [k \in Checks |-> None]
             /\ wpc = [q \in Writers |-> "idle"]
             /\ left = [q \in Writers |-> 0]
             /\ wrote = [q \in Writers |-> 0]
             /\ acked = 0
             /\ succeeded = 0

-----------------------------------------------------------------------------
Live(row, t) == row # None /\ (row # NoExpiry => row > t)

Allowed(rs, t) == /\ \E f \in Grants : Live(rs[f], t)
                  /\ \A f \in Bans : ~Live(rs[f], t)

\* touchedExpiringTuple: the walk read a live tuple that has an expires_at.
Touched(rs, t) == \E f \in Grants \cup Bans : Live(rs[f], t) /\ rs[f] # NoExpiry

\* A ProductionCheckResult, with the state it was computed from.
Outcome == [allowed |-> Allowed(rows, now), touched |-> Touched(rows, now),
            rows |-> rows, upTo |-> Len(history)]

Observed(p) == \E i \in DOMAIN history : p <= history[i].token

\* Mutant: a key without the token tag.
KeyWithoutToken(p) == None

\* buildCacheKey: an absent atToken and every token key differently.
CacheKey(p) == p

\* performCheck up to its first await: a hit, or beginMiss.
StartCheck(k, p) ==
    /\ kpc[k] = "idle"
    /\ key' = [key EXCEPT ![k] = p]
    /\ need' = [need EXCEPT ![k] = acked]
    /\ result' = [result EXCEPT ![k] = store[CacheKey(p)]]
    /\ kpc' = [kpc EXCEPT ![k] = IF store[CacheKey(p)] = None THEN "missed" ELSE "hit"]
    /\ missEpoch' = [missEpoch EXCEPT ![k] = epoch]
    /\ told' = [told EXCEPT ![k] = None]
    /\ UNCHANGED <<rows, history, now, epoch, store, writerVars>>

EndCheck(k, answer) ==
    /\ kpc' = [kpc EXCEPT ![k] = "idle"]
    /\ key' = [key EXCEPT ![k] = None]
    /\ missEpoch' = [missEpoch EXCEPT ![k] = 0]
    /\ result' = [result EXCEPT ![k] = None]
    /\ need' = [need EXCEPT ![k] = 0]
    /\ told' = [told EXCEPT ![k] = answer]
    /\ UNCHANGED <<rows, history, now, epoch, writerVars>>

\* productionCheck; a token that is not observed throws (see CheckThrows).
Walk(k) ==
    /\ kpc[k] = "missed"
    /\ key[k] # None => Observed(key[k])
    /\ result' = [result EXCEPT ![k] = Outcome]
    /\ kpc' = [kpc EXCEPT ![k] = "walked"]
    /\ UNCHANGED <<rows, history, now, epoch, store, key, missEpoch, need, told, writerVars>>

\* Mutant: the epoch is taken when the result is stored, not before the walk.
TrySetUnfenced(k) == IF result[k].allowed /\ result[k].touched THEN store
                     ELSE [store EXCEPT ![CacheKey(key[k])] = result[k]]

\* Mutant: an allowed result that read an expiring tuple is cached.
TrySetExpiring(k) == IF missEpoch[k] # epoch THEN store
                     ELSE [store EXCEPT ![CacheKey(key[k])] = result[k]]

\* The guard of performCheck and trySet: not past an epoch, and never an allowed
\* result that read an expiring tuple.
TrySet(k) == IF \/ missEpoch[k] # epoch
                \/ result[k].allowed /\ result[k].touched
             THEN store
             ELSE [store EXCEPT ![CacheKey(key[k])] = result[k]]

Answer(k) == [result |-> result[k], key |-> key[k], need |-> need[k]]

\* The checks row is in; a hit returns, a miss is offered to the cache first.
AuditedHit(k) == /\ kpc[k] = "hit"
                 /\ store' = store
                 /\ EndCheck(k, Answer(k))

AuditedMiss(k) == /\ kpc[k] = "walked"
                  /\ store' = TrySet(k)
                  /\ EndCheck(k, Answer(k))

\* The walk or the audit insert throws, and nothing is cached.
CheckThrows(k) == /\ kpc[k] # "idle"
                  /\ store' = store
                  /\ EndCheck(k, None)

\* The TTL or the LRU bound drops an entry.
Evict(p) == /\ store[p] # None
            /\ store' = [store EXCEPT ![p] = None]
            /\ UNCHANGED <<rows, history, now, epoch, checkVars, writerVars>>

-----------------------------------------------------------------------------
InFuture(r) == r.expiresAt # NoExpiry => r.expiresAt > now

Commits == \E r \in Requests, t \in Tokens : InFuture(r) /\ Perform(r, t)

\* Another process, or psql.
ForeignWrite == Commits /\ UNCHANGED <<now, epoch, store, checkVars, writerVars>>

\* POST or DELETE /tuples is a batch of one.
StartWrite(q, n) ==
    /\ wpc[q] = "idle"
    /\ wpc' = [wpc EXCEPT ![q] = "running"]
    /\ left' = [left EXCEPT ![q] = n]
    /\ UNCHANGED <<rows, history, now, epoch, store, checkVars, wrote, acked, succeeded>>

\* writeTuple of one item commits and returns ok; once the request has failed
\* nobody listens any more, but the item still commits.
ItemCommits(q) ==
    /\ left[q] > 0
    /\ Commits
    /\ left' = [left EXCEPT ![q] = @ - 1]
    /\ wrote' = [wrote EXCEPT ![q] = Len(history')]
    /\ succeeded' = IF wpc[q] = "failed" THEN Len(history') ELSE succeeded
    /\ UNCHANGED <<now, epoch, store, checkVars, wpc, acked>>

\* ok: false, the item failed its validation.
ItemRejected(q) ==
    /\ left[q] > 0
    /\ left' = [left EXCEPT ![q] = @ - 1]
    /\ UNCHANGED <<rows, history, now, epoch, store, checkVars, wpc, wrote, acked, succeeded>>

\* writeTuple of one item throws, committed or not: Promise.all rejects, 503,
\* and the handler returns without looking at the other items.
ItemThrows(q) ==
    /\ left[q] > 0
    /\ Commits \/ UNCHANGED <<rows, history>>
    /\ left' = [left EXCEPT ![q] = @ - 1]
    /\ wpc' = [wpc EXCEPT ![q] = "failed"]
    /\ succeeded' = Later(succeeded, wrote[q])
    /\ UNCHANGED <<now, epoch, store, checkVars, wrote, acked>>

\* CheckCache.clear.
Clear == /\ epoch' = epoch + 1
         /\ store' = [p \in Keys |-> None]

\* Every item is settled: clear if one was ok, then answer, without an await.
Acknowledge(q) ==
    /\ wpc[q] = "running"
    /\ left[q] = 0
    /\ IF wrote[q] = 0 THEN UNCHANGED <<epoch, store>> ELSE Clear
    /\ acked' = Later(acked, wrote[q])
    /\ succeeded' = Later(succeeded, wrote[q])
    /\ wpc' = [wpc EXCEPT ![q] = "idle"]
    /\ wrote' = [wrote EXCEPT ![q] = 0]
    /\ UNCHANGED <<rows, history, now, checkVars, left>>

\* The last item of a request that has failed settles.
Abandon(q) ==
    /\ wpc[q] = "failed"
    /\ left[q] = 0
    /\ wpc' = [wpc EXCEPT ![q] = "idle"]
    /\ wrote' = [wrote EXCEPT ![q] = 0]
    /\ UNCHANGED <<rows, history, now, epoch, store, checkVars, left, acked, succeeded>>

Tick == /\ now < MaxNow
        /\ now' = now + 1
        /\ UNCHANGED <<rows, history, epoch, store, checkVars, writerVars>>

-----------------------------------------------------------------------------
CheckStep(k) == \/ \E p \in Keys : StartCheck(k, p)
                \/ Walk(k)
                \/ AuditedHit(k)
                \/ AuditedMiss(k)
                \/ CheckThrows(k)

WriterStep(q) == \/ \E n \in 1..BatchSize : StartWrite(q, n)
                 \/ ItemCommits(q)
                 \/ ItemRejected(q)
                 \/ ItemThrows(q)
                 \/ Acknowledge(q)
                 \/ Abandon(q)

CacheNext == \/ \E k \in Checks : CheckStep(k)
             \/ \E q \in Writers : WriterStep(q)
             \/ \E p \in Keys : Evict(p)
             \/ ForeignWrite
             \/ Tick

CacheSpec == CacheInit /\ [][CacheNext]_cacheVars

-----------------------------------------------------------------------------
Results == [allowed : BOOLEAN, touched : BOOLEAN,
            rows : [Facts -> Expiries \cup {NoExpiry, None}], upTo : Nat]
Answers == [result : Results, key : Keys, need : Nat]

\* The type of the variables this module adds.
CacheTypeOK ==
    /\ now \in 0..MaxNow
    /\ epoch \in Nat
    /\ store \in [Keys -> Results \cup {None}]
    /\ kpc \in [Checks -> {"idle", "missed", "walked", "hit"}]
    /\ key \in [Checks -> Keys]
    /\ missEpoch \in [Checks -> Nat]
    /\ result \in [Checks -> Results \cup {None}]
    /\ need \in [Checks -> Nat]
    /\ told \in [Checks -> Answers \cup {None}]
    /\ wpc \in [Writers -> {"idle", "running", "failed"}]
    /\ left \in [Writers -> 0..BatchSize]
    /\ wrote \in [Writers -> Nat]
    /\ acked \in Nat
    /\ succeeded \in Nat

\* A check that starts after the response to a write through the same server
\* reflects that write, hit or miss, whatever was in flight when the write
\* cleared the cache (the epoch fence, cache.ts:68-84).
AcknowledgedWritesAreSeen ==
    \A k \in Checks : told[k] # None => told[k].need <= told[k].result.upTo

\* "a check pinned to token T never returns a result that ignores a write with
\* token <= T", with the cache on (cache.ts:9-10, 30-46).
PinnedAnswersCoverToken ==
    \A k \in Checks : told[k] # None /\ told[k].key # None =>
        \A i \in DOMAIN history : history[i].token <= told[k].key => i <= told[k].result.upTo

\* "A cached ALLOW must never survive a tuple it depended on time-expiring"
\* (checks.ts:61-62): no cached grant is taken away by the clock alone.
AllowOutlivesNoTuple ==
    \A p \in Keys : store[p] # None /\ store[p].allowed => Allowed(store[p].rows, now)

\* "a cached DENIED result stays correct forever whether or not it touched an
\* expiring tuple" (cache.ts:106-108).
DeniedStaysCorrect ==
    \A p \in Keys : store[p] # None /\ ~store[p].allowed => ~Allowed(store[p].rows, now)

\* "Every successful write/delete/schema-publish reachable through the same
\* server process invalidates the whole cache immediately" (docs/CONSISTENCY.md:
\* 260-262), also when the request it was part of has ended in an error.
SuccessfulWriteInvalidates ==
    \A p \in Keys : store[p] # None => succeeded <= store[p].upTo
=============================================================================
