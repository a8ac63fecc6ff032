------------------------------ MODULE MCServer ------------------------------
\* What one server keeps in memory, one part at a time: the check cache, or the
\* streams of GET /watch, above the same store.
EXTENDS CheckCache, WatchFeed

VARIABLE scene

cacheOnly == <<now, epoch, store, checkVars, writerVars>>
feedOnly == <<handlerVars, clientVars>>

ServerInit == scene \in {"cache", "watch"} /\ CacheInit /\ WatchInit

\* The feed does not look at expiries.
WatchStep == WatchNext /\ \A i \in DOMAIN history' : history'[i].expiresAt = NoExpiry

ServerNext == \/ scene = "cache" /\ CacheNext /\ UNCHANGED <<scene, feedOnly>>
              \/ scene = "watch" /\ WatchStep /\ UNCHANGED <<scene, cacheOnly>>

ServerSpec == /\ ServerInit
              /\ [][ServerNext]_<<scene, rows, history, cacheOnly, feedOnly>>
              /\ WatchFairness
=============================================================================
