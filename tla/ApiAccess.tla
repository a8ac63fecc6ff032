----------------------------- MODULE ApiAccess ------------------------------
(***************************************************************************)
(* The way of a request through src/api/server.ts: the flood guard, the    *)
(* credential, the limiter of its route, the checks of its handler, and    *)
(* the handler's work.  Credentials are the two static keys and the rows   *)
(* of api_keys (src/api/auth.ts, src/api/db-api-keys.ts), which operators  *)
(* make and revoke meanwhile; counters live in each process, or in a Redis *)
(* that all of them share (src/api/redis-store.ts) and that may be down.   *)
(***************************************************************************)
EXTENDS Integers, Sequences, FiniteSets

CONSTANTS Slots,        \* requests in flight
          Replicas,     \* server processes
          Namespaces,
          StaticAdmin,  \* ADMIN_API_KEY, or Absent when it is not set
          StaticRead,   \* READONLY_API_KEY, or Absent
          RawKeys,         \* raw keys that createApiKey may hand out
          Absent,
          MaxOf,        \* the limiter of a route, or "flood" -> its max
          Window,       \* AUTH_FLOOD_WINDOW_MS and the minute of the limiters
          KeyExpiries,  \* expiries a key may be given, Absent among them
          ScopeSets,    \* scopes a key may be given; {Absent} is an unscoped key
          Traffic,      \* the workloads explored: name -> [requests, redis, total, keys]
          MaxTime

VARIABLES time,
          redis,        \* is REDIS_URL set?
          workload,     \* the workload of this behaviour
          apiKeys,      \* api_keys: key -> row, or Absent
          floods,       \* counters of the guard, by store and address
          limits,       \* of the limiters, by store, limiter and caller
          requests,     \* slot -> the request, or Absent
          arrivals      \* requests so far

VARIABLES asked         \* what was counted, on whose account, when, and whether it passed

counterVars == <<floods, limits, asked>>
accessVars == <<time, redis, workload, apiKeys, requests, arrivals, counterVars>>

Times == 0 .. MaxTime
Credentials == RawKeys \cup ({StaticAdmin, StaticRead} \ {Absent})

-----------------------------------------------------------------------------
(* The routes: who may call them, the limiter that counts their calls, and *)
(* the checks of the handler in their order.                               *)
Route(gate, limiter, stages) == [gate |-> gate, limiter |-> limiter, stages |-> stages]

CheckRoute == Route("read", "check", <<"body", "scope", "token", "run">>)
CheckBatchRoute == Route("read", "checkBatch", <<"body", "token", "scope", "run">>)
ExpandRoute == Route("read", "expand", <<"body", "scope", "run">>)
ListObjectsRoute == Route("read", "listObjects", <<"body", "scope", "token", "run">>)
ListUsersRoute == Route("read", "listUsers", <<"body", "scope", "run">>)
ScopeRoute == Route("read", "scope", <<"body", "scope", "token", "runTargets">>)
WatchRoute == Route("read", "watch", <<"body", "filter", "token", "slot", "runTargets">>)
WriteRoute == Route("admin", "write", <<"body", "scope", "expiry", "runChecked">>)
WriteBatchRoute == Route("admin", "writeBatch", <<"body", "expiry", "scope", "run">>)
DeleteRoute == Route("admin", "delete", <<"body", "scope", "runChecked">>)
PublishRoute == Route("admin", "publish", <<"body", "compiled", "runChecked">>)
CompileRoute == Route("open", "global", <<"body", "runChecked">>)
HealthRoute == Route("open", "health", <<"run">>)
DocumentRoute == Route("open", "global", <<"runTargets">>)
MetricsRoute == Route("admin", "metrics", <<"unscoped", "runTargets">>)

Endpoints == {CheckRoute, CheckBatchRoute, ExpandRoute, ListObjectsRoute, ListUsersRoute,
              ScopeRoute, WatchRoute, WriteRoute, WriteBatchRoute, DeleteRoute, PublishRoute,
              CompileRoute, HealthRoute, DocumentRoute, MetricsRoute}
Limiters == { r.limiter : r \in Endpoints }

\* A row of api_keys.
KeyRows == [role : {"admin", "readonly"}, scopes : ScopeSets, expires : KeyExpiries,
            revoked : BOOLEAN]

\* Requests come through the proxy (server.ts:645-655), every limit lets something
\* through, and a key without scopes has null for them, never among others
\* (createApiKey).
ASSUME AccessAssumption ==
    /\ \A w \in DOMAIN Traffic : \A q \in Traffic[w].requests :
          q.route \in Endpoints /\ Len(q.chain) > 1
    /\ \A l \in Limiters \cup {"flood"} : MaxOf[l] \in Nat \ {0}
    /\ Window \in Nat \ {0}
    /\ \A S \in ScopeSets : Absent \in S => S = {Absent}
    /\ KeyExpiries \subseteq Int \cup {Absent}
    /\ Absent \notin KeyRows

-----------------------------------------------------------------------------
(* Counters.                                                               *)

\* Mutant: what a client claims of itself is taken for its address.
ClaimedAddress(chain) == chain[Len(chain)]

\* request.ip: the socket is the one proxy that is trusted, what it says of its own
\* peer is believed, and what that peer claims of others is not.
ClientAddress(chain) == IF Len(chain) > 1 THEN chain[2] ELSE chain[1]

\* Whose request it is.
Payer(q) == IF q.cred = Absent THEN ClientAddress(q.chain) ELSE q.cred

\* rateLimitKeyGenerator: the credential, valid or not; the address without one.
CallerKey(q) == IF q.cred = Absent THEN ClientAddress(q.chain) ELSE q.cred

\* The store a replica counts in.
Shared == "redis"
StoreOf(replica) == IF redis THEN Shared ELSE replica

\* Mutant: a window that never ends.
CountForever(counters, k) ==
    IF k \in DOMAIN counters THEN [counters[k] EXCEPT !.count = @ + 1]
    ELSE [count |-> 1, start |-> time]

\* increment: the first request past the window opens the next one.  INCR, PEXPIRE
\* and PTTL are one script, so Redis does the same.
Counted(counters, k) ==
    IF k \in DOMAIN counters /\ time - counters[k].start < Window
    THEN [counters[k] EXCEPT !.count = @ + 1]
    ELSE [count |-> 1, start |-> time]

Put(f, k, v) == [x \in DOMAIN f \cup {k} |-> IF x = k THEN v ELSE f[x]]

\* One request counted: in which store, by what, on whose account.  `nth` keeps those
\* apart that agree in all of it.
Event(store, limiter, payer, passed) ==
    [store |-> store, limiter |-> limiter, payer |-> payer, passed |-> passed, at |-> time]
Like(e) == { f \in asked : f.event = e }
Record(e) == asked' = asked \cup {[event |-> e, nth |-> Cardinality(Like(e)) + 1]}

\* How many events of this store, limiter and payer lie in the Window up to t.
OnAccount(e) == { f \in asked : /\ f.event.store = e.store
                                /\ f.event.limiter = e.limiter
                                /\ f.event.payer = e.payer }
Recent(e, t, passes) ==
    Cardinality({ f \in OnAccount(e) : /\ t - Window < f.event.at
                                       /\ f.event.at <= t
                                       /\ f.event.passed \in passes })

-----------------------------------------------------------------------------
AccessInit == /\ time = 0
              /\ workload \in DOMAIN Traffic
              /\ redis \in Traffic[workload].redis
              /\ apiKeys = [k \in RawKeys |-> Absent]
              /\ floods = << >>
              /\ limits = << >>
              /\ requests = [s \in Slots |-> Absent]
              /\ arrivals = 0
              /\ asked = {}

-----------------------------------------------------------------------------
(* Keys.                                                                   *)
IsLiveKey(row) == /\ row # Absent
                  /\ ~row.revoked
                  /\ row.expires # Absent => row.expires > time

\* createApiKey: an expiry lies ahead, scopes are not empty, the raw key is new.
CreateKey(k, role, scopes, expires) ==
    /\ Traffic[workload].keys
    /\ apiKeys[k] = Absent
    /\ scopes # {}
    /\ expires # Absent => expires > time
    /\ apiKeys' = [apiKeys EXCEPT ![k] = [role |-> role, scopes |-> scopes,
                                          expires |-> expires, revoked |-> FALSE]]
    /\ UNCHANGED <<time, redis, workload, requests, arrivals, counterVars>>

\* revokeApiKey of a key that is not revoked yet.
RevokeKey(k) ==
    /\ apiKeys[k] # Absent
    /\ ~apiKeys[k].revoked
    /\ apiKeys' = [apiKeys EXCEPT ![k].revoked = TRUE]
    /\ UNCHANGED <<time, redis, workload, requests, arrivals, counterVars>>

\* Mutant: the lookup does not look at revoked_at.
LookupAnyKey(cred) ==
    IF cred \in RawKeys /\ apiKeys[cred] # Absent /\
       (apiKeys[cred].expires # Absent => apiKeys[cred].expires > time)
    THEN apiKeys[cred] ELSE Absent

\* validateDbApiKey
LookupKey(cred) == IF cred \in RawKeys /\ IsLiveKey(apiKeys[cred]) THEN apiKeys[cred] ELSE Absent

Everything == [scopes |-> Namespaces \cup {Absent}]
Refused == [scopes |-> Absent]
WithScopes(row) == [scopes |-> row.scopes]

\* checkAdminAuthDb: ADMIN_API_KEY, or a row of role admin.
AdminAuth(cred) ==
    IF cred # Absent /\ cred = StaticAdmin THEN Everything
    ELSE LET row == LookupKey(cred)
         IN  IF row # Absent /\ row.role = "admin" THEN WithScopes(row) ELSE Refused

\* checkReadAuthDb: either static key, or a row of any role.
ReadAuth(cred) ==
    IF cred # Absent /\ cred \in {StaticRead, StaticAdmin} THEN Everything
    ELSE LET row == LookupKey(cred)
         IN  IF row # Absent THEN WithScopes(row) ELSE Refused

\* Only a credential that is no static key costs a query, which may fail.
NeedsLookup(q) == /\ q.cred # Absent
                  /\ q.cred # StaticAdmin
                  /\ q.route.gate = "read" => q.cred # StaticRead

-----------------------------------------------------------------------------
(* Requests.                                                               *)
Pass == "pass"

Respond(s, code, why) ==
    requests' = [requests EXCEPT ![s].state = "answered", ![s].code = code,
                                 ![s].why = why, ![s].answeredAt = time]
Proceed(s, state) == requests' = [requests EXCEPT ![s].state = state]

\* Is the credential a key that was revoked, or has expired, by now?
IsDead(cred) == cred \in RawKeys /\ apiKeys[cred] # Absent /\ ~IsLiveKey(apiKeys[cred])

FirstState(route) == IF route.gate = "open" THEN "limiting" ELSE "guarding"

Arrive(s, q, replica) ==
    /\ requests[s] = Absent
    /\ arrivals < Traffic[workload].total
    /\ arrivals' = arrivals + 1
    /\ requests' = [requests EXCEPT ![s] =
         [route |-> q.route, cred |-> q.cred, chain |-> q.chain, namespaces |-> q.namespaces,
          replica |-> replica, state |-> FirstState(q.route), dead |-> IsDead(q.cred),
          scopes |-> Absent, ran |-> FALSE, code |-> Pass, why |-> "none", answeredAt |-> time]]
    /\ UNCHANGED <<time, redis, workload, apiKeys, counterVars>>

In(s, state) == requests[s] # Absent /\ requests[s].state = state

\* authFloodGuard, ahead of the credential.
FloodGuard(s) ==
    LET q == requests[s]
        k == <<StoreOf(q.replica), ClientAddress(q.chain)>>
        c == Counted(floods, k)
        passes == c.count <= MaxOf["flood"]
    IN  /\ In(s, "guarding")
        /\ floods' = Put(floods, k, c)
        /\ Record(Event(k[1], "flood", q.chain[2], passes))
        /\ IF passes THEN Proceed(s, "authorizing") ELSE Respond(s, "rate_limited", "flood")
        /\ UNCHANGED <<time, redis, workload, apiKeys, arrivals, limits>>

\* Redis does not answer: 503, by the guard or by the error handler.
StoreUnreachable(s) ==
    /\ redis
    /\ In(s, "guarding") \/ In(s, "limiting")
    /\ Respond(s, "infrastructure_unavailable", "store")
    /\ UNCHANGED <<time, redis, workload, apiKeys, arrivals, counterVars>>

\* requireAdminAuth, requireReadAuth
Authorize(s) ==
    LET q == requests[s]
        auth == IF q.route.gate = "admin" THEN AdminAuth(q.cred) ELSE ReadAuth(q.cred)
    IN  /\ In(s, "authorizing")
        /\ IF auth = Refused
           THEN Respond(s, "unauthorized", "credential")
           ELSE requests' = [requests EXCEPT ![s].state = "limiting", ![s].scopes = auth.scopes]
        /\ UNCHANGED <<time, redis, workload, apiKeys, arrivals, counterVars>>

\* The query of api_keys throws.
KeyLookupFails(s) ==
    /\ In(s, "authorizing")
    /\ NeedsLookup(requests[s])
    /\ Respond(s, "infrastructure_unavailable", "database")
    /\ UNCHANGED <<time, redis, workload, apiKeys, arrivals, counterVars>>

\* The limiter of the route, behind the credential where there is one.
LimitRoute(s) ==
    LET q == requests[s]
        k == <<StoreOf(q.replica), q.route.limiter, CallerKey(q)>>
        c == Counted(limits, k)
        passes == c.count <= MaxOf[q.route.limiter]
    IN  /\ In(s, "limiting")
        /\ limits' = Put(limits, k, c)
        /\ Record(Event(k[1], q.route.limiter, Payer(q), passes))
        /\ IF passes THEN Proceed(s, "handling") ELSE Respond(s, "rate_limited", "limit")
        /\ UNCHANGED <<time, redis, workload, apiKeys, arrivals, floods>>

\* findOutOfScopeNamespace of what the request names.
InScope(q) == Absent \in q.scopes \/ q.namespaces \subseteq q.scopes

\* The words of the request are refused or not (the schemas of the bodies); so are a
\* token and an expiry.
WordOutcomes == {Pass, "invalid_request"}

\* A scoped credential may watch the one namespace it filters by.
FilterOutcomes(q) == IF Absent \in q.scopes \/ (q.namespaces # {} /\ InScope(q))
                     THEN {Pass} ELSE {"forbidden"}

\* Schema source that does not compile names no namespace, and is refused later on.
CompiledOutcomes(q) == {"invalid_request", IF InScope(q) THEN Pass ELSE "forbidden"}

\* What a check of the handler may come to.
StageOutcomes(q, stage) ==
    CASE stage \in {"body", "token", "expiry"} -> WordOutcomes
      [] stage = "scope" -> {IF InScope(q) THEN Pass ELSE "forbidden"}
      [] stage = "filter" -> FilterOutcomes(q)
      [] stage = "unscoped" -> {IF Absent \in q.scopes THEN Pass ELSE "forbidden"}
      [] stage = "compiled" -> CompiledOutcomes(q)
      [] stage = "slot" -> {Pass, "infrastructure_unavailable"}

\* An answer that cannot say no: checks, lists, trees, targets with errors of their own.
ServedOutcomes == {"served"}

\* runOrInfrastructureError turns what the work throws into a 503.
GuardedOutcomes == ServedOutcomes \cup {"infrastructure_unavailable"}

\* A tuple or a schema that the work itself refuses is a 400.
ValidatedOutcomes == GuardedOutcomes \cup {"invalid_request"}

RunOutcomes(stage) == CASE stage = "run" -> GuardedOutcomes
                        [] stage = "runChecked" -> ValidatedOutcomes
                        [] stage = "runTargets" -> ServedOutcomes

\* The last stage is the work, those before it are checks.
ChecksOf(route) == 1 .. Len(route.stages) - 1
Work(route) == route.stages[Len(route.stages)]

\* A check of the handler refuses: it answers and returns.
HandlerRefuses(s) ==
    LET q == requests[s] IN
    /\ In(s, "handling")
    /\ \E i \in ChecksOf(q.route) :
          /\ \A j \in 1 .. i - 1 : Pass \in StageOutcomes(q, q.route.stages[j])
          /\ \E o \in StageOutcomes(q, q.route.stages[i]) \ {Pass} : Respond(s, o, "handler")
    /\ UNCHANGED <<time, redis, workload, apiKeys, arrivals, counterVars>>

\* The handler does its work and answers with what came of it.
HandlerRuns(s) ==
    LET q == requests[s] IN
    /\ In(s, "handling")
    /\ \A i \in ChecksOf(q.route) : Pass \in StageOutcomes(q, q.route.stages[i])
    /\ \E o \in RunOutcomes(Work(q.route)) :
          requests' = [requests EXCEPT ![s].state = "answered", ![s].ran = TRUE,
                         ![s].code = o, ![s].why = "work", ![s].answeredAt = time]
    /\ UNCHANGED <<time, redis, workload, apiKeys, arrivals, counterVars>>

Finish(s) == /\ In(s, "answered")
             /\ requests' = [requests EXCEPT ![s] = Absent]
             /\ UNCHANGED <<time, redis, workload, apiKeys, arrivals, counterVars>>

TimePasses == /\ time < MaxTime
              /\ time' = time + 1
              /\ UNCHANGED <<redis, workload, apiKeys, requests, arrivals, counterVars>>

RequestStep(s) == \/ \E q \in Traffic[workload].requests, r \in Replicas : Arrive(s, q, r)
                  \/ FloodGuard(s)
                  \/ StoreUnreachable(s)
                  \/ Authorize(s)
                  \/ KeyLookupFails(s)
                  \/ LimitRoute(s)
                  \/ HandlerRefuses(s)
                  \/ HandlerRuns(s)
                  \/ Finish(s)

KeyStep(k) == \/ \E role \in {"admin", "readonly"}, scopes \in ScopeSets,
                    expires \in KeyExpiries : CreateKey(k, role, scopes, expires)
              \/ RevokeKey(k)

AccessNext == \/ TimePasses
              \/ \E s \in Slots : RequestStep(s)
              \/ \E k \in RawKeys : KeyStep(k)

AccessSpec == AccessInit /\ [][AccessNext]_accessVars

-----------------------------------------------------------------------------
\* The work of a route that is not open is done only for a credential that may ask
\* for it and that was good when it was looked up: the static key of the route, or
\* a key that had been neither revoked nor outlived when the request arrived ("rejected
\* immediately on every future use", README.md:341), of the route's role, and whose
\* scopes hold every namespace the request names.
RanWithAuthority ==
    \A s \in Slots : LET q == requests[s] IN
        (q # Absent /\ q.route.gate # "open" /\ q.ran) =>
            \/ q.cred # Absent /\ q.cred = StaticAdmin
            \/ q.cred # Absent /\ q.cred = StaticRead /\ q.route.gate = "read"
            \/ /\ q.cred \in RawKeys
               /\ ~q.dead
               /\ q.route.gate = "admin" => apiKeys[q.cred].role = "admin"
               /\ \/ apiKeys[q.cred].scopes = {Absent}
                  \/ q.namespaces \subseteq apiKeys[q.cred].scopes /\ q.route # MetricsRoute

\* What a window of fixed start lets through in any Window of time: what is left of
\* one and the whole of the next, of which the first request opened one.
LimitsHold ==
    \A f \in asked : \A t \in 0 .. time :
        Recent(f.event, t, {TRUE}) <= 2 * MaxOf[f.event.limiter] - 1

\* Who is told to slow down has asked too often himself: from his own address within
\* the window before, or with his own credential on the routes of that limiter, once
\* it had been accepted.  Wrong keys, other callers behind his proxy, and what another
\* process counted do not use up his budget.
RefusedForOwnTraffic ==
    \A s \in Slots : LET q == requests[s] IN
        (q # Absent /\ q.state = "answered" /\ q.code = "rate_limited") =>
            LET limiter == IF q.why = "flood" THEN "flood" ELSE q.route.limiter
                payer == IF q.why = "flood" THEN q.chain[2] ELSE Payer(q)
                own == [store |-> StoreOf(q.replica), limiter |-> limiter, payer |-> payer]
            IN  /\ Recent(own, q.answeredAt, BOOLEAN) > MaxOf[limiter]
                /\ (q.why = "limit" /\ q.route.gate # "open") => q.scopes # Absent

\* "1000 requests per rolling 60-second window per `request.ip`" (server.ts:1308-1309).
FloodWindowRolls ==
    \A f \in asked : \A t \in 0 .. time :
        f.event.limiter = "flood" => Recent(f.event, t, {TRUE}) <= MaxOf["flood"]
=============================================================================
