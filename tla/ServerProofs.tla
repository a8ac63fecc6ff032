---------------------------- MODULE ServerProofs ----------------------------
(***************************************************************************)
(* What one server process keeps in memory above the store, for any number *)
(* of actors: what the check cache may and may not answer, and what the    *)
(* streams of GET /watch give to their clients and keep for themselves.    *)
(***************************************************************************)
EXTENDS CheckCache, WatchFeed, NumberLemmas

\* The store that everything here is written to: its log is in order.
LEMMA ShapeInit == Init => StoreShape
BY DEF Init, StoreShape, Windows

\* A write appends one entry with a larger token.
LEMMA PerformExtends ==
    ASSUME StoreShape, Tokens \subseteq Nat,
           NEW r \in Requests, NEW t \in Tokens, Perform(r, t)
    PROVE  /\ StoreShape'
           /\ Len(history) \in Nat
           /\ Len(history') = Len(history) + 1
           /\ \A i \in 1..Len(history) : history'[i] = history[i] /\ history[i].token < t
           /\ history'[Len(history) + 1].token = t
<1> DEFINE e == Entry(rows, r, t)
<1>1. r.op \in Ops /\ r.fact \in Facts /\ r.expiresAt \in Expiries \cup {NoExpiry}
  BY DEF Requests
<1>2. e \in Entries /\ e.token = t
  BY <1>1 DEF Entry, Entries, Changes, Reported, StoreShape, Windows
<1>3. rows' \in [Facts -> Windows]
  BY <1>1 DEF Perform, Apply, Entry, StoreShape, Windows
<1>4. \A x \in Entries : x.token \in Nat
  BY DEF Entries
<1> HIDE DEF e
<1>5. /\ history \in Seq(Entries) /\ history' = Append(history, e)
      /\ \A i \in DOMAIN history : history[i].token < e.token
      /\ \A i, j \in 1..Len(history) : i < j => history[i].token < history[j].token
  BY <1>2 DEF Perform, StoreShape, e
<1>6. /\ history' \in Seq(Entries)
      /\ Len(history) \in Nat
      /\ Len(history') = Len(history) + 1
      /\ \A i \in 1..Len(history) : history'[i] = history[i] /\ history[i].token < e.token
      /\ history'[Len(history) + 1] = e
      /\ \A i, j \in 1..Len(history') : i < j => history'[i].token < history'[j].token
  BY <1>2, <1>4, <1>5, AppendAscends
<1> QED BY <1>2, <1>3, <1>6 DEF StoreShape

-----------------------------------------------------------------------------
(* The check cache. *)

\* No acknowledged write and no request's last item is beyond write_log.
WithinLog ==
    /\ acked <= Len(history)
    /\ \A q \in Writers : wrote[q] <= Len(history)

\* A result reflects write_log up to a point it has reached; pinned, up to one
\* that observes the token; and if it may be cached as an allow, then because
\* of a grant that never expires and no ban that is still live.
Sound(r, p) ==
    /\ r \in Results
    /\ r.upTo <= Len(history)
    /\ p # None => \E i \in 1..r.upTo : p <= history[i].token

Lasting(r) ==
    r.allowed => /\ \E f \in Grants : r.rows[f] = NoExpiry
                 /\ \A f \in Bans : ~Live(r.rows[f], now)

\* Whatever is cached has seen every acknowledged write.
Cached ==
    \A p \in Keys : store[p] # None =>
        Sound(store[p], p) /\ Lasting(store[p]) /\ acked <= store[p].upTo

\* So has what a check is about to cache, unless the epoch has moved on; and
\* its own answer has seen every write acknowledged before it started.
InFlight ==
    \A k \in Checks :
        /\ missEpoch[k] <= epoch
        /\ need[k] <= acked
        /\ kpc[k] = "hit" => Sound(result[k], key[k]) /\ need[k] <= result[k].upTo
        /\ kpc[k] = "walked" =>
             /\ Sound(result[k], key[k])
             /\ need[k] <= result[k].upTo
             /\ ~result[k].touched => Lasting(result[k])
             /\ missEpoch[k] = epoch => acked <= result[k].upTo

Told == \A k \in Checks : told[k] # None =>
            Sound(told[k].result, told[k].key) /\ told[k].need <= told[k].result.upTo

CacheInv == CacheTypeOK /\ StoreShape /\ WithinLog /\ Cached /\ InFlight /\ Told

-----------------------------------------------------------------------------
LEMMA CacheInvInit == CacheInit => CacheInv
<1> SUFFICES ASSUME CacheInit PROVE CacheInv
  OBVIOUS
<1> USE CacheAssumption DEF CacheInit, Init
<1>1. CacheTypeOK
  BY DEF CacheTypeOK, Keys
<1>2. StoreShape
  BY DEF StoreShape, Windows
<1>3. WithinLog /\ Cached /\ InFlight /\ Told
  BY DEF WithinLog, Cached, InFlight, Told
<1> QED BY <1>1, <1>2, <1>3 DEF CacheInv

\* A write appends one entry to write_log.
LEMMA CommitExtends ==
    ASSUME StoreShape, Commits
    PROVE  /\ StoreShape'
           /\ Len(history) \in Nat
           /\ Len(history') = Len(history) + 1
           /\ \A i \in 1..Len(history) : history'[i] = history[i]
<1>1. PICK r \in Requests, t \in Tokens : Perform(r, t)
  BY DEF Commits
<1>2. Tokens \subseteq Nat
  BY CacheAssumption
<1> QED BY <1>1, <1>2, PerformExtends

\* What was sound stays sound when write_log grows or stays.
LEMMA SoundStays ==
    ASSUME NEW r, NEW p, Sound(r, p),
           Len(history) \in Nat, Len(history') \in Nat, Len(history) <= Len(history'),
           \A i \in 1..Len(history) : history'[i] = history[i]
    PROVE  Sound(r, p)'
<1>1. r.upTo \in Nat
  BY DEF Sound, Results
<1> QED BY <1>1 DEF Sound

\* A step that changes neither the checks nor the cache, its epoch or the
\* acknowledgements keeps everything about them.
LEMMA LogGrows ==
    ASSUME CacheInv, StoreShape',
           Len(history) \in Nat, Len(history') \in Nat, Len(history) <= Len(history'),
           \A i \in 1..Len(history) : history'[i] = history[i],
           UNCHANGED <<now, epoch, store, checkVars, acked>>
    PROVE  Cached' /\ InFlight' /\ Told' /\ acked' <= Len(history')
<1>0. UNCHANGED <<now, epoch, store, kpc, key, missEpoch, result, need, told, acked>>
  BY DEF checkVars
<1>1. Cached'
  BY <1>0, SoundStays DEF CacheInv, Cached, Lasting
<1>2. InFlight'
  BY <1>0, SoundStays DEF CacheInv, InFlight, Lasting
<1>3. Told'
  BY <1>0, SoundStays DEF CacheInv, Told
<1>4. acked' <= Len(history')
  BY <1>0 DEF CacheInv, WithinLog, CacheTypeOK
<1> QED BY <1>1, <1>2, <1>3, <1>4

-----------------------------------------------------------------------------
\* What a walk reads now is sound, fresh, and lasting if it read nothing that
\* expires.
LEMMA WalkIsSound ==
    ASSUME CacheInv, NEW p \in Keys, p # None => Observed(p)
    PROVE  /\ Sound(Outcome, p)
           /\ Outcome.upTo = Len(history)
           /\ ~Outcome.touched => Lasting(Outcome)
<1>1. rows \in [Facts -> Windows] /\ history \in Seq(Entries) /\ Len(history) \in Nat
  BY DEF CacheInv, StoreShape
<1>2. Outcome \in Results /\ Outcome.upTo = Len(history) /\ Outcome.rows = rows
      /\ Outcome.allowed = Allowed(rows, now) /\ Outcome.touched = Touched(rows, now)
  BY <1>1 DEF Outcome, Results, Windows, Allowed, Touched
<1>3. Sound(Outcome, p)
  BY <1>1, <1>2 DEF Sound, Observed
<1>4. ASSUME ~Touched(rows, now), Allowed(rows, now)
      PROVE  /\ \E f \in Grants : rows[f] = NoExpiry
             /\ \A f \in Bans : ~Live(rows[f], now)
  BY <1>4 DEF Touched, Allowed
<1> QED BY <1>2, <1>3, <1>4 DEF Lasting

\* A check that ends keeps nothing of its own.
LEMMA EndKeeps ==
    ASSUME CacheInv, NEW k \in Checks, NEW answer, EndCheck(k, answer), Cached',
           store' \in [Keys -> Results \cup {None}],
           answer = None \/ /\ answer \in Answers
                            /\ Sound(answer.result, answer.key)
                            /\ answer.need <= answer.result.upTo
    PROVE  CacheInv'
<1> USE DEF CacheInv, EndCheck
<1>1. CacheTypeOK'
  BY DEF CacheTypeOK, Keys, writerVars
<1>2. StoreShape' /\ WithinLog'
  BY DEF StoreShape, WithinLog, writerVars
<1>3. InFlight'
  BY DEF InFlight, Sound, Lasting, writerVars, CacheTypeOK
<1>4. Told'
  BY DEF Told, Sound, CacheTypeOK
<1> QED BY <1>1, <1>2, <1>3, <1>4

\* A step of a check: what it reads, answers and caches is sound.
LEMMA CheckKeeps ==
    ASSUME CacheInv, NEW k \in Checks, CheckStep(k) PROVE CacheInv'
<1> USE DEF CacheInv
<1>1. ASSUME NEW p \in Keys, StartCheck(k, p) PROVE CacheInv'
  <2> USE <1>1 DEF StartCheck
  <2>1. CacheTypeOK'
    BY DEF CacheTypeOK, Keys, CacheKey, writerVars
  <2>2. StoreShape' /\ WithinLog' /\ Cached'
    BY DEF StoreShape, WithinLog, Cached, Sound, Lasting, writerVars
  <2>3. InFlight'
    <3>1. kpc'[k] = "hit" => Sound(store[p], p) /\ acked <= store[p].upTo
      BY DEF Cached, CacheKey, CacheTypeOK
    <3>2. /\ missEpoch'[k] = epoch /\ need'[k] = acked /\ key'[k] = p
          /\ result'[k] = store[p] /\ kpc'[k] # "walked"
          /\ epoch \in Nat /\ acked \in Nat
      BY DEF CacheKey, CacheTypeOK
    <3>3. \A j \in Checks \ {k} :
            /\ missEpoch'[j] = missEpoch[j] /\ need'[j] = need[j] /\ key'[j] = key[j]
            /\ result'[j] = result[j] /\ kpc'[j] = kpc[j]
      BY DEF CacheTypeOK
    <3> QED BY <3>1, <3>2, <3>3 DEF InFlight, Sound, Lasting, writerVars
  <2>4. Told'
    BY DEF Told, Sound, CacheTypeOK
  <2> QED BY <2>1, <2>2, <2>3, <2>4
<1>2. CASE Walk(k)
  <2> USE <1>2 DEF Walk
  <2>1. /\ Sound(Outcome, key[k])
        /\ Outcome.upTo = Len(history)
        /\ ~Outcome.touched => Lasting(Outcome)
    BY WalkIsSound DEF CacheTypeOK
  <2>2. CacheTypeOK'
    BY <2>1 DEF CacheTypeOK, Sound, writerVars
  <2>3. StoreShape' /\ WithinLog' /\ Cached' /\ Told'
    BY DEF StoreShape, WithinLog, Cached, Told, Sound, Lasting, writerVars
  <2>4. InFlight'
    <3>1. result'[k] = Outcome /\ kpc'[k] = "walked"
          /\ \A j \in Checks \ {k} : result'[j] = result[j] /\ kpc'[j] = kpc[j]
      BY DEF CacheTypeOK
    <3>2. need[k] <= acked /\ acked <= Len(history) /\ need[k] \in Nat /\ acked \in Nat
          /\ Len(history) \in Nat
      BY DEF InFlight, WithinLog, CacheTypeOK, StoreShape
    <3>3. need[k] <= Outcome.upTo /\ acked <= Outcome.upTo
      BY <2>1, <3>2
    <3> HIDE DEF Walk
    <3>4. UNCHANGED <<history, now, epoch, key, missEpoch, need, acked>>
      BY DEF Walk, writerVars
    <3> QED BY <2>1, <3>1, <3>3, <3>4 DEF InFlight, Sound, Lasting
  <2> QED BY <2>2, <2>3, <2>4
<1>3. CASE AuditedHit(k)
  <2>1. result[k] \in Results /\ Sound(result[k], key[k]) /\ need[k] <= result[k].upTo
    BY <1>3 DEF AuditedHit, InFlight, Sound
  <2>2. Answer(k) \in Answers /\ Answer(k).result = result[k] /\ Answer(k).key = key[k]
        /\ Answer(k).need = need[k]
    BY <2>1 DEF Answer, Answers, CacheTypeOK
  <2>3. Cached' /\ store' \in [Keys -> Results \cup {None}]
    BY <1>3 DEF AuditedHit, EndCheck, Cached, Sound, Lasting, writerVars, CacheTypeOK
  <2> QED BY <1>3, <2>1, <2>2, <2>3, EndKeeps DEF AuditedHit
<1>4. CASE AuditedMiss(k)
  <2>1. /\ result[k] \in Results /\ Sound(result[k], key[k]) /\ need[k] <= result[k].upTo
        /\ ~result[k].touched => Lasting(result[k])
        /\ missEpoch[k] = epoch => acked <= result[k].upTo
    BY <1>4 DEF AuditedMiss, InFlight, Sound
  <2>2. Answer(k) \in Answers /\ Answer(k).result = result[k] /\ Answer(k).key = key[k]
        /\ Answer(k).need = need[k]
    BY <2>1 DEF Answer, Answers, CacheTypeOK
  <2>3. store' = store
        \/ /\ store' = [store EXCEPT ![key[k]] = result[k]]
           /\ missEpoch[k] = epoch
           /\ Lasting(result[k])
    BY <1>4, <2>1 DEF AuditedMiss, TrySet, CacheKey, Lasting
  <2>4. Cached' /\ store' \in [Keys -> Results \cup {None}]
    <3>1. UNCHANGED <<history, now, acked>>
      BY <1>4 DEF AuditedMiss, EndCheck, writerVars
    <3>2. store' \in [Keys -> Results \cup {None}]
      BY <2>1, <2>3 DEF CacheTypeOK
    <3>3. CASE store' = store
      BY <3>1, <3>2, <3>3 DEF Cached, Sound, Lasting
    <3>4. CASE /\ store' = [store EXCEPT ![key[k]] = result[k]]
               /\ missEpoch[k] = epoch
               /\ Lasting(result[k])
      <4>1. /\ store'[key[k]] = result[k]
            /\ \A p \in Keys \ {key[k]} : store'[p] = store[p]
        BY <3>4 DEF CacheTypeOK
      <4> QED BY <2>1, <3>1, <3>2, <3>4, <4>1 DEF Cached, Sound, Lasting
    <3> QED BY <2>3, <3>2, <3>3, <3>4
  <2> QED BY <1>4, <2>1, <2>2, <2>4, EndKeeps DEF AuditedMiss
<1>5. CASE CheckThrows(k)
  <2>1. Cached' /\ store' \in [Keys -> Results \cup {None}]
    BY <1>5 DEF CheckThrows, EndCheck, Cached, Sound, Lasting, writerVars, CacheTypeOK
  <2> QED BY <1>5, <2>1, EndKeeps DEF CheckThrows
<1> QED BY <1>1, <1>2, <1>3, <1>4, <1>5 DEF CheckStep

-----------------------------------------------------------------------------
\* An item less to wait for.
LEMMA OneLess ==
    ASSUME left \in [Writers -> 0..BatchSize], NEW q \in Writers, left[q] > 0,
           left' = [left EXCEPT ![q] = @ - 1]
    PROVE  left' \in [Writers -> 0..BatchSize]
<1>1. left[q] - 1 \in 0..BatchSize
  BY CacheAssumption
<1> QED BY <1>1

\* A step of a write request: the log grows behind the results, and a response
\* goes out together with the clear.
LEMMA WriterKeeps ==
    ASSUME CacheInv, NEW q \in Writers, WriterStep(q) PROVE CacheInv'
<1> USE DEF CacheInv
<1>0. Len(history) \in Nat
  BY DEF StoreShape
<1>1. ASSUME UNCHANGED <<rows, history, now, epoch, store, checkVars, acked>>,
             CacheTypeOK', \A p \in Writers : wrote'[p] <= Len(history)
      PROVE  CacheInv'
  <2>1. StoreShape' /\ WithinLog'
    BY <1>1 DEF StoreShape, WithinLog
  <2> QED BY <1>0, <1>1, <2>1, LogGrows
<1>2. CASE \E n \in 1..BatchSize : StartWrite(q, n)
  BY <1>1, <1>2, CacheAssumption DEF StartWrite, CacheTypeOK, checkVars, WithinLog
<1>3. CASE ItemCommits(q)
  <2>1. /\ StoreShape' /\ Len(history') = Len(history) + 1
        /\ \A i \in 1..Len(history) : history'[i] = history[i]
    BY <1>3, CommitExtends DEF ItemCommits
  <2>2. CacheTypeOK'
    <3>1. left' \in [Writers -> 0..BatchSize]
      BY <1>3, OneLess DEF ItemCommits, CacheTypeOK
    <3>2. wrote' \in [Writers -> Nat] /\ succeeded' \in Nat
      BY <1>0, <1>3, <2>1 DEF ItemCommits, CacheTypeOK
    <3> QED BY <1>3, <3>1, <3>2 DEF ItemCommits, CacheTypeOK, checkVars
  <2>3. UNCHANGED <<now, epoch, store, checkVars, acked>>
    BY <1>3 DEF ItemCommits
  <2>4. Cached' /\ InFlight' /\ Told' /\ acked' <= Len(history')
    BY <1>0, <2>1, <2>3, LogGrows
  <2>5. \A p \in Writers : wrote'[p] <= Len(history')
    BY <1>0, <1>3, <2>1 DEF ItemCommits, WithinLog, CacheTypeOK
  <2> QED BY <2>1, <2>2, <2>4, <2>5 DEF WithinLog
<1>4. CASE ItemRejected(q)
  <2>1. CacheTypeOK'
    <3>1. left' \in [Writers -> 0..BatchSize]
      BY <1>4, OneLess DEF ItemRejected, CacheTypeOK
    <3> QED BY <1>4, <3>1 DEF ItemRejected, CacheTypeOK, checkVars
  <2>2. UNCHANGED <<rows, history, now, epoch, store, checkVars, wrote, acked>>
    BY <1>4 DEF ItemRejected
  <2> QED BY <1>1, <2>1, <2>2 DEF WithinLog
<1>5. CASE ItemThrows(q)
  <2>1. CacheTypeOK'
    <3>1. left' \in [Writers -> 0..BatchSize]
      BY <1>5, OneLess DEF ItemThrows, CacheTypeOK
    <3>2. wpc' \in [Writers -> {"idle", "running", "failed"}] /\ succeeded' \in Nat
      BY <1>5 DEF ItemThrows, CacheTypeOK, Later
    <3> QED BY <1>5, <3>1, <3>2 DEF ItemThrows, CacheTypeOK, checkVars
  <2>2. UNCHANGED <<now, epoch, store, checkVars, wrote, acked>>
    BY <1>5 DEF ItemThrows
  <2>3. CASE UNCHANGED <<rows, history>>
    BY <1>1, <2>1, <2>2, <2>3 DEF WithinLog
  <2>4. CASE Commits
    <3>1. /\ StoreShape' /\ Len(history') = Len(history) + 1
          /\ \A i \in 1..Len(history) : history'[i] = history[i]
      BY <2>4, CommitExtends
    <3>2. Cached' /\ InFlight' /\ Told' /\ acked' <= Len(history')
      BY <1>0, <2>2, <3>1, LogGrows
    <3>3. \A p \in Writers : wrote'[p] <= Len(history')
      BY <1>0, <2>2, <3>1 DEF WithinLog, CacheTypeOK
    <3> QED BY <2>1, <3>1, <3>2, <3>3 DEF WithinLog
  <2> QED BY <1>5, <2>3, <2>4 DEF ItemThrows
<1>6. CASE Acknowledge(q) /\ wrote[q] = 0
  <2>1. acked' = acked /\ succeeded' = succeeded
    BY <1>6 DEF Acknowledge, Later, CacheTypeOK
  <2> QED BY <1>0, <1>1, <1>6, <2>1 DEF Acknowledge, CacheTypeOK, checkVars, WithinLog
<1>7. CASE Acknowledge(q) /\ wrote[q] # 0
  <2>1. epoch' = epoch + 1 /\ store' = [p \in Keys |-> None]
    BY <1>7 DEF Acknowledge, Clear
  <2>2. acked' = Later(acked, wrote[q]) /\ succeeded' = Later(succeeded, wrote[q])
        /\ wrote' = [wrote EXCEPT ![q] = 0] /\ wpc' = [wpc EXCEPT ![q] = "idle"]
        /\ UNCHANGED <<rows, history, now, kpc, key, missEpoch, result, need, told, left>>
    BY <1>7 DEF Acknowledge, checkVars
  <2>3. /\ acked' \in Nat /\ acked <= acked' /\ acked' <= Len(history)
        /\ acked \in Nat /\ epoch \in Nat /\ succeeded' \in Nat
    BY <1>0, <2>2 DEF CacheTypeOK, WithinLog, Later
  <2>4. CacheTypeOK'
    BY <2>1, <2>2, <2>3 DEF CacheTypeOK
  <2>5. StoreShape' /\ WithinLog'
    BY <1>0, <2>2, <2>3 DEF StoreShape, WithinLog, CacheTypeOK
  <2>6. Cached' /\ Told'
    BY <2>1, <2>2 DEF Cached, Told, Sound
  <2>7. InFlight'
    <3>1. \A k \in Checks : /\ missEpoch[k] <= epoch' /\ missEpoch[k] # epoch'
                            /\ need[k] <= acked'
      BY <2>1, <2>3 DEF InFlight, CacheTypeOK
    <3> QED BY <2>2, <3>1 DEF InFlight, Sound, Lasting
  <2> QED BY <2>4, <2>5, <2>6, <2>7
<1>8. CASE Abandon(q)
  BY <1>0, <1>1, <1>8 DEF Abandon, CacheTypeOK, checkVars, WithinLog
<1> QED BY <1>2, <1>3, <1>4, <1>5, <1>6, <1>7, <1>8 DEF WriterStep

\* An eviction, a write through another process, the clock, or nothing.
LEMMA OthersKeep ==
    ASSUME CacheInv,
           \/ \E p \in Keys : Evict(p)
           \/ ForeignWrite
           \/ Tick
           \/ UNCHANGED cacheVars
    PROVE  CacheInv'
<1> USE DEF CacheInv
<1>0. Len(history) \in Nat
  BY DEF StoreShape
<1>1. ASSUME NEW p \in Keys, Evict(p) PROVE CacheInv'
  <2> USE <1>1 DEF Evict
  <2>1. CacheTypeOK'
    BY DEF CacheTypeOK, checkVars, writerVars
  <2>2. StoreShape' /\ WithinLog' /\ InFlight' /\ Told'
    BY DEF StoreShape, WithinLog, InFlight, Told, Sound, Lasting, checkVars, writerVars
  <2>3. \A j \in Keys : store'[j] = None \/ store'[j] = store[j]
    BY DEF CacheTypeOK
  <2>4. Cached'
    BY <2>3 DEF Cached, Sound, Lasting, writerVars
  <2> QED BY <2>1, <2>2, <2>4
<1>2. CASE ForeignWrite
  <2>1. UNCHANGED <<now, epoch, store, checkVars, writerVars, acked, wrote>>
    BY <1>2 DEF ForeignWrite, writerVars
  <2>2. /\ StoreShape' /\ Len(history') = Len(history) + 1
        /\ \A i \in 1..Len(history) : history'[i] = history[i]
    BY <1>2, CommitExtends DEF ForeignWrite
  <2>3. Cached' /\ InFlight' /\ Told' /\ acked' <= Len(history')
    BY <1>0, <2>1, <2>2, LogGrows
  <2>4. CacheTypeOK'
    BY <2>1 DEF CacheTypeOK, checkVars, writerVars
  <2>5. \A p \in Writers : wrote'[p] <= Len(history')
    BY <1>0, <2>1, <2>2 DEF WithinLog, CacheTypeOK
  <2> QED BY <2>2, <2>3, <2>4, <2>5 DEF WithinLog
<1>3. CASE Tick
  <2> USE <1>3 DEF Tick
  <2>1. CacheTypeOK'
    BY CacheAssumption DEF CacheTypeOK, checkVars, writerVars
  <2>2. StoreShape' /\ WithinLog' /\ Told'
    BY DEF StoreShape, WithinLog, Told, Sound, checkVars, writerVars
  <2>3. ASSUME NEW r \in Results, Lasting(r) PROVE Lasting(r)'
    <3>1. \A f \in Bans : r.rows[f] \in Windows
      BY CacheAssumption DEF Results, Windows
    <3>2. now \in Nat /\ now' = now + 1
      BY CacheAssumption DEF CacheTypeOK
    <3>3. ASSUME NEW w \in Windows, Live(w, now') PROVE Live(w, now)
      <4>1. CASE w \in Expiries
        <5>1. w \in Nat
          BY <4>1, CacheAssumption
        <5> QED BY <3>2, <3>3, <5>1 DEF Live
      <4>2. CASE w \in {NoExpiry, None}
        BY <3>3, <4>2 DEF Live
      <4> QED BY <4>1, <4>2 DEF Windows
    <3> QED BY <2>3, <3>1, <3>3 DEF Lasting
  <2>4. Cached'
    BY <2>3 DEF Cached, Sound, checkVars, writerVars
  <2>5. InFlight'
    BY <2>3 DEF InFlight, Sound, checkVars, writerVars
  <2> QED BY <2>1, <2>2, <2>4, <2>5
<1>4. CASE UNCHANGED cacheVars
  BY <1>4 DEF cacheVars, checkVars, writerVars, CacheTypeOK, StoreShape, WithinLog, Cached,
              InFlight, Told, Sound, Lasting
<1> QED BY <1>1, <1>2, <1>3, <1>4

LEMMA CacheInvariance == CacheSpec => []CacheInv
<1>1. CacheInv /\ [CacheNext]_cacheVars => CacheInv'
  BY CheckKeeps, WriterKeeps, OthersKeep DEF CacheNext
<1> QED BY <1>1, CacheInvInit, PTL DEF CacheSpec

-----------------------------------------------------------------------------
\* The type invariant of the cache and its callers.
THEOREM CacheTypeCorrect == CacheSpec => []CacheTypeOK
BY CacheInvariance, PTL DEF CacheInv

\* The epoch fence: no check that starts after the response to a write through
\* the same server answers, hit or miss, from a state without that write.
THEOREM WritesAreSeen == CacheSpec => []AcknowledgedWritesAreSeen
<1>1. CacheInv => AcknowledgedWritesAreSeen
  BY DEF CacheInv, Told, AcknowledgedWritesAreSeen
<1> QED BY <1>1, CacheInvariance, PTL

\* The consistency-token guarantee survives the cache.
THEOREM PinnedThroughCache == CacheSpec => []PinnedAnswersCoverToken
<1>1. ASSUME CacheInv PROVE PinnedAnswersCoverToken
  <2> SUFFICES ASSUME NEW k \in Checks, told[k] # None, told[k].key # None,
                      NEW i \in DOMAIN history, history[i].token <= told[k].key
               PROVE  i <= told[k].result.upTo
    BY DEF PinnedAnswersCoverToken
  <2> USE <1>1 DEF CacheInv
  <2>1. told[k] \in Answers /\ Sound(told[k].result, told[k].key)
    BY DEF CacheTypeOK, Told
  <2>2. told[k].result.upTo \in Nat /\ told[k].key \in Nat
    BY <2>1, CacheAssumption DEF Answers, Results, Keys
  <2>3. PICK j \in 1..told[k].result.upTo : told[k].key <= history[j].token
    BY <2>1 DEF Sound
  <2>4. i \in 1..Len(history) /\ j \in 1..Len(history) /\ told[k].result.upTo <= Len(history)
    BY <2>1, <2>2 DEF StoreShape, Sound
  <2>5. history[i].token \in Nat /\ history[j].token \in Nat
    <3>1. history[i] \in Entries /\ history[j] \in Entries
      BY <2>4 DEF StoreShape
    <3> QED BY <3>1, CacheAssumption DEF Entries
  <2>6. ~(j < i)
    BY <2>2, <2>3, <2>4, <2>5 DEF StoreShape
  <2> QED BY <2>2, <2>4, <2>6
<1> QED BY <1>1, CacheInvariance, PTL

\* No cached allow is ever taken away by the clock alone.
THEOREM AllowsLast == CacheSpec => []AllowOutlivesNoTuple
<1>1. ASSUME CacheInv PROVE AllowOutlivesNoTuple
  <2> SUFFICES ASSUME NEW p \in Keys, store[p] # None, store[p].allowed
               PROVE  Allowed(store[p].rows, now)
    BY DEF AllowOutlivesNoTuple
  <2>1. Lasting(store[p])
    BY <1>1 DEF CacheInv, Cached
  <2> QED BY <2>1, CacheAssumption DEF Lasting, Allowed, Live
<1> QED BY <1>1, CacheInvariance, PTL

-----------------------------------------------------------------------------
(* A finite set of numbers in ascending order. *)

Ascends(s) == \A i, j \in DOMAIN s : i < j => s[i] < s[j]
Orders(s, S) == s \in [1..Cardinality(S) -> S] /\ Ascends(s) /\ \A x \in S : \E i \in DOMAIN s : s[i] = x

\* A greatest element goes last.
LEMMA LastInOrder ==
    ASSUME NEW S, S \subseteq Nat, IsFiniteSet(S), NEW m \in S, \A x \in S : x <= m,
           NEW s, Orders(s, S \ {m})
    PROVE  \E r : Orders(r, S)
<1> DEFINE n == Cardinality(S)
           r == [i \in 1..n |-> IF i = n THEN m ELSE s[i]]
<1>1. n \in Nat /\ n # 0 /\ Cardinality(S \ {m}) = n - 1
  BY FS_CardinalityType, FS_EmptySet, FS_RemoveElement
<1> HIDE DEF n
<1>2. DOMAIN s = 1..(n - 1) /\ \A i \in 1..(n - 1) : s[i] \in S /\ s[i] # m
  BY <1>1 DEF Orders
<1>3. r \in [1..n -> S] /\ DOMAIN r = 1..n
  <2>1. \A i \in 1..n : i # n => i \in 1..(n - 1)
    BY <1>1
  <2> QED BY <1>2, <2>1
<1>4. Ascends(r)
  <2> SUFFICES ASSUME NEW i \in 1..n, NEW j \in 1..n, i < j PROVE r[i] < r[j]
    BY <1>3 DEF Ascends
  <2>1. i \in 1..(n - 1) /\ r[i] = s[i] /\ s[i] \in S /\ s[i] # m
    BY <1>1, <1>2
  <2>2. CASE j = n
    <3>1. s[i] \in Nat /\ m \in Nat /\ s[i] <= m
      BY <2>1
    <3>2. r[j] = m
      BY <2>2
    <3> HIDE DEF r
    <3> QED BY <2>1, <3>1, <3>2
  <2>3. CASE j # n
    <3>1. j \in 1..(n - 1) /\ r[j] = s[j]
      BY <1>1, <2>3
    <3> QED BY <1>2, <2>1, <3>1 DEF Orders, Ascends
  <2> QED BY <2>2, <2>3
<1>5. ASSUME NEW x \in S PROVE \E i \in DOMAIN r : r[i] = x
  <2>1. CASE x = m
    <3>1. n \in 1..n /\ r[n] = m
      BY <1>1
    <3> QED BY <1>3, <2>1, <3>1
  <2>2. CASE x # m
    <3>1. PICK i \in DOMAIN s : s[i] = x
      BY <2>2 DEF Orders
    <3>2. i \in 1..n /\ r[i] = s[i]
      BY <1>1, <1>2, <3>1
    <3> QED BY <1>3, <3>1, <3>2
  <2> QED BY <2>1, <2>2
<1>6. r \in [1..Cardinality(S) -> S]
  BY <1>3 DEF n
<1> HIDE DEF r
<1> QED BY <1>4, <1>5, <1>6 DEF Orders

LEMMA HasAnOrder ==
    ASSUME NEW S, S \subseteq Nat, IsFiniteSet(S)
    PROVE  \E s : Orders(s, S)
<1> DEFINE Bad == { U \in SUBSET S : ~ \E s : Orders(s, U) }
           Sizes == { Cardinality(U) : U \in Bad }
<1>1. \A U \in SUBSET S : IsFiniteSet(U) /\ Cardinality(U) \in Nat
  BY FS_Subset, FS_CardinalityType
<1>2. SUFFICES ASSUME S \in Bad PROVE FALSE
  OBVIOUS
<1>3. PICK k \in Sizes : \A j \in Sizes : k <= j
  <2>1. Sizes \subseteq Nat /\ Sizes # {}
    BY <1>1, <1>2
  <2> HIDE DEF Sizes
  <2> QED BY <2>1, LeastNumber
<1>4. PICK U \in Bad : Cardinality(U) = k
  OBVIOUS
<1>5. U # {}
  <2>1. SUFFICES ASSUME U = {} PROVE FALSE
    OBVIOUS
  <2>2. Cardinality(U) = 0 /\ 1..0 = {}
    BY <2>1, FS_EmptySet
  <2>3. << >> \in [1..Cardinality(U) -> U] /\ DOMAIN << >> = {}
    BY <2>2
  <2>4. Orders(<< >>, U)
    BY <2>1, <2>3 DEF Orders, Ascends
  <2> QED BY <1>4, <2>4
<1>6. PICK m \in U : \A x \in U : x <= m
  <2>1. U \subseteq Nat /\ IsFiniteSet(U)
    BY <1>1, <1>4
  <2>2. PICK b \in Nat : \A x \in U : x <= b
    BY <2>1, FiniteIsBounded
  <2> QED BY <1>5, <2>1, <2>2, GreatestNumber
<1>7. Cardinality(U \ {m}) = Cardinality(U) - 1 /\ U \subseteq Nat /\ IsFiniteSet(U)
  BY <1>1, <1>4, <1>6, FS_RemoveElement
<1>8. U \ {m} \notin Bad
  <2>1. SUFFICES ASSUME U \ {m} \in Bad PROVE FALSE
    OBVIOUS
  <2>2. Cardinality(U \ {m}) \in Sizes /\ k \in Nat
    BY <1>1, <1>4, <2>1
  <2> HIDE DEF Sizes, Bad
  <2> QED BY <1>3, <1>4, <1>7, <2>2
<1>9. PICK s : Orders(s, U \ {m})
  BY <1>4, <1>8
<1>10. \E r : Orders(r, U)
  BY <1>6, <1>7, <1>9, LastInOrder
<1> QED BY <1>4, <1>10

\* An enumeration of a finite set by as many numbers as it has elements misses none.
LEMMA AscendsOnto ==
    ASSUME NEW S, S \subseteq Nat, IsFiniteSet(S), NEW s \in [1..Cardinality(S) -> S], Ascends(s)
    PROVE  Orders(s, S)
<1>1. Cardinality(S) \in Nat
  BY FS_CardinalityType
<1>2. s \in Injection(1..Cardinality(S), S)
  <2> SUFFICES ASSUME NEW i \in 1..Cardinality(S), NEW j \in 1..Cardinality(S), s[i] = s[j]
               PROVE  i = j
    BY DEF Injection, IsInjective
  <2>1. s[i] \in Nat /\ s[j] \in Nat
    OBVIOUS
  <2>2. ~(i < j) /\ ~(j < i)
    BY <2>1 DEF Ascends
  <2> QED BY <1>1, <2>2
<1>3. s \in Surjection(1..Cardinality(S), S)
  <2>1. IsFiniteSet(1..Cardinality(S)) /\ Cardinality(1..Cardinality(S)) = Cardinality(S)
    BY <1>1, FS_Interval
  <2> QED BY <1>2, <2>1, FS_Injection
<1> QED BY <1>3 DEF Orders, Surjection

LEMMA AscendingOrders ==
    ASSUME NEW S, S \subseteq Nat, IsFiniteSet(S)
    PROVE  Orders(Ascending(S), S)
<1>1. PICK s : Orders(s, S)
  BY HasAnOrder
<1>2. s \in [1..Cardinality(S) -> S] /\ \A i, j \in DOMAIN s : i < j => s[i] < s[j]
  BY <1>1 DEF Orders, Ascends
<1>3. /\ Ascending(S) \in [1..Cardinality(S) -> S]
      /\ Ascends(Ascending(S))
  BY <1>2 DEF Ascending, Ascends
<1> QED BY <1>3, AscendsOnto

-----------------------------------------------------------------------------
(* What a stream owes its client. *)

Logs == { g \in Seq(Entries) : \A i, j \in 1..Len(g) : i < j => g[i].token < g[j].token }

\* What write_log g owes a stream whose cursor is c.
DueIn(g, c) ==
    { g[i].token : i \in { i \in 1..Len(g) : g[i].token > c /\ g[i].fact \in Scope } }

\* t is the first token owed after c.
Follows(g, c, t) == t \in DueIn(g, c) /\ \A u \in DueIn(g, c) : t <= u

\* The tokens of s follow one another from c on.
Run(g, c, s) == \A i \in DOMAIN s : Follows(g, IF i = 1 THEN c ELSE s[i - 1], s[i])

\* The frames of ws follow one another from m on: at most one connected frame,
\* the first, and it repeats m if the client knows where it is.
FramesRun(g, m, ws) ==
    \A i \in DOMAIN ws :
        IF ws[i].event THEN Follows(g, IF i = 1 THEN m ELSE ws[i - 1].token, ws[i].token)
                            /\ (i = 1 => m # None)
                       ELSE i = 1 /\ (m # None => ws[i].token = m)

LEMMA WiderSeq ==
    ASSUME NEW S, NEW T, S \subseteq T, NEW s \in Seq(S)
    PROVE  s \in Seq(T)
<1>1. Len(s) \in Nat /\ s \in [1..Len(s) -> S]
  OBVIOUS
<1>2. s \in [1..Len(s) -> T]
  BY <1>1
<1> QED BY <1>1, <1>2

LEMMA LogTokens ==
    ASSUME NEW g \in Logs
    PROVE  \A i \in 1..Len(g) : g[i] \in Entries /\ g[i].token \in Tokens /\ g[i].token \in Nat
<1> SUFFICES ASSUME NEW i \in 1..Len(g)
             PROVE  g[i] \in Entries /\ g[i].token \in Tokens /\ g[i].token \in Nat
  OBVIOUS
<1>1. g[i] \in Entries
  BY DEF Logs
<1>2. g[i].token \in Tokens
  BY <1>1 DEF Entries
<1> QED BY <1>1, <1>2, WatchAssumption

LEMMA DueNumbers ==
    ASSUME NEW g \in Logs, NEW c \in Nat
    PROVE  /\ DueIn(g, c) \subseteq Tokens /\ DueIn(g, c) \subseteq Nat
           /\ \A t \in DueIn(g, c) : t > c
           /\ IsFiniteSet(DueIn(g, c))
<1>1. \A i \in 1..Len(g) : g[i].token \in Tokens /\ g[i].token \in Nat
  BY LogTokens
<1>2. DueIn(g, c) \subseteq Tokens /\ DueIn(g, c) \subseteq Nat /\ \A t \in DueIn(g, c) : t > c
  BY <1>1 DEF DueIn
<1>3. IsFiniteSet(DueIn(g, c))
  <2>1. Len(g) \in Nat
    BY DEF Logs
  <2>2. CASE Len(g) = 0
    <3>1. DueIn(g, c) = {}
      BY <2>2 DEF DueIn
    <3> QED BY <3>1, FS_EmptySet
  <2>3. CASE Len(g) # 0
    <3>1. Len(g) \in 1..Len(g) /\ g[Len(g)].token \in Nat
      BY <1>1, <2>1, <2>3
    <3>2. \A i \in 1..Len(g) : g[i].token <= g[Len(g)].token
      <4> SUFFICES ASSUME NEW i \in 1..Len(g) PROVE g[i].token <= g[Len(g)].token
        OBVIOUS
      <4>1. CASE i = Len(g)
        BY <3>1, <4>1
      <4>2. CASE i < Len(g)
        <5>1. g[i].token < g[Len(g)].token
          BY <3>1, <4>2 DEF Logs
        <5> QED BY <1>1, <3>1, <5>1
      <4> QED BY <2>1, <4>1, <4>2
    <3>3. \A t \in DueIn(g, c) : t <= g[Len(g)].token
      BY <3>2 DEF DueIn
    <3> QED BY <1>2, <3>1, <3>3, FS_BoundedSetOfNaturals
  <2> QED BY <2>2, <2>3
<1> QED BY <1>2, <1>3

\* What is owed after t is what is owed after c and later than t.
LEMMA DueLater ==
    ASSUME NEW g \in Logs, NEW c \in Nat, NEW t \in Nat, c <= t
    PROVE  \A u : u \in DueIn(g, t) <=> u \in DueIn(g, c) /\ u > t
<1>1. \A i \in 1..Len(g) : g[i].token \in Nat
  BY LogTokens
<1> QED BY <1>1 DEF DueIn

\* A later write changes nothing about what comes first.
LEMMA FollowsStays ==
    ASSUME NEW g \in Logs, NEW e \in Entries, \A i \in 1..Len(g) : g[i].token < e.token,
           NEW c, NEW t, Follows(g, c, t)
    PROVE  Follows(Append(g, e), c, t)
<1> DEFINE h == Append(g, e)
<1>1. /\ g \in Seq(Entries) /\ Len(g) \in Nat /\ Len(h) = Len(g) + 1
      /\ \A i \in 1..Len(g) : h[i] = g[i]
      /\ h[Len(g) + 1] = e
  BY DEF Logs
<1> HIDE DEF h
<1>2. t \in DueIn(h, c)
  <2>1. PICK i \in 1..Len(g) : g[i].token = t /\ g[i].token > c /\ g[i].fact \in Scope
    BY DEF Follows, DueIn
  <2>2. i \in 1..Len(h)
    BY <1>1
  <2> QED BY <1>1, <2>1, <2>2 DEF DueIn
<1>3. ASSUME NEW u \in DueIn(h, c) PROVE t <= u
  <2>1. PICK i \in 1..Len(h) : h[i].token = u /\ h[i].token > c /\ h[i].fact \in Scope
    BY DEF DueIn
  <2>2. CASE i \in 1..Len(g)
    <3>1. u \in DueIn(g, c)
      BY <1>1, <2>1, <2>2 DEF DueIn
    <3> QED BY <3>1 DEF Follows
  <2>3. CASE i = Len(g) + 1
    <3>1. PICK j \in 1..Len(g) : g[j].token = t
      BY DEF Follows, DueIn
    <3>2. t < u
      BY <1>1, <2>1, <2>3, <3>1
    <3>3. e.token \in Tokens
      BY DEF Entries
    <3>4. t \in Nat /\ u \in Nat
      BY <1>1, <2>1, <2>3, <3>1, <3>3, LogTokens, WatchAssumption
    <3> QED BY <3>2, <3>4
  <2> QED BY <1>1, <2>2, <2>3
<1> QED BY <1>2, <1>3 DEF h, Follows

\* The first tokens owed, in ascending order, follow one another.
LEMMA FetchedRun ==
    ASSUME NEW g \in Logs, NEW c \in Nat
    PROVE  LET b == FirstOf(Ascending(DueIn(g, c)))
           IN  b \in Seq(Tokens) /\ Len(b) <= BatchLimit /\ Run(g, c, b)
<1> DEFINE D == DueIn(g, c)
           s == Ascending(D)
           n == IF Len(s) < BatchLimit THEN Len(s) ELSE BatchLimit
           b == FirstOf(s)
<1>1. D \subseteq Nat /\ D \subseteq Tokens /\ IsFiniteSet(D) /\ \A t \in D : t > c
  BY DueNumbers
<1> HIDE DEF D
<1>2. Orders(s, D) /\ Cardinality(D) \in Nat
  BY <1>1, AscendingOrders, FS_CardinalityType
<1> HIDE DEF s
<1>3. s \in [1..Cardinality(D) -> D] /\ Ascends(s) /\ \A x \in D : \E i \in DOMAIN s : s[i] = x
  BY <1>2 DEF Orders
<1>4. s \in Seq(D) /\ Len(s) = Cardinality(D) /\ DOMAIN s = 1..Len(s) /\ Len(s) \in Nat
  BY <1>2, <1>3
<1>5. n \in 0..Len(s) /\ n \in Nat /\ n <= BatchLimit /\ b = SubSeq(s, 1, n)
  BY <1>4, WatchAssumption DEF FirstOf
<1> HIDE DEF n, b
<1>6. Len(b) = n /\ DOMAIN b = 1..n /\ b \in Seq(D) /\ \A i \in 1..n : b[i] = s[i]
  BY <1>4, <1>5
<1>7. ASSUME NEW i \in 1..n PROVE Follows(g, IF i = 1 THEN c ELSE b[i - 1], b[i])
  <2>0. i \in DOMAIN s
    BY <1>4, <1>5
  <2>1. i \in DOMAIN s /\ b[i] = s[i] /\ s[i] \in D /\ s[i] \in Nat
    BY <1>1, <1>3, <1>6, <2>0
  <2>2. CASE i = 1
    <3>1. \A u \in D : s[1] <= u
      <4> SUFFICES ASSUME NEW u \in D PROVE s[1] <= u
        OBVIOUS
      <4>1. PICK j \in DOMAIN s : s[j] = u
        BY <1>3
      <4>2. j = 1 \/ 1 < j
        BY <1>4
      <4>3. s[1] \in Nat /\ 1 \in DOMAIN s
        BY <2>1, <2>2
      <4>4. CASE j = 1
        BY <4>1, <4>3, <4>4
      <4>5. CASE 1 < j
        <5>1. s[1] < s[j] /\ s[j] \in Nat
          BY <1>1, <1>3, <4>1, <4>3, <4>5 DEF Ascends
        <5> QED BY <4>1, <4>3, <5>1
      <4> QED BY <4>2, <4>4, <4>5
    <3> QED BY <2>1, <2>2, <3>1 DEF Follows, D
  <2>3. CASE i # 1
    <3>1. i - 1 \in 1..n /\ i - 1 \in DOMAIN s /\ b[i - 1] = s[i - 1] /\ s[i - 1] \in D
      BY <1>3, <1>4, <1>5, <1>6, <2>3
    <3>2. s[i - 1] \in Nat /\ c <= s[i - 1]
      <4>1. \A t \in D : t \in Nat /\ c <= t
        BY <1>1
      <4> QED BY <3>1, <4>1
    <3>3. s[i - 1] < s[i]
      <4>1. i - 1 < i
        OBVIOUS
      <4> QED BY <1>3, <2>1, <3>1, <4>1 DEF Ascends
    <3>4. \A u : u \in DueIn(g, s[i - 1]) <=> u \in D /\ u > s[i - 1]
      BY <3>2, DueLater DEF D
    <3>5. ASSUME NEW u \in DueIn(g, s[i - 1]) PROVE s[i] <= u
      <4>1. u \in D /\ u > s[i - 1]
        BY <3>4, <3>5
      <4>2. PICK j \in DOMAIN s : s[j] = u
        BY <1>3, <4>1
      <4>3. u \in Nat
        BY <1>1, <4>1
      <4>4. ~(j < i - 1) /\ j # i - 1
        BY <1>3, <3>1, <3>2, <4>1, <4>2, <4>3 DEF Ascends
      <4>5. j = i \/ i < j
        BY <1>4, <4>4
      <4> QED BY <1>3, <2>1, <4>2, <4>3, <4>5 DEF Ascends
    <3>6. s[i] \in DueIn(g, s[i - 1])
      BY <2>1, <3>2, <3>3, <3>4
    <3> QED BY <2>1, <2>3, <3>1, <3>5, <3>6 DEF Follows
  <2> QED BY <2>2, <2>3
<1>8. b \in Seq(Tokens)
  BY <1>1, <1>6, WiderSeq
<1>9. Run(g, c, b)
  BY <1>6, <1>7 DEF Run
<1> QED BY <1>5, <1>6, <1>8, <1>9 DEF b, s, D

\* A run ascends, and is all that is owed up to its last token.
LEMMA RunIsAll ==
    ASSUME NEW g \in Logs, NEW c \in Nat, NEW s \in Seq(Nat), s # << >>, Run(g, c, s)
    PROVE  /\ Ascends(s)
           /\ { s[i] : i \in DOMAIN s } = { t \in DueIn(g, c) : t <= s[Len(s)] }
<1> DEFINE n == Len(s)
           Before(i) == IF i = 1 THEN c ELSE s[i - 1]
<1>1. n \in Nat /\ n # 0 /\ DOMAIN s = 1..n /\ \A i \in 1..n : s[i] \in Nat
  OBVIOUS
<1> HIDE DEF n
<1>2. ASSUME NEW i \in 1..n
      PROVE  Before(i) \in Nat /\ Follows(g, Before(i), s[i]) /\ Before(i) < s[i]
  <2>1. Before(i) \in Nat
    BY <1>1
  <2>2. Follows(g, Before(i), s[i])
    BY <1>1 DEF Run
  <2> HIDE DEF Before
  <2>3. s[i] > Before(i)
    BY <2>1, <2>2, DueNumbers DEF Follows
  <2> QED BY <1>1, <2>1, <2>2, <2>3
<1>3. ASSUME NEW i \in 1..n, NEW j \in 1..n, i < j PROVE s[i] < s[j]
  <2> DEFINE T == { k \in 0..(n - i) : k = 0 \/ s[i] < s[i + k] }
  <2>1. ASSUME NEW k \in 1..(n - i), k - 1 \in T PROVE k \in T
    <3>1. i + k \in 1..n /\ i + k # 1 /\ (i + k) - 1 = i + (k - 1) /\ i + (k - 1) \in 1..n
      BY <1>1, <2>1
    <3>2. Before(i + k) = s[i + (k - 1)] /\ Before(i + k) < s[i + k]
      BY <1>2, <3>1
    <3>3. s[i] \in Nat /\ s[i + k] \in Nat /\ s[i + (k - 1)] \in Nat
      BY <1>1, <3>1
    <3>4. s[i] < s[i + k]
      <4>1. CASE k = 1
        <5>1. s[i + (k - 1)] = s[i]
          BY <4>1
        <5> HIDE DEF Before
        <5> QED BY <3>2, <5>1
      <4>2. CASE k # 1
        <5>1. s[i] < s[i + (k - 1)]
          BY <2>1, <4>2
        <5> HIDE DEF Before
        <5> QED BY <3>2, <3>3, <5>1
      <4> QED BY <4>1, <4>2
    <3> QED BY <3>4
  <2>2. n - i \in Nat /\ 0 \in T
    BY <1>1
  <2>3. 0..(n - i) \subseteq T
    <3> HIDE DEF T
    <3> QED BY <2>1, <2>2, Along
  <2>4. j - i \in 0..(n - i) /\ j - i # 0 /\ i + (j - i) = j
    BY <1>1, <1>3
  <2>5. j - i \in T
    <3> HIDE DEF T
    <3> QED BY <2>3, <2>4
  <2> QED BY <2>4, <2>5
<1>4. Ascends(s)
  BY <1>1, <1>3 DEF Ascends
<1>5. ASSUME NEW i \in 1..n PROVE s[i] \in DueIn(g, c) /\ s[i] <= s[n]
  <2>1. c <= Before(i)
    <3>1. CASE i = 1
      BY <3>1
    <3>2. CASE i # 1
      <4>1. i - 1 \in 1..n /\ 1 \in 1..n /\ (i - 1 = 1 \/ 1 < i - 1)
        BY <1>1, <3>2
      <4>2. s[1] <= s[i - 1]
        BY <1>1, <1>3, <4>1
      <4>3. c < s[1]
        BY <1>2, <4>1
      <4>4. c <= s[i - 1]
        BY <1>1, <4>1, <4>2, <4>3
      <4> QED BY <3>2, <4>4
    <3> QED BY <3>1, <3>2
  <2>2. Before(i) \in Nat /\ s[i] \in DueIn(g, Before(i))
    BY <1>2 DEF Follows
  <2> HIDE DEF Before
  <2>3. s[i] \in DueIn(g, c)
    BY <2>1, <2>2, DueLater
  <2>4. n \in 1..n /\ (i = n \/ i < n)
    BY <1>1
  <2>5. s[i] <= s[n]
    BY <1>1, <1>3, <2>4
  <2> QED BY <2>3, <2>5
<1>6. ASSUME NEW t \in DueIn(g, c), t <= s[n] PROVE \E i \in 1..n : t = s[i]
  <2> DEFINE T == { i \in 1..n : t <= s[i] }
  <2>1. n \in T /\ T \subseteq Nat
    BY <1>1, <1>6
  <2>2. PICK i \in T : \A j \in T : i <= j
    <3> HIDE DEF T
    <3> QED BY <2>1, LeastNumber
  <2>3. t \in Nat /\ t > c
    BY DueNumbers
  <2>4. Before(i) < t
    <3>1. CASE i = 1
      BY <2>3, <3>1
    <3>2. CASE i # 1
      <4>1. i - 1 \in 1..n /\ i - 1 \notin T
        BY <1>1, <2>2, <3>2
      <4>2. s[i - 1] < t
        BY <1>1, <2>3, <4>1
      <4> QED BY <3>2, <4>2
    <3> QED BY <3>1, <3>2
  <2>5. c <= Before(i) /\ Before(i) \in Nat /\ Follows(g, Before(i), s[i])
    <3>1. CASE i = 1
      BY <1>2, <3>1
    <3>2. CASE i # 1
      <4>1. i - 1 \in 1..n
        BY <1>1, <3>2
      <4>2. s[i - 1] \in DueIn(g, c) /\ s[i - 1] \in Nat
        BY <1>1, <1>5, <4>1
      <4>3. c <= s[i - 1]
        BY <4>2, DueNumbers
      <4> QED BY <1>2, <3>2, <4>3
    <3> QED BY <3>1, <3>2
  <2> HIDE DEF Before
  <2>6. t \in DueIn(g, Before(i))
    BY <2>3, <2>4, <2>5, DueLater
  <2>7. s[i] <= t /\ t <= s[i]
    BY <2>5, <2>6 DEF Follows
  <2>8. s[i] \in Nat
    BY <1>1
  <2> QED BY <2>3, <2>7, <2>8
<1>7. { s[i] : i \in DOMAIN s } = { t \in DueIn(g, c) : t <= s[n] }
  BY <1>1, <1>5, <1>6
<1> QED BY <1>4, <1>7 DEF n

-----------------------------------------------------------------------------
(* The inductive invariant. *)

\* What holds of a handler, by where it is, its cursor and its batch.
HandlerHolds(g, pc, c, b) ==
    /\ pc \in {"starting"} \cup Streaming => c \in Nat
    /\ pc # "fetched" => b = << >>
    /\ pc = "fetched" => Len(b) <= BatchLimit /\ Run(g, c, b)

\* What holds of a client: what it got follows what it started from, and what is
\* on the wire follows what it got.
ClientHolds(g, m, o, got, ws) ==
    /\ o = None <=> m = None
    /\ m = None => got = << >>
    /\ m # None => m = IF got = << >> THEN o ELSE got[Len(got)]
    /\ Run(g, o, got)
    /\ FramesRun(g, m, ws)
    /\ Len(ws) <= MaxBuffered + BatchLimit

\* What holds between a client and the handler it is connected to: the handler
\* goes on where the wire ends.
LinkHolds(pc, c, m, ws) ==
    /\ pc # "free"
    /\ pc \in {"starting", "resolving"} => ws = << >> /\ (m # None => pc = "starting" /\ c = m)
    /\ pc \in Streaming => /\ c = IF ws = << >> THEN m ELSE ws[Len(ws)].token
                           /\ Len(ws) <= MaxBuffered

OpenStreams == {h \in Streams : hpc[h] \in Streaming}
SlotsHold == openWatchConnections = Cardinality(OpenStreams) /\ openWatchConnections <= MaxConnections

WatchInv ==
    /\ StoreShape
    /\ WatchTypeOK
    /\ \A h \in Streams : HandlerHolds(history, hpc[h], cursor[h], batch[h])
    /\ \A w \in Watchers : ClientHolds(history, mark[w], origin[w], received[w], wire[w])
    /\ \A w \in Watchers : link[w] # None =>
          /\ who[link[w]] = w
          /\ LinkHolds(hpc[link[w]], cursor[link[w]], mark[w], wire[w])
    /\ SlotsHold

LEMMA LogIsLog == StoreShape => history \in Logs
BY DEF StoreShape, Logs

LEMMA DueIsDueIn == ASSUME StoreShape PROVE \A c : Due(c) = DueIn(history, c)
<1>1. DOMAIN history = 1..Len(history)
  BY DEF StoreShape
<1> QED BY <1>1 DEF Due, DueIn, TokensFor

LEMMA WatchInvInit == WatchInit => WatchInv
<1> SUFFICES ASSUME WatchInit PROVE WatchInv
  OBVIOUS
<1>1. StoreShape
  BY ShapeInit DEF WatchInit
<1>2. WatchTypeOK
  BY DEF WatchInit, WatchTypeOK, HandlerStates
<1>3. \A h \in Streams : HandlerHolds(history, hpc[h], cursor[h], batch[h])
  BY DEF WatchInit, HandlerHolds, Streaming
<1>4. \A w \in Watchers : ClientHolds(history, mark[w], origin[w], received[w], wire[w])
  BY WatchAssumption DEF WatchInit, ClientHolds, Run, FramesRun
<1>5. SlotsHold
  <2>1. OpenStreams = {}
    BY DEF WatchInit, OpenStreams, Streaming
  <2> QED BY <2>1, FS_EmptySet, WatchAssumption DEF WatchInit, SlotsHold
<1> QED BY <1>1, <1>2, <1>3, <1>4, <1>5 DEF WatchInv, WatchInit

\* A write is owed after everything that is owed already.
LEMMA WriteKeepsFeed == ASSUME WatchInv, Write PROVE WatchInv'
<1>1. PICK r \in Requests, t \in Tokens : Perform(r, t)
  BY DEF Write, Next
<1>2. UNCHANGED <<hpc, who, cursor, batch, closed, emitted, openWatchConnections, link, wire, mark,
                  origin, received>>
  BY DEF Write, handlerVars, clientVars
<1>3. StoreShape'
  BY <1>1, PerformExtends, WatchAssumption DEF WatchInv
<1> DEFINE e == Entry(rows, r, t)
<1>4. history' = Append(history, e) /\ e.token = t
  BY <1>1 DEF Perform, Entry
<1>5. history \in Logs /\ history' \in Logs
  BY <1>3, LogIsLog DEF WatchInv, StoreShape, Logs
<1>6. e \in Entries /\ \A i \in 1..Len(history) : history[i].token < e.token
  <2>1. history'[Len(history) + 1] \in Entries /\ history'[Len(history) + 1] = e
    <3>1. Len(history) + 1 \in 1..Len(history')
      BY <1>1, PerformExtends, WatchAssumption DEF WatchInv
    <3>2. history'[Len(history) + 1] = e
      BY <1>4, <1>5 DEF Logs
    <3> QED BY <1>5, <3>1, <3>2, LogTokens
  <2>2. \A i \in 1..Len(history) : history[i].token < t
    BY <1>1, PerformExtends, WatchAssumption DEF WatchInv
  <2> QED BY <1>4, <2>1, <2>2
<1> HIDE DEF e
<1>7. \A c, u : Follows(history, c, u) => Follows(history', c, u)
  BY <1>4, <1>5, <1>6, FollowsStays
<1>8. /\ \A c, s : Run(history, c, s) => Run(history', c, s)
      /\ \A m, ws : FramesRun(history, m, ws) => FramesRun(history', m, ws)
  BY <1>7 DEF Run, FramesRun
<1>9. \A h \in Streams : HandlerHolds(history', hpc[h], cursor[h], batch[h])
  BY <1>8 DEF WatchInv, HandlerHolds
<1>10. \A w \in Watchers : ClientHolds(history', mark[w], origin[w], received[w], wire[w])
  BY <1>8 DEF WatchInv, ClientHolds
<1>11. WatchTypeOK' /\ SlotsHold'
  BY <1>2 DEF WatchInv, WatchTypeOK, SlotsHold, OpenStreams
<1> QED BY <1>2, <1>3, <1>9, <1>10, <1>11 DEF WatchInv

\* What holds after a step of handler h, given where the step leaves it and its client.
LEMMA HandlerMoves ==
    ASSUME WatchInv, NEW h \in Streams, UNCHANGED <<rows, history, mark, origin, received>>,
           WatchTypeOK', SlotsHold',
           \A k \in Streams \ {h} : /\ hpc'[k] = hpc[k] /\ who'[k] = who[k]
                                    /\ cursor'[k] = cursor[k] /\ batch'[k] = batch[k],
           HandlerHolds(history, hpc'[h], cursor'[h], batch'[h]),
           \A w \in Watchers : ClientHolds(history, mark[w], origin[w], received[w], wire'[w]),
           \A w \in Watchers : link'[w] # None =>
              \/ link'[w] = link[w] /\ link[w] # h /\ wire'[w] = wire[w]
              \/ link'[w] = h /\ who'[h] = w /\ LinkHolds(hpc'[h], cursor'[h], mark[w], wire'[w])
    PROVE  WatchInv'
<1> USE DEF WatchInv
<1>1. StoreShape'
  BY DEF StoreShape
<1>2. \A k \in Streams : HandlerHolds(history', hpc'[k], cursor'[k], batch'[k])
  <2> SUFFICES ASSUME NEW k \in Streams PROVE HandlerHolds(history', hpc'[k], cursor'[k], batch'[k])
    OBVIOUS
  <2>1. CASE k = h
    BY <2>1
  <2>2. CASE k # h
    BY <2>2
  <2> QED BY <2>1, <2>2
<1>3. \A w \in Watchers : ClientHolds(history', mark'[w], origin'[w], received'[w], wire'[w])
  OBVIOUS
<1>4. ASSUME NEW w \in Watchers, link'[w] # None
      PROVE  /\ who'[link'[w]] = w
             /\ LinkHolds(hpc'[link'[w]], cursor'[link'[w]], mark'[w], wire'[w])
  <2>1. CASE link'[w] = link[w] /\ link[w] # h /\ wire'[w] = wire[w]
    <3>1. link[w] \in Streams \ {h} /\ link[w] # None
      BY <1>4, <2>1 DEF WatchTypeOK
    <3> QED BY <2>1, <3>1
  <2>2. CASE link'[w] = h /\ who'[h] = w /\ LinkHolds(hpc'[h], cursor'[h], mark[w], wire'[w])
    BY <2>2
  <2> QED BY <1>4, <2>1, <2>2
<1> QED BY <1>1, <1>2, <1>3, <1>4

\* The slots when handler h alone moves.
LEMMA SlotsMove ==
    ASSUME WatchInv, NEW h \in Streams, NEW pc, hpc' = [hpc EXCEPT ![h] = pc]
    PROVE  /\ (pc \in Streaming <=> hpc[h] \in Streaming) => OpenStreams' = OpenStreams
           /\ pc \in Streaming /\ hpc[h] \notin Streaming =>
                 Cardinality(OpenStreams') = Cardinality(OpenStreams) + 1
           /\ pc \notin Streaming /\ hpc[h] \in Streaming =>
                 Cardinality(OpenStreams') = Cardinality(OpenStreams) - 1
<1>1. IsFiniteSet(OpenStreams)
  BY FS_Subset, WatchAssumption DEF OpenStreams
<1>2. hpc'[h] = pc /\ \A k \in Streams \ {h} : hpc'[k] = hpc[k]
  BY DEF WatchInv, WatchTypeOK
<1>3. (pc \in Streaming <=> hpc[h] \in Streaming) => OpenStreams' = OpenStreams
  BY <1>2 DEF OpenStreams
<1>4. pc \in Streaming /\ hpc[h] \notin Streaming => OpenStreams' = OpenStreams \cup {h}
  BY <1>2 DEF OpenStreams
<1>5. pc \notin Streaming /\ hpc[h] \in Streaming => OpenStreams' = OpenStreams \ {h}
  BY <1>2 DEF OpenStreams
<1>6. h \in OpenStreams <=> hpc[h] \in Streaming
  BY DEF OpenStreams
<1> QED BY <1>1, <1>3, <1>4, <1>5, <1>6, FS_AddElement, FS_RemoveElement

\* The handler of a client is linked to no other.
LEMMA OneClient ==
    ASSUME WatchInv, NEW w \in Watchers, link[w] # None
    PROVE  Served(link[w]) /\ who[link[w]] = w /\ link[w] \in Streams
BY WatchAssumption DEF WatchInv, Served, WatchTypeOK

LEMMA SumsAreBounded ==
    ASSUME NEW i \in Nat, NEW j \in Nat
    PROVE  i + j \in Nat /\ \A k, n \in Nat : i <= k /\ j <= n => i + j <= k + n
OBVIOUS

\* What holds after handler h has ended.
LEMMA ForgetMoves ==
    ASSUME WatchInv, NEW h \in Streams, Forget(h), UNCHANGED <<rows, history, mark, origin, received>>,
           wire' \in [Watchers -> Seq(Frames)],
           \A w \in Watchers : ClientHolds(history, mark[w], origin[w], received[w], wire'[w]),
           \A w \in Watchers : link[w] # None /\ link[w] # h => wire'[w] = wire[w],
           openWatchConnections' = IF hpc[h] \in Streaming THEN openWatchConnections - 1
                                                           ELSE openWatchConnections
    PROVE  WatchInv'
<1> USE DEF WatchInv
<1>1. /\ hpc' = [hpc EXCEPT ![h] = "free"] /\ who' = [who EXCEPT ![h] = None]
      /\ cursor' = [cursor EXCEPT ![h] = None] /\ batch' = [batch EXCEPT ![h] = << >>]
      /\ closed' = [closed EXCEPT ![h] = FALSE] /\ emitted' = [emitted EXCEPT ![h] = FALSE]
      /\ link' = IF Served(h) THEN [link EXCEPT ![who[h]] = None] ELSE link
  BY DEF Forget
<1>2. SlotsHold' /\ openWatchConnections' \in Nat
  <2>1. "free" \notin Streaming
    BY DEF Streaming
  <2>2. Cardinality(OpenStreams') = IF hpc[h] \in Streaming THEN Cardinality(OpenStreams) - 1
                                                           ELSE Cardinality(OpenStreams)
    BY <1>1, <2>1, SlotsMove
  <2>3. openWatchConnections' = Cardinality(OpenStreams')
    BY <2>2 DEF SlotsHold
  <2>4. IsFiniteSet(OpenStreams')
    BY FS_Subset, WatchAssumption DEF OpenStreams
  <2>5. openWatchConnections' \in Nat
    BY <2>3, <2>4, FS_CardinalityType
  <2>6. openWatchConnections' <= MaxConnections
    BY <2>5, WatchAssumption DEF SlotsHold, WatchTypeOK
  <2> QED BY <2>3, <2>5, <2>6 DEF SlotsHold
<1>3. link' \in [Watchers -> Streams \cup {None}]
  BY <1>1 DEF WatchTypeOK
<1>4. WatchTypeOK'
  BY <1>1, <1>2, <1>3 DEF WatchTypeOK, HandlerStates
<1>5. hpc'[h] = "free" /\ batch'[h] = << >>
  BY <1>1 DEF WatchTypeOK
<1>6. HandlerHolds(history, hpc'[h], cursor'[h], batch'[h])
  BY <1>5 DEF HandlerHolds, Streaming
<1>7. ASSUME NEW w \in Watchers, link'[w] # None
      PROVE  link'[w] = link[w] /\ link[w] # h /\ wire'[w] = wire[w]
  <2>1. link'[w] = link[w]
    BY <1>1, <1>7 DEF WatchTypeOK, Served
  <2>2. link[w] # h
    <3>1. SUFFICES ASSUME link[w] = h PROVE FALSE
      OBVIOUS
    <3>2. Served(h) /\ who[h] = w
      BY <1>7, <2>1, <3>1, OneClient
    <3>3. link'[w] = None
      BY <1>1, <3>2 DEF WatchTypeOK
    <3> QED BY <1>7, <3>3
  <2> QED BY <1>7, <2>1, <2>2
<1>8. \A k \in Streams \ {h} : /\ hpc'[k] = hpc[k] /\ who'[k] = who[k]
                               /\ cursor'[k] = cursor[k] /\ batch'[k] = batch[k]
  BY <1>1 DEF WatchTypeOK
<1> QED BY <1>2, <1>4, <1>6, <1>7, <1>8, HandlerMoves

\* A stream that ends without writing anything.
LEMMA CloseKeeps ==
    ASSUME WatchInv, NEW h \in Streams, hpc[h] \in Streaming, CloseStream(h),
           UNCHANGED <<rows, history, wire, mark, origin, received>>
    PROVE  WatchInv'
<1>1. wire' \in [Watchers -> Seq(Frames)]
  BY DEF WatchInv, WatchTypeOK
<1>2. \A w \in Watchers : ClientHolds(history, mark[w], origin[w], received[w], wire'[w])
  BY DEF WatchInv
<1> QED BY <1>1, <1>2, ForgetMoves DEF CloseStream

LEMMA ConnectKeeps ==
    ASSUME WatchInv, NEW w \in Watchers, NEW h \in Streams, Connect(w, h)
    PROVE  WatchInv'
<1> USE DEF WatchInv
<1>1. PICK since \in IF mark[w] = None THEN {None, 0} \cup Tokens ELSE {mark[w]} : Request(w, h, since)
  BY DEF Connect
<1>2. since \in Nat \cup {None} /\ (mark[w] # None => since = mark[w] /\ since # None)
  <2>1. Tokens \subseteq Nat /\ 0 \in Nat
    BY WatchAssumption
  <2>2. mark[w] \in Nat \cup {None}
    BY DEF WatchTypeOK
  <2>3. since \in IF mark[w] = None THEN {None, 0} \cup Tokens ELSE {mark[w]}
    OBVIOUS
  <2>4. CASE mark[w] = None
    <3>1. since \in {None, 0} \cup Tokens
      BY <2>3, <2>4
    <3>2. since \in Nat \cup {None}
      BY <2>1, <3>1, Zenon
    <3> QED BY <2>4, <3>2, Zenon
  <2>5. CASE mark[w] # None
    <3>1. since = mark[w]
      BY <2>3, <2>5
    <3> QED BY <2>2, <2>5, <3>1
  <2> QED BY <2>4, <2>5
<1>3. /\ link[w] = None /\ wire[w] = << >> /\ hpc[h] = "free"
      /\ hpc' = [hpc EXCEPT ![h] = IF since = None THEN "resolving" ELSE "starting"]
      /\ who' = [who EXCEPT ![h] = w] /\ cursor' = [cursor EXCEPT ![h] = since]
      /\ link' = [link EXCEPT ![w] = h]
      /\ UNCHANGED <<rows, history, batch, closed, emitted, openWatchConnections, wire, mark, origin,
                     received>>
  BY <1>1 DEF Request
<1>4. WatchTypeOK'
  BY <1>2, <1>3 DEF WatchTypeOK, HandlerStates
<1>5. SlotsHold'
  <2>1. hpc[h] \notin Streaming /\ (IF since = None THEN "resolving" ELSE "starting") \notin Streaming
    BY <1>3 DEF Streaming
  <2>2. OpenStreams' = OpenStreams
    BY <1>3, <2>1, SlotsMove
  <2> QED BY <1>3, <2>2 DEF SlotsHold
<1>6. /\ hpc'[h] = IF since = None THEN "resolving" ELSE "starting"
      /\ cursor'[h] = since /\ who'[h] = w /\ batch'[h] = << >>
  BY <1>3 DEF WatchTypeOK, HandlerHolds
<1>7. HandlerHolds(history, hpc'[h], cursor'[h], batch'[h])
  BY <1>2, <1>6 DEF HandlerHolds, Streaming
<1>8. LinkHolds(hpc'[h], cursor'[h], mark[w], wire'[w])
  BY <1>2, <1>3, <1>6 DEF LinkHolds, Streaming
<1>9. ASSUME NEW v \in Watchers, link'[v] # None
      PROVE  \/ link'[v] = link[v] /\ link[v] # h /\ wire'[v] = wire[v]
             \/ link'[v] = h /\ who'[h] = v /\ LinkHolds(hpc'[h], cursor'[h], mark[v], wire'[v])
  <2>1. CASE v = w
    <3>1. link'[v] = h
      BY <1>3, <2>1 DEF WatchTypeOK
    <3> QED BY <1>6, <1>8, <2>1, <3>1
  <2>2. CASE v # w
    <3>1. link'[v] = link[v]
      BY <1>3, <2>2 DEF WatchTypeOK
    <3>2. link[v] # h
      BY <1>3, <1>9, <3>1 DEF LinkHolds
    <3> QED BY <1>3, <3>1, <3>2
  <2> QED BY <2>1, <2>2
<1>10. \A k \in Streams \ {h} : /\ hpc'[k] = hpc[k] /\ who'[k] = who[k]
                                /\ cursor'[k] = cursor[k] /\ batch'[k] = batch[k]
  BY <1>3 DEF WatchTypeOK
<1> QED BY <1>3, <1>4, <1>5, <1>7, <1>9, <1>10, HandlerMoves

LEMMA ResolveKeeps ==
    ASSUME WatchInv, NEW h \in Streams, ResolveSince(h)
    PROVE  WatchInv'
<1> USE DEF WatchInv
<1>1. /\ hpc[h] = "resolving" /\ cursor' = [cursor EXCEPT ![h] = CurrentToken]
      /\ UNCHANGED <<rows, history, hpc, who, batch, closed, emitted, openWatchConnections, link, wire,
                     mark, origin, received>>
  BY DEF ResolveSince, clientVars
<1>2. CurrentToken \in Nat
  <2>1. CASE history = << >>
    BY <2>1 DEF CurrentToken
  <2>2. CASE history # << >>
    <3>1. Len(history) \in 1..Len(history) /\ Last(history) = history[Len(history)]
      BY <2>2 DEF StoreShape, Last
    <3> QED BY <2>2, <3>1, LogIsLog, LogTokens DEF CurrentToken
  <2> QED BY <2>1, <2>2
<1>3. WatchTypeOK' /\ SlotsHold'
  BY <1>1, <1>2 DEF WatchTypeOK, SlotsHold, OpenStreams
<1>4. HandlerHolds(history, hpc'[h], cursor'[h], batch'[h])
  BY <1>1 DEF HandlerHolds, Streaming
<1>5. ASSUME NEW w \in Watchers, link[w] = h
      PROVE  who[h] = w /\ LinkHolds(hpc[h], cursor'[h], mark[w], wire[w])
  <2>1. who[h] = w /\ LinkHolds(hpc[h], cursor[h], mark[w], wire[w])
    BY <1>5, WatchAssumption
  <2> QED BY <1>1, <2>1 DEF LinkHolds, Streaming
<1>6. \A k \in Streams \ {h} : cursor'[k] = cursor[k]
  BY <1>1 DEF WatchTypeOK
<1> QED BY <1>1, <1>3, <1>4, <1>5, <1>6, HandlerMoves

\* The connected frame says where the stream starts.
LEMMA OpenKeeps ==
    ASSUME WatchInv, NEW h \in Streams, Open(h)
    PROVE  WatchInv'
<1> USE DEF WatchInv
<1>1. hpc[h] \in {"starting", "resolving"} /\ cursor[h] # None /\ cursor[h] \in Nat
      /\ UNCHANGED <<rows, history, mark, origin, received>>
  BY DEF Open, WatchTypeOK
<1>2. CASE openWatchConnections >= MaxConnections
  <2>1. Forget(h) /\ UNCHANGED <<openWatchConnections, wire>>
    BY <1>2 DEF Open
  <2>2. hpc[h] \notin Streaming
    BY <1>1 DEF Streaming
  <2>3. wire' \in [Watchers -> Seq(Frames)]
    BY <2>1 DEF WatchTypeOK
  <2>4. \A w \in Watchers : ClientHolds(history, mark[w], origin[w], received[w], wire'[w])
    BY <2>1
  <2> QED BY <1>1, <2>1, <2>2, <2>3, <2>4, ForgetMoves
<1>3. CASE ~(openWatchConnections >= MaxConnections)
  <2> DEFINE f == [event |-> FALSE, token |-> cursor[h]]
  <2>1. /\ openWatchConnections' = openWatchConnections + 1
        /\ hpc' = [hpc EXCEPT ![h] = "polling"]
        /\ wire' = Written(h, <<f>>)
        /\ UNCHANGED <<who, cursor, batch, closed, emitted, link>>
    BY <1>3 DEF Open
  <2>2. f \in Frames /\ f.event = FALSE /\ f.token = cursor[h]
    BY <1>1 DEF Frames
  <2> HIDE DEF f
  <2>3. SlotsHold' /\ openWatchConnections' \in Nat
    <3>1. "polling" \in Streaming /\ hpc[h] \notin Streaming
      BY <1>1 DEF Streaming
    <3>2. Cardinality(OpenStreams') = Cardinality(OpenStreams) + 1
      BY <2>1, <3>1, SlotsMove
    <3>3. openWatchConnections \in Nat /\ MaxConnections \in Nat
      BY WatchAssumption DEF WatchTypeOK
    <3> QED BY <1>3, <2>1, <3>2, <3>3 DEF SlotsHold
  <2>4. ASSUME NEW w \in Watchers, link[w] = h
        PROVE  /\ who[h] = w /\ Served(h) /\ wire[w] = << >>
               /\ mark[w] # None => cursor[h] = mark[w]
    <3>1. who[h] = w /\ Served(h) /\ LinkHolds(hpc[h], cursor[h], mark[w], wire[w])
      BY <2>4, WatchAssumption, OneClient
    <3> QED BY <1>1, <3>1 DEF LinkHolds
  <2>5. \A w \in Watchers : wire'[w] = IF link[w] = h THEN <<f>> ELSE wire[w]
    <3> SUFFICES ASSUME NEW w \in Watchers PROVE wire'[w] = IF link[w] = h THEN <<f>> ELSE wire[w]
      OBVIOUS
    <3>1. CASE link[w] = h
      <4>1. wire' = [wire EXCEPT ![w] = << >> \o <<f>>]
        BY <2>1, <2>4, <3>1 DEF Written
      <4>2. << >> \o <<f>> = <<f>>
        BY <2>2
      <4> QED BY <3>1, <4>1, <4>2 DEF WatchTypeOK
    <3>2. CASE link[w] # h
      <4>1. Served(h) => who[h] # w
        BY <3>2 DEF Served
      <4> QED BY <2>1, <3>2, <4>1 DEF Written, WatchTypeOK
    <3> QED BY <3>1, <3>2
  <2>6. <<f>> \in Seq(Frames) /\ Len(<<f>>) = 1 /\ DOMAIN <<f>> = {1} /\ <<f>>[1] = f
    BY <2>2
  <2>7. wire' \in [Watchers -> Seq(Frames)]
    <3>1. wire' = Written(h, <<f>>) /\ Served(h) => who[h] \in Watchers
      BY <2>1 DEF Served, WatchTypeOK
    <3>2. DOMAIN wire' = Watchers /\ wire' = [w \in Watchers |-> wire'[w]]
      BY <2>1 DEF Written, WatchTypeOK
    <3> QED BY <2>5, <2>6, <3>2 DEF WatchTypeOK
  <2>8. WatchTypeOK'
    BY <1>1, <2>1, <2>3, <2>7 DEF WatchTypeOK, HandlerStates, Streaming
  <2>9. ASSUME NEW w \in Watchers
        PROVE  ClientHolds(history, mark[w], origin[w], received[w], wire'[w])
    <3>1. ClientHolds(history, mark[w], origin[w], received[w], wire[w])
      OBVIOUS
    <3>2. CASE link[w] = h
      <4>1. FramesRun(history, mark[w], <<f>>)
        BY <2>2, <2>4, <2>6, <3>2 DEF FramesRun
      <4>2. Len(<<f>>) <= MaxBuffered + BatchLimit
        BY <2>6, WatchAssumption
      <4> QED BY <2>5, <3>1, <3>2, <4>1, <4>2 DEF ClientHolds
    <3>3. CASE link[w] # h
      BY <2>5, <3>1, <3>3
    <3> QED BY <3>2, <3>3
  <2>10. hpc'[h] = "polling" /\ cursor'[h] = cursor[h] /\ batch'[h] = << >>
    BY <1>1, <2>1 DEF HandlerHolds, WatchTypeOK
  <2>11. HandlerHolds(history, hpc'[h], cursor'[h], batch'[h])
    BY <1>1, <2>10 DEF HandlerHolds, Streaming
  <2>12. ASSUME NEW w \in Watchers, link'[w] # None
         PROVE  \/ link'[w] = link[w] /\ link[w] # h /\ wire'[w] = wire[w]
                \/ link'[w] = h /\ who'[h] = w /\ LinkHolds(hpc'[h], cursor'[h], mark[w], wire'[w])
    <3>1. CASE link[w] = h
      <4>1. LinkHolds("polling", cursor[h], mark[w], <<f>>)
        BY <2>2, <2>6, WatchAssumption DEF LinkHolds, Streaming
      <4> QED BY <2>1, <2>4, <2>5, <2>10, <3>1, <4>1
    <3>2. CASE link[w] # h
      BY <2>1, <2>5, <3>2
    <3> QED BY <3>1, <3>2
  <2>13. \A k \in Streams \ {h} : /\ hpc'[k] = hpc[k] /\ who'[k] = who[k]
                                  /\ cursor'[k] = cursor[k] /\ batch'[k] = batch[k]
    BY <2>1 DEF WatchTypeOK
  <2> QED BY <1>1, <2>3, <2>8, <2>9, <2>11, <2>12, <2>13, HandlerMoves
<1> QED BY <1>2, <1>3

\* A step of handler h that only says where it is, its cursor and its batch.
LEMMA QuietMoves ==
    ASSUME WatchInv, NEW h \in Streams, NEW pc \in Streaming, NEW c \in Nat, NEW b \in Seq(Tokens),
           hpc[h] \in Streaming, hpc' = [hpc EXCEPT ![h] = pc],
           batch' = [batch EXCEPT ![h] = b], cursor[h] = c, HandlerHolds(history, pc, c, b),
           UNCHANGED <<rows, history, who, cursor, closed, emitted, openWatchConnections, link, wire,
                       mark, origin, received>>
    PROVE  WatchInv'
<1> USE DEF WatchInv
<1>1. SlotsHold'
  <2>1. OpenStreams' = OpenStreams
    BY SlotsMove
  <2> QED BY <2>1 DEF SlotsHold
<1>2. WatchTypeOK'
  BY DEF WatchTypeOK, HandlerStates
<1>3. hpc'[h] = pc /\ cursor'[h] = c /\ batch'[h] = b
  BY DEF WatchTypeOK
<1>4. ASSUME NEW w \in Watchers, link[w] = h
      PROVE  who[h] = w /\ LinkHolds(pc, c, mark[w], wire[w])
  <2>1. who[h] = w /\ LinkHolds(hpc[h], c, mark[w], wire[w])
    BY <1>4, WatchAssumption
  <2> QED BY <2>1 DEF LinkHolds, Streaming
<1>5. \A k \in Streams \ {h} : hpc'[k] = hpc[k] /\ batch'[k] = batch[k]
  BY DEF WatchTypeOK
<1> QED BY <1>1, <1>2, <1>3, <1>4, <1>5, HandlerMoves

LEMMA FetchKeeps ==
    ASSUME WatchInv, NEW h \in Streams, Fetch(h)
    PROVE  WatchInv'
<1> USE DEF WatchInv
<1> DEFINE b == FirstOf(Ascending(DueIn(history, cursor[h])))
<1>1. hpc[h] = "polling" /\ cursor[h] \in Nat
  BY DEF Fetch, FetchTokens, HandlerHolds, Streaming
<1>2. b \in Seq(Tokens) /\ Len(b) <= BatchLimit /\ Run(history, cursor[h], b)
  BY <1>1, LogIsLog, FetchedRun
<1>3. /\ batch' = [batch EXCEPT ![h] = b] /\ hpc' = [hpc EXCEPT ![h] = "fetched"]
      /\ UNCHANGED <<rows, history, who, cursor, closed, emitted, openWatchConnections, link, wire,
                     mark, origin, received>>
  BY DueIsDueIn DEF Fetch, FetchTokens, clientVars
<1> HIDE DEF b
<1>4. HandlerHolds(history, "fetched", cursor[h], b)
  BY <1>1, <1>2 DEF HandlerHolds, Streaming
<1>5. "fetched" \in Streaming /\ hpc[h] \in Streaming
  BY <1>1 DEF Streaming
<1> QED BY <1>1, <1>2, <1>3, <1>4, <1>5, QuietMoves

\* Frames that go on where a run of frames ends.
LEMMA FramesAppend ==
    ASSUME NEW g \in Logs, NEW m, NEW ws \in Seq(Frames), FramesRun(g, m, ws),
           NEW c \in Nat, c = IF ws = << >> THEN m ELSE ws[Len(ws)].token,
           NEW b \in Seq(Tokens), Run(g, c, b)
    PROVE  LET fs == [i \in DOMAIN b |-> [event |-> TRUE, token |-> b[i]]]
           IN  /\ ws \o fs \in Seq(Frames) /\ Len(ws \o fs) = Len(ws) + Len(b)
               /\ FramesRun(g, m, ws \o fs)
               /\ b # << >> => ws \o fs # << >> /\ (ws \o fs)[Len(ws \o fs)].token = b[Len(b)]
               /\ b = << >> => ws \o fs = ws
<1> DEFINE fs == [i \in DOMAIN b |-> [event |-> TRUE, token |-> b[i]]]
           all == ws \o fs
<1>1. /\ Len(b) \in Nat /\ DOMAIN b = 1..Len(b) /\ \A i \in 1..Len(b) : b[i] \in Tokens
      /\ Len(ws) \in Nat /\ DOMAIN ws = 1..Len(ws)
      /\ Tokens \subseteq Nat
  BY WatchAssumption
<1>2. /\ DOMAIN fs = 1..Len(b)
      /\ \A i \in 1..Len(b) : fs[i] \in Frames /\ fs[i].event = TRUE /\ fs[i].token = b[i]
  BY <1>1 DEF Frames
<1> HIDE DEF fs
<1>3. fs \in Seq(Frames) /\ Len(fs) = Len(b)
  <2>1. fs \in [1..Len(b) -> Frames]
    BY <1>2 DEF fs
  <2> QED BY <1>1, <2>1
<1>4. /\ all \in Seq(Frames) /\ Len(all) = Len(ws) + Len(b) /\ DOMAIN all = 1..(Len(ws) + Len(b))
      /\ \A i \in 1..Len(ws) : all[i] = ws[i]
      /\ \A i \in 1..Len(b) : all[Len(ws) + i] = fs[i]
  BY <1>1, <1>3
<1> HIDE DEF all
<1>5. ASSUME NEW i \in DOMAIN all
      PROVE  IF all[i].event THEN Follows(g, IF i = 1 THEN m ELSE all[i - 1].token, all[i].token)
                                  /\ (i = 1 => m # None)
                             ELSE i = 1 /\ (m # None => all[i].token = m)
  <2>1. CASE i \in 1..Len(ws)
    <3>1. all[i] = ws[i] /\ (i # 1 => all[i - 1] = ws[i - 1])
      BY <1>1, <1>4, <2>1
    <3> QED BY <1>1, <2>1, <3>1 DEF FramesRun
  <2>2. CASE i \notin 1..Len(ws)
    <3> DEFINE k == i - Len(ws)
    <3>1. k \in 1..Len(b) /\ Len(ws) + k = i /\ all[i] = fs[k]
      BY <1>1, <1>4, <2>2
    <3> HIDE DEF k
    <3>2. all[i].event = TRUE /\ all[i].token = b[k]
      BY <1>2, <3>1
    <3>3. Follows(g, IF k = 1 THEN c ELSE b[k - 1], b[k])
      BY <1>1, <3>1 DEF Run
    <3>4. (IF i = 1 THEN m ELSE all[i - 1].token) = IF k = 1 THEN c ELSE b[k - 1]
      <4>1. CASE k = 1 /\ Len(ws) = 0
        <5>1. ws = << >> /\ i = 1
          BY <3>1, <4>1
        <5> QED BY <4>1, <5>1
      <4>2. CASE k = 1 /\ Len(ws) # 0
        <5>1. ws # << >> /\ i # 1 /\ i - 1 = Len(ws) /\ Len(ws) \in 1..Len(ws)
          BY <1>1, <3>1, <4>2
        <5>2. all[i - 1] = ws[Len(ws)]
          BY <1>4, <5>1
        <5> QED BY <4>2, <5>1, <5>2
      <4>3. CASE k # 1
        <5>1. i # 1 /\ k - 1 \in 1..Len(b) /\ i - 1 = Len(ws) + (k - 1)
          BY <1>1, <3>1, <4>3
        <5>2. all[i - 1] = fs[k - 1] /\ fs[k - 1].token = b[k - 1]
          BY <1>2, <1>4, <5>1
        <5> QED BY <4>3, <5>1, <5>2
      <4> QED BY <4>1, <4>2, <4>3
    <3>5. i = 1 => m # None
      <4>1. SUFFICES ASSUME i = 1 PROVE m # None
        OBVIOUS
      <4>2. ws = << >>
        BY <1>1, <3>1, <4>1
      <4> QED BY <4>2, WatchAssumption
    <3> QED BY <3>2, <3>3, <3>4, <3>5
  <2> QED BY <2>1, <2>2
<1>6. FramesRun(g, m, all)
  BY <1>5 DEF FramesRun
<1>7. ASSUME b # << >> PROVE all # << >> /\ all[Len(all)].token = b[Len(b)]
  <2>1. Len(b) \in 1..Len(b)
    BY <1>1, <1>7
  <2>2. all[Len(all)] = fs[Len(b)] /\ Len(all) # 0
    BY <1>1, <1>4, <2>1
  <2> QED BY <1>2, <1>4, <2>1, <2>2
<1>8. ASSUME b = << >> PROVE all = ws
  <2>1. Len(b) = 0 /\ Len(fs) = 0
    BY <1>3, <1>8
  <2>2. fs = << >>
    BY <1>3, <2>1
  <2> QED BY <2>2 DEF all
<1> QED BY <1>4, <1>6, <1>7, <1>8 DEF all, fs

\* What handler h has written is on the wire of its client.
LEMMA WrittenFrames ==
    ASSUME WatchInv, NEW h \in Streams, NEW fs \in Seq(Frames),
           NEW out, out = Written(h, fs),
           \A w \in Watchers : wire[w] \o fs \in Seq(Frames)
    PROVE  /\ out \in [Watchers -> Seq(Frames)]
           /\ \A w \in Watchers : out[w] = IF link[w] = h THEN wire[w] \o fs ELSE wire[w]
<1> USE DEF WatchInv
<1>1. wire \in [Watchers -> Seq(Frames)]
  BY DEF WatchTypeOK
<1>2. CASE Served(h)
  <2>1. who[h] \in Watchers /\ link[who[h]] = h
    BY <1>2 DEF Served, WatchTypeOK
  <2>2. out = [wire EXCEPT ![who[h]] = wire[who[h]] \o fs]
    BY <1>2 DEF Written
  <2>3. \A w \in Watchers : link[w] = h => who[h] = w
    BY WatchAssumption
  <2> QED BY <1>1, <2>1, <2>2, <2>3
<1>3. CASE ~Served(h)
  <2>1. \A w \in Watchers : link[w] # h
    BY <1>3, WatchAssumption, OneClient
  <2> QED BY <1>1, <1>3, <2>1 DEF Written
<1> QED BY <1>2, <1>3

\* A batch is written where the wire of the client ended; a client that reads
\* too slowly loses its stream.
LEMMA DeliverKeeps ==
    ASSUME WatchInv, NEW h \in Streams, Deliver(h)
    PROVE  WatchInv'
<1> USE DEF WatchInv
<1> DEFINE b == batch[h]
           c == cursor[h]
           fs == [i \in DOMAIN b |-> [event |-> TRUE, token |-> b[i]]]
           out == Written(h, fs)
<1>1. /\ hpc[h] = "fetched" /\ hpc[h] \in Streaming /\ c \in Nat /\ b \in Seq(Tokens)
      /\ Len(b) <= BatchLimit /\ Run(history, c, b)
      /\ UNCHANGED <<rows, history, mark, origin, received>>
  BY DEF Deliver, HandlerHolds, Streaming, WatchTypeOK
<1>2. \/ closed[h] /\ CloseStream(h) /\ wire' = wire
      \/ /\ ~closed[h]
         /\ wire' = out
         /\ IF Served(h) /\ Len(out[who[h]]) > MaxBuffered
            THEN CloseStream(h)
            ELSE /\ cursor' = [cursor EXCEPT ![h] = IF b = << >> THEN @ ELSE Last(b)]
                 /\ batch' = [batch EXCEPT ![h] = << >>]
                 /\ hpc' = [hpc EXCEPT ![h] = IF b = << >> THEN "sleeping" ELSE "polling"]
                 /\ UNCHANGED <<who, closed, emitted, openWatchConnections, link>>
  BY DEF Deliver
<1>3. CASE closed[h] /\ CloseStream(h) /\ wire' = wire
  BY <1>1, <1>3, CloseKeeps
<1>4. CASE ~closed[h] /\ wire' = out
  <2>1. Len(b) \in Nat /\ DOMAIN b = 1..Len(b) /\ \A i \in 1..Len(b) : b[i] \in Tokens
    BY <1>1
  <2>2. \A i \in 1..Len(b) : [event |-> TRUE, token |-> b[i]] \in Frames
    BY <2>1, WatchAssumption DEF Frames
  <2>3. fs \in Seq(Frames)
    <3>1. fs \in [1..Len(b) -> Frames]
      BY <2>1, <2>2
    <3> HIDE DEF fs
    <3> QED BY <2>1, <3>1
  <2>4. \A w \in Watchers : wire[w] \in Seq(Frames)
    BY DEF WatchTypeOK
  <2>5. /\ out \in [Watchers -> Seq(Frames)]
        /\ \A w \in Watchers : out[w] = IF link[w] = h THEN wire[w] \o fs ELSE wire[w]
    <3>1. \A w \in Watchers : wire[w] \o fs \in Seq(Frames)
      <4> HIDE DEF fs
      <4> QED BY <2>3, <2>4
    <3> HIDE DEF fs
    <3> QED BY <2>3, <3>1, WrittenFrames
  <2>6. ASSUME NEW w \in Watchers, link[w] = h
        PROVE  /\ who[h] = w /\ Served(h)
               /\ c = IF wire[w] = << >> THEN mark[w] ELSE wire[w][Len(wire[w])].token
               /\ Len(wire[w]) <= MaxBuffered
               /\ Len(out[w]) = Len(wire[w]) + Len(b)
               /\ FramesRun(history, mark[w], out[w])
               /\ b # << >> => out[w] # << >> /\ out[w][Len(out[w])].token = b[Len(b)]
               /\ b = << >> => out[w] = wire[w]
    <3>1. who[h] = w /\ Served(h) /\ LinkHolds(hpc[h], c, mark[w], wire[w])
      BY <2>6, WatchAssumption, OneClient
    <3>2. /\ c = IF wire[w] = << >> THEN mark[w] ELSE wire[w][Len(wire[w])].token
          /\ Len(wire[w]) <= MaxBuffered
      BY <1>1, <3>1 DEF LinkHolds
    <3>3. FramesRun(history, mark[w], wire[w])
      BY DEF ClientHolds
    <3>4. out[w] = wire[w] \o fs
      BY <2>5, <2>6
    <3>5. history \in Logs
      BY LogIsLog
    <3> DEFINE ws == wire[w]
               m == mark[w]
    <3>6. ws \in Seq(Frames)
      BY <2>4
    <3>7. /\ Len(ws \o fs) = Len(ws) + Len(b)
          /\ FramesRun(history, m, ws \o fs)
          /\ b # << >> => ws \o fs # << >> /\ (ws \o fs)[Len(ws \o fs)].token = b[Len(b)]
          /\ b = << >> => ws \o fs = ws
      <4>1. c = (IF ws = << >> THEN m ELSE ws[Len(ws)].token) /\ FramesRun(history, m, ws)
        BY <3>2, <3>3
      <4>2. c \in Nat /\ b \in Seq(Tokens) /\ Run(history, c, b)
        BY <1>1
      <4> HIDE DEF ws, m, c, b
      <4> QED BY <3>5, <3>6, <4>1, <4>2, FramesAppend
    <3> QED BY <3>1, <3>2, <3>4, <3>7
  <2> HIDE DEF fs, out
  <2>7. ASSUME NEW w \in Watchers
        PROVE  ClientHolds(history, mark[w], origin[w], received[w], out[w])
    <3>1. ClientHolds(history, mark[w], origin[w], received[w], wire[w])
      OBVIOUS
    <3>2. CASE link[w] = h
      <4>1. wire[w] \in Seq(Frames) /\ Len(wire[w]) \in Nat
        BY <2>4
      <4>2. Len(out[w]) <= MaxBuffered + BatchLimit
        <5>1. MaxBuffered \in Nat /\ BatchLimit \in Nat
          BY WatchAssumption
        <5>2. Len(wire[w]) <= MaxBuffered /\ Len(out[w]) = Len(wire[w]) + Len(b)
          BY <2>6, <3>2
        <5>3. Len(b) \in Nat /\ Len(b) <= BatchLimit
          BY <1>1, <2>1
        <5>4. Len(wire[w]) + Len(b) <= MaxBuffered + BatchLimit
          BY <4>1, <5>1, <5>2, <5>3, SumsAreBounded
        <5> QED BY <5>2, <5>4
      <4> QED BY <2>6, <3>1, <3>2, <4>2 DEF ClientHolds
    <3>3. CASE link[w] # h
      BY <2>5, <3>1, <3>3
    <3> QED BY <3>2, <3>3
  <2>8. CASE Served(h) /\ Len(out[who[h]]) > MaxBuffered
    <3>1. Forget(h) /\ openWatchConnections' = openWatchConnections - 1
      BY <1>2, <1>4, <2>8 DEF CloseStream
    <3>2. \A w \in Watchers : link[w] # None /\ link[w] # h => wire'[w] = wire[w]
      BY <1>4, <2>5
    <3> QED BY <1>1, <1>4, <2>5, <2>7, <3>1, <3>2, ForgetMoves
  <2>9. CASE ~(Served(h) /\ Len(out[who[h]]) > MaxBuffered)
    <3> DEFINE c1 == IF b = << >> THEN c ELSE b[Len(b)]
               pc1 == IF b = << >> THEN "sleeping" ELSE "polling"
    <3>1. /\ cursor' = [cursor EXCEPT ![h] = c1]
          /\ batch' = [batch EXCEPT ![h] = << >>]
          /\ hpc' = [hpc EXCEPT ![h] = pc1]
          /\ UNCHANGED <<who, closed, emitted, openWatchConnections, link>>
      BY <1>2, <1>4, <2>9 DEF Last
    <3>2. c1 \in Nat
      <4>1. b # << >> => Len(b) \in 1..Len(b)
        BY <2>1
      <4>2. \A x \in Tokens : x \in Nat
        BY WatchAssumption
      <4> QED BY <1>1, <2>1, <4>1, <4>2
    <3>3. pc1 \in Streaming /\ pc1 \in HandlerStates /\ pc1 # "fetched"
      BY DEF Streaming, HandlerStates
    <3>4. ASSUME NEW w \in Watchers, link[w] = h
          PROVE  who[h] = w /\ LinkHolds(pc1, c1, mark[w], out[w])
      <4>1. Len(out[w]) <= MaxBuffered
        <5>1. Served(h) /\ who[h] = w /\ Len(out[w]) = Len(wire[w]) + Len(b)
          BY <2>6, <3>4
        <5>2. Len(wire[w]) \in Nat /\ Len(b) \in Nat
          BY <2>1, <2>4
        <5>3. MaxBuffered \in Nat
          BY WatchAssumption
        <5>4. ~(Len(out[w]) > MaxBuffered)
          BY <2>9, <5>1
        <5>5. Len(out[w]) \in Nat
          BY <5>1, <5>2, SumsAreBounded
        <5> QED BY <5>3, <5>4, <5>5
      <4>2. c1 = IF out[w] = << >> THEN mark[w] ELSE out[w][Len(out[w])].token
        BY <2>6, <3>4
      <4>3. pc1 # "free" /\ pc1 \notin {"starting", "resolving"}
        OBVIOUS
      <4> QED BY <2>6, <3>4, <4>1, <4>2, <4>3 DEF LinkHolds
    <3> HIDE DEF c1, pc1
    <3>5. WatchTypeOK'
      BY <1>1, <1>4, <2>5, <3>1, <3>2, <3>3 DEF WatchTypeOK
    <3>6. SlotsHold'
      <4>1. OpenStreams' = OpenStreams
        BY <1>1, <3>1, <3>3, SlotsMove
      <4> QED BY <3>1, <4>1 DEF SlotsHold
    <3>7. hpc'[h] = pc1 /\ cursor'[h] = c1 /\ batch'[h] = << >>
      BY <3>1 DEF WatchTypeOK
    <3>8. HandlerHolds(history, hpc'[h], cursor'[h], batch'[h])
      BY <3>2, <3>3, <3>7 DEF HandlerHolds
    <3>9. ASSUME NEW w \in Watchers, link'[w] # None
          PROVE  \/ link'[w] = link[w] /\ link[w] # h /\ wire'[w] = wire[w]
                 \/ link'[w] = h /\ who'[h] = w /\ LinkHolds(hpc'[h], cursor'[h], mark[w], wire'[w])
      <4>1. CASE link[w] = h
        BY <1>4, <3>1, <3>4, <3>7, <4>1
      <4>2. CASE link[w] # h
        BY <1>4, <2>5, <3>1, <4>2
      <4> QED BY <4>1, <4>2
    <3>10. \A k \in Streams \ {h} : /\ hpc'[k] = hpc[k] /\ who'[k] = who[k]
                                    /\ cursor'[k] = cursor[k] /\ batch'[k] = batch[k]
      BY <3>1 DEF WatchTypeOK
    <3>11. \A w \in Watchers : ClientHolds(history, mark[w], origin[w], received[w], wire'[w])
      BY <1>4, <2>7
    <3> QED BY <1>1, <3>5, <3>6, <3>8, <3>9, <3>10, <3>11, HandlerMoves
  <2> QED BY <2>8, <2>9
<1> QED BY <1>2, <1>3, <1>4

LEMMA WakeKeeps ==
    ASSUME WatchInv, NEW h \in Streams, Wake(h)
    PROVE  WatchInv'
<1>1. hpc[h] = "sleeping" /\ UNCHANGED <<rows, history, wire, mark, origin, received>>
  BY DEF Wake
<1>2. hpc[h] \in Streaming /\ "polling" \in Streaming
  BY <1>1 DEF Streaming
<1>3. CASE closed[h]
  BY <1>1, <1>2, <1>3, CloseKeeps DEF Wake
<1>4. CASE ~closed[h]
  <2>1. hpc' = [hpc EXCEPT ![h] = "polling"]
        /\ UNCHANGED <<who, cursor, batch, closed, emitted, openWatchConnections, link>>
    BY <1>4 DEF Wake
  <2>2. cursor[h] \in Nat /\ batch[h] = << >>
    BY <1>1, <1>2 DEF WatchInv, HandlerHolds
  <2>3. batch' = [batch EXCEPT ![h] = << >>]
    <3>1. batch \in [Streams -> Seq(Tokens)]
      BY DEF WatchInv, WatchTypeOK
    <3> QED BY <2>1, <2>2, <3>1
  <2>4. << >> \in Seq(Tokens)
    OBVIOUS
  <2>5. HandlerHolds(history, "polling", cursor[h], << >>)
    BY <2>2 DEF HandlerHolds
  <2> QED BY <1>1, <1>2, <2>1, <2>2, <2>3, <2>4, <2>5, QuietMoves
<1> QED BY <1>3, <1>4

LEMMA EmitCloseKeeps ==
    ASSUME WatchInv, NEW h \in Streams, EmitClose(h)
    PROVE  WatchInv'
<1> USE DEF WatchInv
<1>1. /\ emitted' = [emitted EXCEPT ![h] = TRUE]
      /\ closed' = [closed EXCEPT ![h] = hpc[h] \in Streaming]
      /\ UNCHANGED <<rows, history, hpc, who, cursor, batch, openWatchConnections, link, wire, mark,
                     origin, received>>
  BY DEF EmitClose, clientVars
<1>2. WatchTypeOK'
  BY <1>1 DEF WatchTypeOK
<1> QED BY <1>1, <1>2 DEF SlotsHold, OpenStreams, StoreShape

\* What holds after a step of client w alone.
LEMMA ClientMoves ==
    ASSUME WatchInv, NEW w \in Watchers, UNCHANGED <<rows, history, handlerVars>>,
           WatchTypeOK',
           \A v \in Watchers \ {w} : /\ link'[v] = link[v] /\ wire'[v] = wire[v] /\ mark'[v] = mark[v]
                                     /\ origin'[v] = origin[v] /\ received'[v] = received[v],
           ClientHolds(history, mark'[w], origin'[w], received'[w], wire'[w]),
           link'[w] # None => /\ link'[w] = link[w]
                              /\ LinkHolds(hpc[link[w]], cursor[link[w]], mark'[w], wire'[w])
    PROVE  WatchInv'
<1> USE DEF WatchInv
<1>1. UNCHANGED <<hpc, who, cursor, batch, closed, emitted, openWatchConnections>>
  BY DEF handlerVars
<1>2. StoreShape'
  BY DEF StoreShape
<1>3. SlotsHold'
  BY <1>1 DEF SlotsHold, OpenStreams
<1>4. \A h \in Streams : HandlerHolds(history', hpc'[h], cursor'[h], batch'[h])
  BY <1>1
<1>5. ASSUME NEW v \in Watchers
      PROVE  ClientHolds(history', mark'[v], origin'[v], received'[v], wire'[v])
  <2>1. CASE v = w
    BY <2>1
  <2>2. CASE v # w
    BY <2>2
  <2> QED BY <2>1, <2>2
<1>6. ASSUME NEW v \in Watchers, link'[v] # None
      PROVE  /\ who'[link'[v]] = v
             /\ LinkHolds(hpc'[link'[v]], cursor'[link'[v]], mark'[v], wire'[v])
  <2>1. CASE v = w
    BY <1>1, <1>6, <2>1
  <2>2. CASE v # w
    BY <1>1, <1>6, <2>2
  <2> QED BY <2>1, <2>2
<1> QED BY <1>2, <1>3, <1>4, <1>5, <1>6

\* A client that gets the first frame on its wire knows a little more.
LEMMA ReceiveKeeps ==
    ASSUME WatchInv, NEW w \in Watchers, Receive(w)
    PROVE  WatchInv'
<1> USE DEF WatchInv
<1> DEFINE ws == wire[w]
           f == Head(ws)
           got == received[w]
           m == mark[w]
           o == origin[w]
           o1 == IF o = None THEN f.token ELSE o
           got1 == IF f.event THEN Append(got, f.token) ELSE got
<1>1. /\ ws # << >> /\ ws \in Seq(Frames) /\ got \in Seq(Tokens)
      /\ m \in Nat \cup {None} /\ o \in Nat \cup {None}
  BY DEF Receive, WatchTypeOK
<1>2. /\ mark' = [mark EXCEPT ![w] = f.token]
      /\ origin' = [origin EXCEPT ![w] = o1]
      /\ received' = [received EXCEPT ![w] = got1]
      /\ wire' = [wire EXCEPT ![w] = Tail(ws)]
      /\ UNCHANGED <<rows, history, handlerVars, link>>
  BY DEF Receive
<1>3. ClientHolds(history, m, o, got, ws)
  OBVIOUS
<1>4. /\ Len(ws) \in Nat /\ Len(ws) # 0 /\ DOMAIN ws = 1..Len(ws) /\ 1 \in DOMAIN ws /\ f = ws[1]
      /\ Tail(ws) \in Seq(Frames) /\ Len(Tail(ws)) = Len(ws) - 1
      /\ DOMAIN Tail(ws) = 1..(Len(ws) - 1)
      /\ \A i \in 1..(Len(ws) - 1) : Tail(ws)[i] = ws[i + 1]
  BY <1>1
<1>5. f \in Frames /\ f.token \in Nat /\ f.event \in BOOLEAN /\ f.token # None
  <2>1. f \in Frames
    BY <1>1, <1>4
  <2>2. f.token \in Nat /\ f.event \in BOOLEAN
    BY <2>1 DEF Frames
  <2> QED BY <2>1, <2>2, WatchAssumption
<1>6. \/ f.event /\ Follows(history, m, f.token) /\ m # None
      \/ ~f.event /\ (m # None => f.token = m)
  BY <1>3, <1>4, <1>5 DEF ClientHolds, FramesRun
<1>7. FramesRun(history, f.token, Tail(ws))
  <2> SUFFICES ASSUME NEW i \in 1..(Len(ws) - 1)
               PROVE  /\ ws[i + 1].event
                      /\ Follows(history, IF i = 1 THEN f.token ELSE ws[i].token, ws[i + 1].token)
    <3>1. \A i \in 1..(Len(ws) - 1) : i # 1 => i - 1 \in 1..(Len(ws) - 1) /\ (i - 1) + 1 = i
      BY <1>4
    <3> HIDE DEF ws, f
    <3> QED BY <1>4, <1>5, <3>1 DEF FramesRun
  <2>1. i + 1 \in DOMAIN ws /\ i + 1 # 1 /\ (i + 1) - 1 = i
    BY <1>4
  <2>2. ws[i + 1].event /\ Follows(history, ws[i].token, ws[i + 1].token)
    <3> HIDE DEF ws, f
    <3> QED BY <1>3, <2>1 DEF ClientHolds, FramesRun
  <2> QED BY <1>4, <2>2
<1> HIDE DEF ws, f, got, m, o
<1>8. ASSUME f.event
      PROVE  /\ got1 = Append(got, f.token) /\ got1 \in Seq(Tokens) /\ got1 # << >>
             /\ got1[Len(got1)] = f.token /\ o1 = o /\ o # None
             /\ Run(history, o, got1)
  <2>1. Follows(history, m, f.token) /\ m # None /\ o # None
    BY <1>3, <1>6, <1>8 DEF ClientHolds
  <2>2. f.token \in Tokens
    <3>1. history \in Logs /\ m \in Nat
      BY <1>1, <2>1, LogIsLog
    <3> QED BY <2>1, <3>1, DueNumbers DEF Follows
  <2>3. /\ Len(got) \in Nat /\ got1 = Append(got, f.token) /\ Len(got1) = Len(got) + 1
        /\ DOMAIN got1 = 1..(Len(got) + 1) /\ \A i \in 1..Len(got) : got1[i] = got[i]
        /\ got1[Len(got) + 1] = f.token /\ got1 \in Seq(Tokens)
    BY <1>1, <1>8, <2>2
  <2>4. ASSUME NEW i \in 1..(Len(got) + 1)
        PROVE  Follows(history, IF i = 1 THEN o ELSE got1[i - 1], got1[i])
    <3>1. CASE i \in 1..Len(got)
      <4>1. got1[i] = got[i] /\ (i # 1 => got1[i - 1] = got[i - 1]) /\ i \in DOMAIN got
        BY <1>1, <2>3, <3>1
      <4> QED BY <1>3, <4>1 DEF ClientHolds, Run
    <3>2. CASE i = Len(got) + 1
      <4>1. (IF i = 1 THEN o ELSE got1[i - 1]) = m
        <5>1. CASE got = << >>
          <6>1. i = 1 /\ m = o
            BY <1>3, <2>1, <3>2, <5>1 DEF ClientHolds
          <6> QED BY <6>1
        <5>2. CASE got # << >>
          <6>1. i # 1 /\ i - 1 = Len(got) /\ Len(got) \in 1..Len(got)
            BY <1>1, <2>3, <3>2, <5>2
          <6>2. m = got[Len(got)]
            BY <1>3, <2>1, <5>2 DEF ClientHolds
          <6> QED BY <2>3, <6>1, <6>2
        <5> QED BY <5>1, <5>2
      <4> QED BY <2>1, <2>3, <3>2, <4>1
    <3> QED BY <2>3, <3>1, <3>2
  <2> HIDE DEF got1
  <2>5. Run(history, o, got1)
    BY <2>3, <2>4 DEF Run
  <2>6. got1 # << >>
    BY <2>3
  <2> QED BY <2>1, <2>3, <2>5, <2>6
<1>9. ASSUME ~f.event
      PROVE  /\ got1 = got /\ (got = << >> => o1 = f.token) /\ (got # << >> => o1 = o)
             /\ (got # << >> => f.token = got[Len(got)])
             /\ Run(history, o1, got)
  <2>1. got1 = got /\ (m # None => f.token = m)
    BY <1>6, <1>9
  <2>2. CASE m = None
    <3>1. got = << >> /\ o = None
      BY <1>3, <2>2 DEF ClientHolds
    <3>2. Run(history, o1, << >>)
      BY DEF Run
    <3> QED BY <2>1, <3>1, <3>2
  <2>3. CASE m # None
    <3>1. o # None /\ o1 = o /\ m = IF got = << >> THEN o ELSE got[Len(got)]
      BY <1>3, <2>3 DEF ClientHolds
    <3> QED BY <1>3, <2>1, <2>3, <3>1 DEF ClientHolds
  <2> QED BY <2>2, <2>3
<1>10. o1 \in Nat /\ o1 # None /\ got1 \in Seq(Tokens)
  BY <1>1, <1>5, <1>8, <1>9
<1>11. ClientHolds(history, f.token, o1, got1, Tail(ws))
  <2>1. f.token = IF got1 = << >> THEN o1 ELSE got1[Len(got1)]
    BY <1>5, <1>8, <1>9
  <2>2. Run(history, o1, got1)
    BY <1>5, <1>8, <1>9
  <2>3. Len(Tail(ws)) <= MaxBuffered + BatchLimit
    <3>1. Len(ws) <= MaxBuffered + BatchLimit
      BY <1>3 DEF ClientHolds
    <3>2. MaxBuffered \in Nat /\ BatchLimit \in Nat
      BY WatchAssumption
    <3> QED BY <1>4, <3>1, <3>2
  <2> HIDE DEF o1, got1
  <2> QED BY <1>5, <1>7, <1>10, <2>1, <2>2, <2>3 DEF ClientHolds
<1>12. mark'[w] = f.token /\ origin'[w] = o1 /\ received'[w] = got1 /\ wire'[w] = Tail(ws)
  BY <1>2 DEF WatchTypeOK
<1>13. ASSUME link[w] # None
       PROVE  LinkHolds(hpc[link[w]], cursor[link[w]], f.token, Tail(ws))
  <2> DEFINE pc == hpc[link[w]]
             c == cursor[link[w]]
  <2>1. LinkHolds(pc, c, m, ws) /\ pc \in HandlerStates
    BY <1>13, WatchAssumption DEF m, ws, WatchTypeOK
  <2> HIDE DEF pc, c
  <2>2. pc \in Streaming /\ c = ws[Len(ws)].token /\ Len(ws) <= MaxBuffered
    BY <1>1, <2>1 DEF LinkHolds, HandlerStates
  <2>3. c = IF Tail(ws) = << >> THEN f.token ELSE Tail(ws)[Len(Tail(ws))].token
    <3>1. CASE Len(ws) = 1
      <4>1. Tail(ws) = << >>
        BY <1>4, <3>1
      <4> QED BY <1>4, <2>2, <3>1, <4>1
    <3>2. CASE Len(ws) # 1
      <4>1. Len(ws) - 1 \in 1..(Len(ws) - 1) /\ (Len(ws) - 1) + 1 = Len(ws)
        BY <1>4, <3>2
      <4>2. Tail(ws)[Len(ws) - 1] = ws[Len(ws)]
        BY <1>4, <4>1
      <4> HIDE DEF WatchInv
      <4>3. Tail(ws) # << >>
        BY <1>4, <4>1
      <4> QED BY <1>4, <2>2, <4>2, <4>3
    <3> QED BY <3>1, <3>2
  <2>4. Len(Tail(ws)) <= MaxBuffered
    <3>1. MaxBuffered \in Nat
      BY WatchAssumption
    <3> QED BY <1>4, <2>2, <3>1
  <2>5. LinkHolds(pc, c, f.token, Tail(ws))
    BY <2>2, <2>3, <2>4 DEF LinkHolds, Streaming
  <2> QED BY <2>5 DEF pc, c
<1> HIDE DEF o1, got1
<1>14. WatchTypeOK'
  BY <1>2, <1>4, <1>5, <1>10 DEF WatchTypeOK, handlerVars
<1>15. \A v \in Watchers \ {w} : /\ link'[v] = link[v] /\ wire'[v] = wire[v] /\ mark'[v] = mark[v]
                                 /\ origin'[v] = origin[v] /\ received'[v] = received[v]
  BY <1>2 DEF WatchTypeOK
<1> QED BY <1>2, <1>11, <1>12, <1>13, <1>14, <1>15, ClientMoves

LEMMA VanishKeeps ==
    ASSUME WatchInv, NEW w \in Watchers, Vanish(w)
    PROVE  WatchInv'
<1> USE DEF WatchInv
<1>1. /\ link' = [link EXCEPT ![w] = None] /\ wire' = [wire EXCEPT ![w] = << >>]
      /\ UNCHANGED <<rows, history, handlerVars, mark, origin, received>>
  BY DEF Vanish
<1>2. << >> \in Seq(Frames)
  OBVIOUS
<1>3. WatchTypeOK'
  BY <1>1, <1>2 DEF WatchTypeOK, handlerVars
<1>4. link'[w] = None /\ wire'[w] = << >>
  BY <1>1 DEF WatchTypeOK
<1>5. FramesRun(history, mark[w], << >>) /\ Len(<< >>) <= MaxBuffered + BatchLimit
  BY WatchAssumption DEF FramesRun
<1>6. ClientHolds(history, mark[w], origin[w], received[w], wire[w])
  OBVIOUS
<1>7. ClientHolds(history, mark[w], origin[w], received[w], << >>)
  BY <1>5, <1>6 DEF ClientHolds
<1>8. \A v \in Watchers \ {w} : link'[v] = link[v] /\ wire'[v] = wire[v]
  BY <1>1 DEF WatchTypeOK
<1> QED BY <1>1, <1>3, <1>4, <1>7, <1>8, ClientMoves

LEMMA WatchInvariance == WatchSpec => []WatchInv
<1>1. ASSUME WatchInv, [WatchNext]_watchVars PROVE WatchInv'
  <2>1. CASE Write
    BY <1>1, <2>1, WriteKeepsFeed
  <2>2. ASSUME NEW w \in Watchers, NEW h \in Streams, Connect(w, h) PROVE WatchInv'
    BY <1>1, <2>2, ConnectKeeps
  <2>3. ASSUME NEW w \in Watchers, Receive(w) PROVE WatchInv'
    BY <1>1, <2>3, ReceiveKeeps
  <2>4. ASSUME NEW w \in Watchers, Vanish(w) PROVE WatchInv'
    BY <1>1, <2>4, VanishKeeps
  <2>5. ASSUME NEW h \in Streams, HandlerStep(h) PROVE WatchInv'
    <3>1. CASE ResolveSince(h)
      BY <1>1, <3>1, ResolveKeeps
    <3>2. CASE Open(h)
      BY <1>1, <3>2, OpenKeeps
    <3>3. CASE Fetch(h)
      BY <1>1, <3>3, FetchKeeps
    <3>4. CASE Deliver(h)
      BY <1>1, <3>4, DeliverKeeps
    <3>5. CASE Wake(h)
      BY <1>1, <3>5, WakeKeeps
    <3>6. CASE PollFails(h)
      <4>1. hpc[h] \in Streaming /\ CloseStream(h)
            /\ UNCHANGED <<rows, history, wire, mark, origin, received>>
        BY <3>6 DEF PollFails, Streaming
      <4> QED BY <1>1, <4>1, CloseKeeps
    <3>7. CASE EmitClose(h)
      BY <1>1, <3>7, EmitCloseKeeps
    <3> QED BY <2>5, <3>1, <3>2, <3>3, <3>4, <3>5, <3>6, <3>7 DEF HandlerStep, Proceed
  <2>6. CASE UNCHANGED watchVars
    BY <1>1, <2>6 DEF watchVars, handlerVars, clientVars, WatchInv, StoreShape, WatchTypeOK, SlotsHold,
                      OpenStreams
  <2> QED BY <1>1, <2>1, <2>2, <2>3, <2>4, <2>5, <2>6 DEF WatchNext
<1> QED BY <1>1, WatchInvInit, PTL DEF WatchSpec

\* The types of the handlers and the clients of the watch stream (GET /watch,
\* server.ts:1782-1970).
THEOREM WatchTypeCorrect == WatchSpec => []WatchTypeOK
<1>1. WatchInv => WatchTypeOK
  BY DEF WatchInv
<1> QED BY <1>1, WatchInvariance, PTL

\* Every way out of the loop of GET /watch gives the slot back, once, the cap
\* holds, and a client that does not read holds at most the buffer limit and
\* one batch.
THEOREM StreamsBounded == WatchSpec => []StreamsStayBounded
<1>1. WatchInv => StreamsStayBounded
  BY DEF WatchInv, SlotsHold, OpenStreams, ClientHolds, StreamsStayBounded
<1> QED BY <1>1, WatchInvariance, PTL

\* Whatever the number of clients, streams, failures and reconnects, what a
\* client of /watch has got is every write of its namespace from its first
\* token to the last it got, each once and in commit order.
THEOREM NoGap == WatchSpec => []WatchNoGap
<1>1. ASSUME WatchInv PROVE WatchNoGap
  <2> SUFFICES ASSUME NEW w \in Watchers, received[w] # << >>
               PROVE  /\ Ascends(received[w])
                      /\ Range(received[w]) = { t \in Due(origin[w]) : t <= Last(received[w]) }
    BY DEF WatchNoGap, Ascends
  <2> DEFINE got == received[w]
             o == origin[w]
  <2>1. /\ got \in Seq(Tokens) /\ o \in Nat \cup {None}
        /\ ClientHolds(history, mark[w], o, got, wire[w]) /\ history \in Logs
    BY <1>1, LogIsLog DEF WatchInv, WatchTypeOK
  <2>2. o \in Nat /\ Run(history, o, got)
    BY <2>1 DEF ClientHolds
  <2>3. got \in Seq(Nat)
    <3>1. Tokens \subseteq Nat
      BY WatchAssumption
    <3> QED BY <2>1, <3>1, WiderSeq
  <2>4. Due(o) = DueIn(history, o)
    BY <1>1, DueIsDueIn DEF WatchInv
  <2> HIDE DEF got, o
  <2>5. /\ Ascends(got)
        /\ { got[i] : i \in DOMAIN got } = { t \in DueIn(history, o) : t <= got[Len(got)] }
    <3>1. got # << >>
      BY DEF got
    <3> QED BY <2>1, <2>2, <2>3, <3>1, RunIsAll
  <2> QED BY <2>4, <2>5 DEF got, o, Range, Last
<1> QED BY <1>1, WatchInvariance, PTL
=============================================================================
