---------------------------- MODULE LeopardIndex ----------------------------
(***************************************************************************)
(* The relation membership index (src/store/relation-index.ts) over the    *)
(* abstract store that TupleStore implements: rebuilds by the refresh loop *)
(* and by operators, pinned checks that try the index before the graph     *)
(* walk (resolve, src/resolve/production/resolver.ts), and listObjects,    *)
(* which takes its candidates from it (src/audit/list.ts).                 *)
(* One subject is followed; a relation of an object is a root, and a route *)
(* of a root is the sequence of facts of one simple path from it to the    *)
(* subject, the subject's own fact last.                                   *)
(***************************************************************************)
EXTENDS AtomicStore, FiniteSets

CONSTANTS Roots,      \* (object, relation) pairs of plain relations
          Routes,     \* the routes of each root
          MaxDepth,   \* the largest options.maxDepth of a check, in hops
          ListLimit,  \* LIST_OBJECTS_MAX_CANDIDATES
          MaxNow,     \* the last instant of the clock
          Rebuilds,   \* concurrent activations of rebuildRelationMembershipIndex
          Checks,     \* concurrent pinned checks with the index enabled
          Lists       \* activations of listObjects, unpinned

ASSUME LeopardAssumption ==
    /\ Routes \in [Roots -> SUBSET (Seq(Facts) \ {<< >>})]
    /\ IsFiniteSet(Roots)
    /\ MaxDepth \in Nat /\ ListLimit \in Nat \ {0} /\ MaxNow \in Nat
    /\ Tokens \subseteq Nat \ {0}
    /\ Expiries \subseteq Nat
    /\ None \notin Nat /\ NoExpiry \notin Nat /\ None # NoExpiry

VARIABLES now,        \* the clock
          index,      \* relation_membership_index: the row of each root, or None
          mark,       \* watermark_token
          built,      \* the snapshot the committed index was built from
          rpc,        \* where each rebuild is
          rnow,       \* now() of its transaction
          rsnap,      \* its snapshot
          rfresh,     \* no other rebuild has committed since that snapshot
          rmark,      \* the watermark it read
          filled,     \* the rows it inserted, invisible to others until COMMIT
          cpc,        \* where each check is
          pin,        \* its atToken
          budget,     \* the depth left for the walk of a relation
          asOf,       \* now() of its transaction
          snap,       \* its snapshot, with the watermark in it
          fresh,      \* no rebuild has committed since that snapshot
          sharing,    \* it has read the index table and holds ACCESS SHARE
          answers,    \* what it found for each root, and in which state of the store
          lpc,        \* where each listObjects is
          lmark,      \* the watermark it read
          cands,      \* candidate objects not checked yet
          listed,     \* objects found allowed
          truncated,  \* more candidates than the limit
          held        \* objects the subject has reached ever since it started

storeVars == <<rows, history>>
indexVars == <<index, mark, built>>
rebuildVars == <<rpc, rnow, rsnap, rfresh, rmark, filled>>
checkVars == <<cpc, pin, budget, asOf, snap, fresh, sharing, answers>>
listVars == <<lpc, lmark, cands, listed, truncated>>
leopardVars == <<storeVars, now, indexVars, rebuildVars, checkVars, listVars, held>>

Empty == [r \in Roots |-> None]
NoFact == [f \in Facts |-> None]
\* A state of the store: the rows, and how far into write_log they are.
State == [rows |-> rows, upTo |-> Len(history)]

Live(row, t) == row # None /\ (row # NoExpiry => row > t)
Open(rs, t, p) == \A i \in DOMAIN p : Live(rs[p[i]], t)
Hops(p) == Len(p) - 1

\* sqlRelationMembershipWithWitness: a live route of at most d hops.
Reaches(rs, t, r, d) == \E p \in Routes[r] : Hops(p) <= d /\ Open(rs, t, p)
Reached(rs, t) == {r \in Roots : Reaches(rs, t, r, MaxDepth)}

\* The token of the last of the first n entries: max(token), 0 if there is none.
Watermark(n) == IF n = 0 THEN 0 ELSE history[n].token

LeopardInit ==
    /\ Init
    /\ now = 0
    /\ index = Empty /\ mark = 0 /\ built = State
    /\ rpc = [b \in Rebuilds |-> "idle"]
    /\ rnow = [b \in Rebuilds |-> 0]
    /\ rsnap = [b \in Rebuilds |-> None]
    /\ rfresh = [b \in Rebuilds |-> FALSE]
    /\ rmark = [b \in Rebuilds |-> 0]
    /\ filled = [b \in Rebuilds |-> Empty]
    /\ cpc = [k \in Checks |-> "idle"]
    /\ pin = [k \in Checks |-> 0]
    /\ budget = [k \in Checks |-> 0]
    /\ asOf = [k \in Checks |-> 0]
    /\ snap = [k \in Checks |-> None]
    /\ fresh = [k \in Checks |-> FALSE]
    /\ sharing = [k \in Checks |-> FALSE]
    /\ answers = [k \in Checks |-> Empty]
    /\ lpc = [l \in Lists |-> "idle"]
    /\ lmark = [l \in Lists |-> 0]
    /\ cands = [l \in Lists |-> {}]
    /\ listed = [l \in Lists |-> {}]
    /\ truncated = [l \in Lists |-> FALSE]
    /\ held = [l \in Lists |-> {}]

-----------------------------------------------------------------------------
(* The store and the clock.  held is the reader's memory, no part of the code. *)

StillHeld(rs, t) == [l \in Lists |-> held[l] \cap Reached(rs, t)]

Write(r, t) == /\ Perform(r, t)
               /\ held' = StillHeld(rows', now)
               /\ UNCHANGED <<now, indexVars, rebuildVars, checkVars, listVars>>

Tick == /\ now < MaxNow
        /\ now' = now + 1
        /\ held' = StillHeld(rows, now + 1)
        /\ UNCHANGED <<storeVars, indexVars, rebuildVars, checkVars, listVars>>

-----------------------------------------------------------------------------
(* rebuildRelationMembershipIndex. *)

RebuildUnchanged == UNCHANGED <<storeVars, now, checkVars, listVars, held>>

\* Some rebuild holds the ACCESS EXCLUSIVE of its TRUNCATE.
Excluding == \E b \in Rebuilds : rpc[b] = "filled"

\* BEGIN ISOLATION LEVEL REPEATABLE READ: now() is fixed, the snapshot is not.
BeginRebuild(b) ==
    /\ rpc[b] = "idle"
    /\ rpc' = [rpc EXCEPT ![b] = "begun"]
    /\ rnow' = [rnow EXCEPT ![b] = now]
    /\ UNCHANGED <<rsnap, rfresh, rmark, filled, indexVars>>

\* The lock statement takes the snapshot before it tries the lock.
AnchorRebuild(b) ==
    /\ rpc[b] = "begun"
    /\ rpc' = [rpc EXCEPT ![b] = "anchored"]
    /\ rsnap' = [rsnap EXCEPT ![b] = State]
    /\ rfresh' = [rfresh EXCEPT ![b] = TRUE]
    /\ UNCHANGED <<rnow, rmark, filled, indexVars>>

EndRebuild(b) ==
    /\ rpc' = [rpc EXCEPT ![b] = "idle"]
    /\ rnow' = [rnow EXCEPT ![b] = 0]
    /\ rsnap' = [rsnap EXCEPT ![b] = None]
    /\ rmark' = [rmark EXCEPT ![b] = 0]
    /\ filled' = [filled EXCEPT ![b] = Empty]

Leave(b) == EndRebuild(b) /\ rfresh' = [rfresh EXCEPT ![b] = FALSE] /\ UNCHANGED indexVars

\* Mutant: READ COMMITTED, an update of a row that changed goes through.
AnyUpdate(b) == TRUE

\* The update of the state row is refused (40001) if a rebuild committed since
\* the snapshot.
UpdateGoesThrough(b) == rfresh[b]

\* Mutant: the watermark comes from another connection, not from the snapshot.
WatermarkFromPool(b) == Watermark(Len(history))

WatermarkRead(b) == Watermark(rsnap[b].upTo)

\* The lock, not waited for; then the update that stamps the start and the
\* watermark, which nothing another session does can come between.
TryLock(b) ==
    /\ rpc[b] = "anchored"
    /\ IF UpdateGoesThrough(b) /\ \A o \in Rebuilds : rpc[o] \notin {"locked", "filled"}
       THEN /\ rpc' = [rpc EXCEPT ![b] = "locked"]
            /\ rmark' = [rmark EXCEPT ![b] = WatermarkRead(b)]
            /\ UNCHANGED <<rnow, rsnap, rfresh, filled, indexVars>>
       ELSE Leave(b)

\* A row for route p: min_expires_at is the least of the expires_at on it.
IsRowOf(row, rs, p) ==
    /\ row.path = p
    /\ \A i \in DOMAIN p : rs[p[i]] # NoExpiry => /\ row.minExpires # NoExpiry
                                                  /\ row.minExpires <= rs[p[i]]
    /\ row.minExpires # NoExpiry => \E i \in DOMAIN p : row.minExpires = rs[p[i]]

IndexRows == [path : UNION {Routes[r] : r \in Roots}, minExpires : Expiries \cup {NoExpiry}]

\* The row the closure gives root r: of a shortest open route, or none.
Closure(row, rs, t, r) ==
    IF row = None
    THEN \A p \in Routes[r] : ~ Open(rs, t, p)
    ELSE \E p \in Routes[r] :
            /\ Open(rs, t, p)
            /\ \A q \in Routes[r] : Open(rs, t, q) => Len(p) <= Len(q)
            /\ IsRowOf(row, rs, p)

\* TRUNCATE, which waits for every transaction that has read the table and from
\* then on keeps all others out, the recursive insert, the update of the state row.
Refill(b) ==
    /\ rpc[b] = "locked"
    /\ ~ \E k \in Checks : sharing[k]
    /\ \E new \in [Roots -> IndexRows \cup {None}] :
          /\ \A r \in Roots : Closure(new[r], rsnap[b].rows, rnow[b], r)
          /\ filled' = [filled EXCEPT ![b] = new]
    /\ rpc' = [rpc EXCEPT ![b] = "filled"]
    /\ UNCHANGED <<rnow, rsnap, rfresh, rmark, indexVars>>

\* COMMIT: rows and watermark appear together, and every snapshot taken before
\* finds the truncated table empty from now on.
Publish(b) ==
    /\ rpc[b] = "filled"
    /\ index' = filled[b]
    /\ mark' = rmark[b]
    /\ built' = rsnap[b]
    /\ rfresh' = [o \in Rebuilds |-> FALSE]
    /\ fresh' = [k \in Checks |-> FALSE]
    /\ EndRebuild(b)
    /\ UNCHANGED <<storeVars, now, cpc, pin, budget, asOf, snap, sharing, answers, listVars, held>>

\* --dry-run, a statement that fails, a lost connection: the rows are as before.
RollBack(b) == rpc[b] # "idle" /\ Leave(b)

Rebuild(b) == \/ BeginRebuild(b) \/ AnchorRebuild(b) \/ TryLock(b) \/ Refill(b)
              \/ RollBack(b)

-----------------------------------------------------------------------------
(* A pinned check whose walk meets plain relations, one after the other. *)

CheckUnchanged == UNCHANGED <<storeVars, now, indexVars, rebuildVars, listVars, held>>

\* The preflight on the pool has passed; BEGIN fixes now().
BeginCheck(k, p, d) ==
    /\ cpc[k] = "idle"
    /\ \E i \in DOMAIN history : p <= history[i].token
    /\ cpc' = [cpc EXCEPT ![k] = "open"]
    /\ pin' = [pin EXCEPT ![k] = p]
    /\ budget' = [budget EXCEPT ![k] = d]
    /\ asOf' = [asOf EXCEPT ![k] = now]
    /\ UNCHANGED <<snap, fresh, sharing, answers>>

\* assertTokenObservedOnSnapshot anchors the snapshot.
AnchorCheck(k) ==
    /\ cpc[k] = "open"
    /\ cpc' = [cpc EXCEPT ![k] = "walking"]
    /\ snap' = [snap EXCEPT ![k] = [state |-> State, mark |-> mark]]
    /\ fresh' = [fresh EXCEPT ![k] = TRUE]
    /\ UNCHANGED <<pin, budget, asOf, sharing, answers>>

\* The four conditions of a hit: the watermark reaches the floor, the snapshot
\* sees this generation of the table, the row is live, its path is in budget.
Usable(k, row) ==
    /\ fresh[k]
    /\ snap[k].mark >= pin[k]
    /\ row # None
    /\ row.minExpires # NoExpiry => row.minExpires > asOf[k]
    /\ Hops(row.path) <= budget[k]

Answered(k, r, allowed, s) ==
    answers' = [answers EXCEPT ![k][r] = [allowed |-> allowed, of |-> s]]

\* sqlRelationMembershipWithWitness, which reads nothing but the snapshot.
WalkGraph(k, r) == LET s == snap[k].state
                   IN  Answered(k, r, Reaches(s.rows, asOf[k], r, budget[k]), s)

\* SAVEPOINT and lookupRelationMembershipIndex, and after a miss the walk.  A
\* watermark below the floor returns before the table is touched; otherwise it is
\* read under ACCESS SHARE, which a rebuild that has truncated it keeps waiting.
Lookup(k, r) ==
    /\ cpc[k] = "walking" /\ answers[k][r] = None
    /\ snap[k].mark >= pin[k] => ~ Excluding
    /\ sharing' = [sharing EXCEPT ![k] = @ \/ snap[k].mark >= pin[k]]
    /\ IF Usable(k, index[r]) THEN Answered(k, r, TRUE, built) ELSE WalkGraph(k, r)
    /\ UNCHANGED <<cpc, pin, budget, asOf, snap, fresh>>

\* The lookup fails, by a lock timeout for one: ROLLBACK TO SAVEPOINT, and a miss.
LookupFails(k, r) ==
    /\ cpc[k] = "walking" /\ answers[k][r] = None
    /\ WalkGraph(k, r)
    /\ UNCHANGED <<cpc, pin, budget, asOf, snap, fresh, sharing>>

\* COMMIT, or any statement that fails outside of a lookup.
EndCheck(k) ==
    /\ cpc[k] # "idle"
    /\ cpc' = [cpc EXCEPT ![k] = "idle"]
    /\ pin' = [pin EXCEPT ![k] = 0]
    /\ budget' = [budget EXCEPT ![k] = 0]
    /\ asOf' = [asOf EXCEPT ![k] = 0]
    /\ snap' = [snap EXCEPT ![k] = None]
    /\ fresh' = [fresh EXCEPT ![k] = FALSE]
    /\ sharing' = [sharing EXCEPT ![k] = FALSE]
    /\ answers' = [answers EXCEPT ![k] = Empty]

Check(k) == \/ \E p \in Tokens, d \in 0..MaxDepth : BeginCheck(k, p, d)
            \/ AnchorCheck(k)
            \/ \E r \in Roots : Lookup(k, r) \/ LookupFails(k, r)
            \/ EndCheck(k)

-----------------------------------------------------------------------------
(* listObjects, with the candidates of fetchReverseIndexCandidates or of the *)
(* scan; each statement is a transaction of its own.                         *)

ListUnchanged == UNCHANGED <<storeVars, now, indexVars, rebuildVars, checkVars>>

\* Accelerated, or not if the index is off or the relation takes a wildcard.
BeginList(l) ==
    /\ lpc[l] = "idle"
    /\ lpc' = [lpc EXCEPT ![l] = "scan"] \/ lpc' = [lpc EXCEPT ![l] = "watermark"]
    /\ held' = [held EXCEPT ![l] = Reached(rows, now)]
    /\ UNCHANGED <<lmark, cands, listed, truncated>>

ReadWatermark(l) ==
    /\ lpc[l] = "watermark"
    /\ lmark' = [lmark EXCEPT ![l] = mark]
    /\ lpc' = [lpc EXCEPT ![l] = "current"]
    /\ UNCHANGED <<cands, listed, truncated, held>>

\* Mutant: the index counts as complete if it has been built at all.
CaughtUpOnce(l) == lmark[l] > 0 \/ Len(history) = 0

\* Gate 2: watermark >= currentToken, read after it.
CaughtUp(l) == lmark[l] >= Watermark(Len(history))

ReadCurrent(l) ==
    /\ lpc[l] = "current"
    /\ lpc' = [lpc EXCEPT ![l] = IF CaughtUp(l) THEN "reverse" ELSE "scan"]
    /\ lmark' = [lmark EXCEPT ![l] = 0]
    /\ UNCHANGED <<cands, listed, truncated, held>>

\* The first of a result, one more than the limit having been asked for.
TakeCandidates(l, ids) ==
    /\ \E some \in SUBSET ids :
          /\ Cardinality(some) = IF Cardinality(ids) > ListLimit THEN ListLimit ELSE Cardinality(ids)
          /\ cands' = [cands EXCEPT ![l] = some]
    /\ truncated' = [truncated EXCEPT ![l] = Cardinality(ids) > ListLimit]
    /\ lpc' = [lpc EXCEPT ![l] = "checking"]

\* Gate 3: an empty result, like one that fails, is a miss.
ReadReverse(l) ==
    /\ lpc[l] = "reverse"
    /\ ~ Excluding
    /\ LET ids == {r \in Roots : index[r] # None}
       IN  IF ids = {}
           THEN lpc' = [lpc EXCEPT ![l] = "scan"] /\ UNCHANGED <<cands, truncated>>
           ELSE TakeCandidates(l, ids)
    /\ UNCHANGED <<lmark, listed, held>>

ReverseFails(l) ==
    /\ lpc[l] = "reverse"
    /\ lpc' = [lpc EXCEPT ![l] = "scan"]
    /\ UNCHANGED <<lmark, cands, listed, truncated, held>>

\* fetchCandidateObjectIds: every object that some tuple names.
Scan(l) ==
    /\ lpc[l] = "scan"
    /\ TakeCandidates(l, {r \in Roots : \E p \in Routes[r] : rows[p[1]] # None})
    /\ UNCHANGED <<lmark, listed, held>>

\* checkCandidatesConcurrently: a check of one candidate.
CheckCandidate(l, r) ==
    /\ lpc[l] = "checking" /\ r \in cands[l]
    /\ cands' = [cands EXCEPT ![l] = @ \ {r}]
    /\ listed' = [listed EXCEPT ![l] = IF Reaches(rows, now, r, MaxDepth) THEN @ \cup {r} ELSE @]
    /\ UNCHANGED <<lpc, lmark, truncated, held>>

FinishList(l) ==
    /\ lpc[l] = "checking" /\ cands[l] = {}
    /\ lpc' = [lpc EXCEPT ![l] = "done"]
    /\ UNCHANGED <<lmark, cands, listed, truncated, held>>

List(l) == \/ BeginList(l) \/ ReadWatermark(l) \/ ReadCurrent(l) \/ ReadReverse(l)
           \/ ReverseFails(l) \/ Scan(l) \/ FinishList(l)
           \/ \E r \in Roots : CheckCandidate(l, r)

LeopardNext == \/ \E r \in Requests, t \in Tokens : Write(r, t)
               \/ Tick
               \/ \E b \in Rebuilds : \/ Rebuild(b) /\ RebuildUnchanged
                                      \/ Publish(b)
               \/ \E k \in Checks : Check(k) /\ CheckUnchanged
               \/ \E l \in Lists : List(l) /\ ListUnchanged

LeopardSpec == LeopardInit /\ [][LeopardNext]_leopardVars

-----------------------------------------------------------------------------
\* The type of every variable.
LeopardTypeOK ==
    LET States == [rows : [Facts -> Expiries \cup {NoExpiry, None}], upTo : Nat]
        Rows == [Roots -> IndexRows \cup {None}]
    IN  /\ rows \in [Facts -> Expiries \cup {NoExpiry, None}]
        /\ now \in 0..MaxNow
        /\ index \in Rows /\ mark \in Tokens \cup {0} /\ built \in States
        /\ rpc \in [Rebuilds -> {"idle", "begun", "anchored", "locked", "filled"}]
        /\ rnow \in [Rebuilds -> 0..MaxNow]
        /\ rsnap \in [Rebuilds -> States \cup {None}]
        /\ rfresh \in [Rebuilds -> BOOLEAN]
        /\ rmark \in [Rebuilds -> Tokens \cup {0}]
        /\ filled \in [Rebuilds -> Rows]
        /\ cpc \in [Checks -> {"idle", "open", "walking"}]
        /\ pin \in [Checks -> Tokens \cup {0}]
        /\ budget \in [Checks -> 0..MaxDepth]
        /\ asOf \in [Checks -> 0..MaxNow]
        /\ snap \in [Checks -> [state : States, mark : Tokens \cup {0}] \cup {None}]
        /\ fresh \in [Checks -> BOOLEAN] /\ sharing \in [Checks -> BOOLEAN]
        /\ answers \in [Checks -> [Roots -> [allowed : BOOLEAN, of : States] \cup {None}]]
        /\ lpc \in [Lists -> {"idle", "watermark", "current", "reverse", "scan", "checking", "done"}]
        /\ lmark \in [Lists -> Tokens \cup {0}]
        /\ cands \in [Lists -> SUBSET Roots] /\ listed \in [Lists -> SUBSET Roots]
        /\ held \in [Lists -> SUBSET Roots]
        /\ truncated \in [Lists -> BOOLEAN]

\* The committed rows are those of the state the watermark names: every row is a
\* route stored in it with the least expires_at on the route, and a root without
\* a row has no route open in it (relation-index.ts, steps 1-6 of the rebuild).
IndexIsOfWatermark ==
    /\ mark = Watermark(built.upTo)
    /\ \A r \in Roots :
          IF index[r] = None
          THEN \A p \in Routes[r] : ~ Open(built.rows, now, p)
          ELSE \E p \in Routes[r] : /\ \A i \in DOMAIN p : built.rows[p[i]] # None
                                    /\ IsRowOf(index[r], built.rows, p)

\* A relation of a pinned check, answered by the index or by the walk, is answered
\* as in a state that holds every write up to the token, at the check's own now():
\* a revocation up to the token is never ignored, an expired tuple never counts.
AnswersCoverPin ==
    \A k \in Checks, r \in Roots : answers[k][r] # None =>
        LET s == answers[k][r].of
        IN  /\ \A i \in DOMAIN history : history[i].token <= pin[k] => i <= s.upTo
            /\ s.upTo <= snap[k].state.upTo
            /\ answers[k][r].allowed = Reaches(s.rows, asOf[k], r, budget[k])

\* However rebuilds overlap, a published watermark is never replaced by an earlier.
WatermarkNeverGoesBack == [][mark <= mark']_leopardVars

\* An object the subject has reached from the start of listObjects to its end is
\* in the list, unless the list says that it is truncated
\* (relation-index.ts: "provably complete as of now").
ListMissesNothing ==
    \A l \in Lists : lpc[l] = "done" /\ ~truncated[l] => held[l] \subseteq listed[l]

\* The rows after the first n entries of write_log.
RowsAt(n) == LET at[i \in 0..n] == IF i = 0 THEN NoFact ELSE Apply(at[i - 1], history[i])
             IN  at[n]

\* "One check, one transaction [...] one consistent point in time for every read
\* in it" (resolver.ts:1812-1822): a check that needs all of the relations, an
\* intersection, is allowed only if some one state of the store allows it.
AllowedByOneState ==
    \A k \in Checks :
        (\A r \in Roots : answers[k][r] # None => answers[k][r].allowed) =>
            \E n \in 0..Len(history) :
                \A r \in Roots : answers[k][r] # None => Reaches(RowsAt(n), asOf[k], r, budget[k])
=============================================================================
