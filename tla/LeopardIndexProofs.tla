------------------------- MODULE LeopardIndexProofs -------------------------
(***************************************************************************)
(* What the relation membership index may answer, for any number of        *)
(* rebuilds, checks, listings, tuples, routes, tokens and instants.        *)
(***************************************************************************)
EXTENDS LeopardIndex, NumberLemmas

\* The store that everything here is written to: its log is in order.
LEMMA ShapeInit == Init => StoreShape
BY DEF Init, StoreShape, Windows

\* A write appends one entry with a larger token.
LEMMA PerformExtends ==
    ASSUME StoreShape, Tokens \subseteq Nat,
           NEW r \in Requests, NEW t \in Tokens, Perform(r, t)
    PROVE  /\ StoreShape'
           /\ Len(history) \in Nat
           /\ Len(history') = Len(history) + 1
           /\ \A i \in 1..Len(history) : history'[i] = history[i] /\ history[i].token < t
           /\ history'[Len(history) + 1].token = t
<1> DEFINE e == Entry(rows, r, t)
<1>1. r.op \in Ops /\ r.fact \in Facts /\ r.expiresAt \in Expiries \cup {NoExpiry}
  BY DEF Requests
<1>2. e \in Entries /\ e.token = t
  BY <1>1 DEF Entry, Entries, Changes, Reported, StoreShape, Windows
<1>3. rows' \in [Facts -> Windows]
  BY <1>1 DEF Perform, Apply, Entry, StoreShape, Windows
<1>4. \A x \in Entries : x.token \in Nat
  BY DEF Entries
<1> HIDE DEF e
<1>5. /\ history \in Seq(Entries) /\ history' = Append(history, e)
      /\ \A i \in DOMAIN history : history[i].token < e.token
      /\ \A i, j \in 1..Len(history) : i < j => history[i].token < history[j].token
  BY <1>2 DEF Perform, StoreShape, e
<1>6. /\ history' \in Seq(Entries)
      /\ Len(history) \in Nat
      /\ Len(history') = Len(history) + 1
      /\ \A i \in 1..Len(history) : history'[i] = history[i] /\ history[i].token < e.token
      /\ history'[Len(history) + 1] = e
      /\ \A i, j \in 1..Len(history') : i < j => history'[i].token < history'[j].token
  BY <1>2, <1>4, <1>5, AppendAscends
<1> QED BY <1>2, <1>3, <1>6 DEF StoreShape

States == [rows : [Facts -> Windows], upTo : Nat]
Building == {"anchored", "locked", "filled"}
Holding == {"locked", "filled"}

\* The watermark names the point of write_log the committed rows were built at.
Marked == built.upTo <= Len(history) /\ mark = Watermark(built.upTo)

\* Every committed row is a stored route, and no open route is missing.
Complete ==
    \A r \in Roots :
        IF index[r] = None
        THEN \A p \in Routes[r] : ~ Open(built.rows, now, p)
        ELSE \E p \in Routes[r] : /\ \A i \in DOMAIN p : built.rows[p[i]] # None
                                  /\ IsRowOf(index[r], built.rows, p)

\* A rebuild that is still fresh has not missed a commit of another one, and only
\* one at a time is past the lock: the one that publishes is ahead of the index.
Rebuilding ==
    /\ \A b \in Rebuilds :
          /\ rnow[b] <= now
          /\ rpc[b] \in Building => rsnap[b] \in States /\ rsnap[b].upTo <= Len(history)
          /\ rfresh[b] => rpc[b] \in Building /\ built.upTo <= rsnap[b].upTo
          /\ rpc[b] \in Holding => rfresh[b] /\ rmark[b] = Watermark(rsnap[b].upTo)
          /\ rpc[b] = "filled" =>
                \A r \in Roots : Closure(filled[b][r], rsnap[b].rows, rnow[b], r)
    /\ \A b, c \in Rebuilds : rpc[b] \in Holding /\ rpc[c] \in Holding => b = c

\* All entries of write_log with a token up to t are among the first n.
Covers(t, n) == \A i \in 1..Len(history) : history[i].token <= t => i <= n

\* A check that runs has an observed token, which its snapshot covers; while no
\* rebuild commits, that snapshot shows the index as it is.
Checking ==
    \A k \in Checks :
        /\ cpc[k] # "idle" => /\ pin[k] \in Tokens
                              /\ \E i \in 1..Len(history) : pin[k] <= history[i].token
        /\ cpc[k] = "walking" => /\ snap[k] \in [state : States, mark : Tokens \cup {0}]
                                 /\ snap[k].state.upTo <= Len(history)
                                 /\ Covers(pin[k], snap[k].state.upTo)
        /\ fresh[k] => /\ cpc[k] = "walking"
                       /\ snap[k].mark = mark
                       /\ built.upTo <= snap[k].state.upTo
        /\ \A r \in Roots : answers[k][r] # None =>
              /\ cpc[k] = "walking"
              /\ Covers(pin[k], answers[k][r].of.upTo)
              /\ answers[k][r].of.upTo <= snap[k].state.upTo
              /\ answers[k][r].allowed = Reaches(answers[k][r].of.rows, asOf[k], r, budget[k])

LeopardInv == LeopardTypeOK /\ StoreShape /\ Marked /\ Complete /\ Rebuilding /\ Checking

-----------------------------------------------------------------------------
LEMMA LeopardInvInit == LeopardInit => LeopardInv
<1> SUFFICES ASSUME LeopardInit PROVE LeopardInv
  OBVIOUS
<1> USE LeopardAssumption DEF LeopardInit
<1>1. StoreShape
  BY ShapeInit
<1>2. rows = [f \in Facts |-> None] /\ history = << >> /\ Len(history) = 0
  BY DEF Init
<1>3. LeopardTypeOK
  BY <1>2 DEF LeopardTypeOK, State, Empty
<1>4. Marked
  BY <1>2 DEF Marked, State, Watermark
<1>5. Complete
  <2> SUFFICES ASSUME NEW r \in Roots, NEW p \in Routes[r] PROVE ~ Open(built.rows, now, p)
    BY DEF Complete, Empty
  <2>1. p \in Seq(Facts) /\ p # << >>
    OBVIOUS
  <2>2. 1 \in DOMAIN p /\ p[1] \in Facts
    BY <2>1
  <2> QED BY <1>2, <2>2 DEF Open, Live, State
<1>6. Rebuilding
  BY DEF Rebuilding, Building, Holding
<1>7. Checking
  BY DEF Checking, Empty
<1> QED BY <1>1, <1>3, <1>4, <1>5, <1>6, <1>7 DEF LeopardInv

\* What was a token up to some point of write_log stays one.
LEMMA WatermarkType ==
    ASSUME StoreShape, NEW n \in Nat, n <= Len(history)
    PROVE  Watermark(n) \in Tokens \cup {0}
<1>1. CASE n = 0
  BY <1>1 DEF Watermark
<1>2. CASE n # 0
  <2>1. n \in 1..Len(history) /\ history[n] \in Entries
    BY <1>2 DEF StoreShape
  <2> QED BY <1>2, <2>1 DEF Watermark, Entries
<1> QED BY <1>1, <1>2

\* A later point of write_log has a later watermark.
LEMMA WatermarkAscends ==
    ASSUME StoreShape, NEW m \in Nat, NEW n \in Nat, m <= n, n <= Len(history)
    PROVE  Watermark(m) <= Watermark(n)
<1>0. m <= Len(history)
  BY DEF StoreShape
<1>1. Watermark(m) \in Nat /\ Watermark(n) \in Nat
  <2>1. Watermark(m) \in Tokens \cup {0}
    BY <1>0, WatermarkType
  <2>2. Watermark(n) \in Tokens \cup {0}
    BY WatermarkType
  <2>3. \A t \in Tokens : t \in Nat
    BY LeopardAssumption
  <2> QED BY <2>1, <2>2, <2>3
<1>2. CASE m = 0
  BY <1>1, <1>2 DEF Watermark
<1>3. CASE m # 0 /\ m = n
  BY <1>1, <1>3
<1>4. CASE m # 0 /\ m < n
  <2>1. m \in 1..Len(history) /\ n \in 1..Len(history)
    BY <1>4 DEF StoreShape
  <2>2. history[m].token < history[n].token
    BY <1>4, <2>1 DEF StoreShape
  <2> QED BY <1>1, <1>4, <2>1, <2>2 DEF Watermark
<1> QED BY <1>2, <1>3, <1>4

\* A point whose watermark reaches t covers t.
LEMMA WatermarkCovers ==
    ASSUME StoreShape, NEW n \in Nat, n <= Len(history), NEW t \in Tokens, t <= Watermark(n)
    PROVE  Covers(t, n)
<1>1. n # 0 /\ n \in 1..Len(history) /\ Watermark(n) = history[n].token
  BY LeopardAssumption DEF Watermark, StoreShape
<1>2. ASSUME NEW i \in 1..Len(history), history[i].token <= t, ~(i <= n) PROVE FALSE
  <2>1. history[i] \in Entries /\ history[n] \in Entries
    BY <1>1 DEF StoreShape
  <2>2. history[n].token < history[i].token
    BY <1>1, <1>2 DEF StoreShape
  <2>3. history[i].token \in Nat /\ history[n].token \in Nat
    BY <2>1, LeopardAssumption DEF Entries
  <2>4. t \in Nat /\ t <= history[n].token
    BY <1>1, LeopardAssumption
  <2> HIDE DEF Watermark
  <2> QED BY <1>2, <2>2, <2>3, <2>4
<1> QED BY <1>2 DEF Covers

\* Time only closes routes.
LEMMA OpenOnlyCloses ==
    ASSUME NEW rs \in [Facts -> Windows], NEW t \in Nat, NEW u \in Nat, t <= u,
           NEW p \in Seq(Facts), Open(rs, u, p)
    PROVE  Open(rs, t, p)
<1> SUFFICES ASSUME NEW i \in DOMAIN p PROVE Live(rs[p[i]], t)
  BY DEF Open
<1>1. p[i] \in Facts /\ rs[p[i]] \in Windows /\ Live(rs[p[i]], u)
  BY DEF Open
<1>2. CASE rs[p[i]] = NoExpiry
  BY <1>1, <1>2, LeopardAssumption DEF Live
<1>3. CASE rs[p[i]] # NoExpiry
  <2>1. rs[p[i]] \in Nat
    BY <1>1, <1>3, LeopardAssumption DEF Windows, Live
  <2> QED BY <1>1, <1>3, <2>1 DEF Live
<1> QED BY <1>2, <1>3
-----------------------------------------------------------------------------
\* A write leaves the index, the rebuilds and the checks as they are, and its
\* token is beyond every token that a check is pinned to.
LEMMA WriteKeeps ==
    ASSUME LeopardInv, NEW r \in Requests, NEW t \in Tokens, Write(r, t)
    PROVE  LeopardInv'
<1> USE DEF LeopardInv
<1>1. UNCHANGED <<now, index, mark, built, rpc, rnow, rsnap, rfresh, rmark, filled, cpc, pin, budget,
                  asOf, snap, fresh, sharing, answers, lpc, lmark, cands, listed, truncated>>
  BY DEF Write, indexVars, rebuildVars, checkVars, listVars
<1>2. /\ StoreShape'
      /\ Len(history) \in Nat
      /\ Len(history') = Len(history) + 1
      /\ \A i \in 1..Len(history) : history'[i] = history[i] /\ history[i].token < t
      /\ history'[Len(history) + 1].token = t
  <2>1. Tokens \subseteq Nat
    BY LeopardAssumption
  <2> QED BY <2>1, PerformExtends DEF Write
<1>3. LeopardTypeOK'
  <2>1. rows' \in [Facts -> Windows]
    BY <1>2 DEF StoreShape
  <2>2. held' \in [Lists -> SUBSET Roots]
    BY DEF Write, StillHeld, LeopardTypeOK
  <2> QED BY <1>1, <2>1, <2>2 DEF LeopardTypeOK, Windows
<1>4. \A n \in Nat : n <= Len(history) => Watermark(n)' = Watermark(n)
  BY <1>2 DEF Watermark
<1>5. Marked'
  BY <1>1, <1>2, <1>4 DEF Marked, LeopardTypeOK
<1>6. Complete'
  BY <1>1 DEF Complete
<1>7. Rebuilding'
  <2> SUFFICES ASSUME NEW b \in Rebuilds
               PROVE  /\ rpc[b] \in Building => rsnap[b].upTo <= Len(history')
                      /\ rpc[b] \in Holding => rmark[b] = Watermark(rsnap[b].upTo)'
    BY <1>1 DEF Rebuilding
  <2>1. rpc[b] \in Building => rsnap[b].upTo \in Nat
    BY DEF Rebuilding, States
  <2> QED BY <1>1, <1>2, <1>4, <2>1 DEF Rebuilding, Holding, Building
<1>8. ASSUME NEW k \in Checks, cpc[k] # "idle", NEW n \in Nat, Covers(pin[k], n)
      PROVE  Covers(pin[k], n)'
  <2>1. PICK i \in 1..Len(history) : pin[k] <= history[i].token
    BY <1>8 DEF Checking
  <2>2. history[i] \in Entries
    BY <2>1 DEF StoreShape
  <2>3. history[i].token \in Nat /\ pin[k] \in Nat /\ t \in Nat
    BY <1>8, <2>2, LeopardAssumption DEF Entries, Checking
  <2>4. ~(t <= pin[k])
    BY <1>2, <2>1, <2>3
  <2>5. ASSUME NEW j \in 1..Len(history'), history'[j].token <= pin[k] PROVE j <= n
    <3>1. j # Len(history) + 1
      BY <1>2, <2>4, <2>5
    <3>2. j \in 1..Len(history) /\ history[j].token <= pin[k]
      BY <1>2, <2>5, <3>1
    <3> QED BY <1>8, <3>2 DEF Covers
  <2>6. pin' = pin
    BY <1>1
  <2> QED BY <2>5, <2>6 DEF Covers
<1>9. Checking'
  <2> SUFFICES ASSUME NEW k \in Checks
               PROVE  /\ cpc[k] # "idle" =>
                           \E i \in 1..Len(history') : pin[k] <= history'[i].token
                      /\ cpc[k] = "walking" => /\ snap[k].state.upTo <= Len(history')
                                               /\ Covers(pin[k], snap[k].state.upTo)'
                      /\ \A q \in Roots : answers[k][q] # None =>
                           Covers(pin[k], answers[k][q].of.upTo)'
    BY <1>1 DEF Checking, Reaches
  <2>1. cpc[k] # "idle" => \E i \in 1..Len(history') : pin[k] <= history'[i].token
    BY <1>2 DEF Checking
  <2>2. cpc[k] = "walking" => /\ snap[k].state.upTo <= Len(history')
                              /\ Covers(pin[k], snap[k].state.upTo)'
    <3> SUFFICES ASSUME cpc[k] = "walking"
                 PROVE  /\ snap[k].state.upTo <= Len(history')
                        /\ Covers(pin[k], snap[k].state.upTo)'
      OBVIOUS
    <3>1. snap[k].state.upTo \in Nat /\ snap[k].state.upTo <= Len(history)
          /\ Covers(pin[k], snap[k].state.upTo)
      BY DEF Checking, States
    <3> QED BY <1>1, <1>2, <1>8, <3>1
  <2>3. ASSUME NEW q \in Roots, answers[k][q] # None
        PROVE  Covers(pin[k], answers[k][q].of.upTo)'
    <3>1. answers[k][q].of.upTo \in Nat /\ cpc[k] = "walking"
          /\ Covers(pin[k], answers[k][q].of.upTo)
      BY <2>3 DEF Checking, LeopardTypeOK
    <3> QED BY <1>1, <1>8, <3>1
  <2> QED BY <2>1, <2>2, <2>3
<1> QED BY <1>2, <1>3, <1>5, <1>6, <1>7, <1>9

\* The clock closes routes, and opens none.
LEMMA TickKeeps == ASSUME LeopardInv, Tick PROVE LeopardInv'
<1> USE DEF LeopardInv
<1>1. UNCHANGED <<rows, history, index, mark, built, rpc, rnow, rsnap, rfresh, rmark, filled, cpc, pin,
                  budget, asOf, snap, fresh, sharing, answers, lpc, lmark, cands, listed, truncated>>
  BY DEF Tick, storeVars, indexVars, rebuildVars, checkVars, listVars
<1>2. now \in Nat /\ now' = now + 1 /\ now' \in 0..MaxNow
  BY LeopardAssumption DEF Tick, LeopardTypeOK
<1>3. LeopardTypeOK'
  <2>1. held' \in [Lists -> SUBSET Roots]
    BY DEF Tick, StillHeld, LeopardTypeOK
  <2> QED BY <1>1, <1>2, <2>1 DEF LeopardTypeOK
<1>4. StoreShape' /\ Marked'
  BY <1>1 DEF StoreShape, Marked, Watermark
<1>5. Complete'
  <2> SUFFICES ASSUME NEW r \in Roots, index[r] = None, NEW p \in Routes[r],
                      Open(built.rows, now', p)
               PROVE  FALSE
    BY <1>1 DEF Complete
  <2>1. built.rows \in [Facts -> Windows] /\ p \in Seq(Facts)
    BY LeopardAssumption DEF LeopardTypeOK, Windows
  <2>2. Open(built.rows, now, p)
    BY <1>2, <2>1, OpenOnlyCloses
  <2> QED BY <2>2 DEF Complete
<1>6. Rebuilding'
  <2>1. \A b \in Rebuilds : rnow[b] <= now'
    BY <1>2 DEF Rebuilding, LeopardTypeOK
  <2> QED BY <1>1, <2>1 DEF Rebuilding, Watermark
<1>7. Checking'
  BY <1>1 DEF Checking, Covers
<1> QED BY <1>3, <1>4, <1>5, <1>6, <1>7
-----------------------------------------------------------------------------
\* What holds of the rebuilds when only rebuild b has moved, given what holds of b.
LEMMA RebuildMoves ==
    ASSUME LeopardInv, NEW b \in Rebuilds, LeopardTypeOK',
           UNCHANGED <<storeVars, now, indexVars, checkVars, listVars, held>>,
           \A c \in Rebuilds \ {b} :
              /\ rpc'[c] = rpc[c] /\ rnow'[c] = rnow[c] /\ rsnap'[c] = rsnap[c]
              /\ rfresh'[c] = rfresh[c] /\ rmark'[c] = rmark[c] /\ filled'[c] = filled[c],
           rnow'[b] <= now,
           rpc'[b] \in Building => rsnap'[b] \in States /\ rsnap'[b].upTo <= Len(history),
           rfresh'[b] => rpc'[b] \in Building /\ built.upTo <= rsnap'[b].upTo,
           rpc'[b] \in Holding => rfresh'[b] /\ rmark'[b] = Watermark(rsnap'[b].upTo),
           rpc'[b] = "filled" =>
              \A r \in Roots : Closure(filled'[b][r], rsnap'[b].rows, rnow'[b], r),
           rpc'[b] \in Holding => \A c \in Rebuilds \ {b} : rpc[c] \notin Holding
    PROVE  LeopardInv'
<1> USE DEF LeopardInv
<1>1. UNCHANGED <<rows, history, now, index, mark, built, cpc, pin, budget, asOf, snap, fresh, answers>>
  BY DEF storeVars, indexVars, checkVars
<1>2. StoreShape' /\ Marked' /\ Complete' /\ Checking'
  BY <1>1 DEF StoreShape, Marked, Watermark, Complete, Checking, Covers
<1>3. ASSUME NEW c \in Rebuilds
      PROVE  /\ rnow'[c] <= now'
             /\ rpc'[c] \in Building => rsnap'[c] \in States /\ rsnap'[c].upTo <= Len(history')
             /\ rfresh'[c] => rpc'[c] \in Building /\ built'.upTo <= rsnap'[c].upTo
             /\ rpc'[c] \in Holding => rfresh'[c] /\ rmark'[c] = Watermark(rsnap[c].upTo)'
             /\ rpc'[c] = "filled" =>
                  \A r \in Roots : Closure(filled'[c][r], rsnap'[c].rows, rnow'[c], r)
  <2>1. Watermark(rsnap[c].upTo)' = Watermark(rsnap'[c].upTo)
    BY <1>1 DEF Watermark
  <2>2. CASE c = b
    BY <1>1, <2>1, <2>2
  <2>3. CASE c # b
    BY <1>1, <2>1, <2>3 DEF Rebuilding
  <2> QED BY <2>2, <2>3
<1>4. \A c, d \in Rebuilds : rpc'[c] \in Holding /\ rpc'[d] \in Holding => c = d
  BY DEF Rebuilding
<1>5. Rebuilding'
  BY <1>3, <1>4 DEF Rebuilding
<1> QED BY <1>2, <1>5

\* A step of a rebuild before its COMMIT shows nobody anything.
LEMMA RebuildKeeps ==
    ASSUME LeopardInv, NEW b \in Rebuilds, Rebuild(b), RebuildUnchanged
    PROVE  LeopardInv'
<1> USE DEF LeopardInv
<1>0. UNCHANGED <<storeVars, now, indexVars, checkVars, listVars, held>>
  BY DEF Rebuild, RebuildUnchanged, BeginRebuild, AnchorRebuild, TryLock, Refill, RollBack, Leave
<1>a. UNCHANGED <<rows, history, now, index, mark, built, cpc, pin, budget, asOf, snap, fresh, sharing,
                  answers, lpc, lmark, cands, listed, truncated, held>>
  BY <1>0 DEF storeVars, indexVars, checkVars, listVars
<1>b. now \in 0..MaxNow /\ now \in Nat /\ Len(history) \in Nat /\ built.upTo \in Nat
      /\ built.upTo <= Len(history)
  BY LeopardAssumption DEF LeopardTypeOK, StoreShape, Marked
<1>1. CASE BeginRebuild(b)
  <2>1. LeopardTypeOK'
    BY <1>1, <1>a, <1>b DEF BeginRebuild, LeopardTypeOK
  <2>2. /\ rpc' = [rpc EXCEPT ![b] = "begun"] /\ rnow' = [rnow EXCEPT ![b] = now]
        /\ UNCHANGED <<rsnap, rfresh, rmark, filled>> /\ rpc[b] = "idle"
    BY <1>1 DEF BeginRebuild
  <2>3. rpc'[b] = "begun" /\ rnow'[b] = now
    BY <2>2 DEF LeopardTypeOK
  <2>4. ~rfresh'[b]
    BY <2>2 DEF Rebuilding, Building
  <2>5. \A c \in Rebuilds \ {b} :
          /\ rpc'[c] = rpc[c] /\ rnow'[c] = rnow[c] /\ rsnap'[c] = rsnap[c]
          /\ rfresh'[c] = rfresh[c] /\ rmark'[c] = rmark[c] /\ filled'[c] = filled[c]
    BY <2>2 DEF LeopardTypeOK
  <2> QED BY <1>0, <1>b, <2>1, <2>3, <2>4, <2>5, RebuildMoves DEF Building, Holding
<1>2. CASE AnchorRebuild(b)
  <2>1. LeopardTypeOK'
    BY <1>2, <1>a, <1>b DEF AnchorRebuild, LeopardTypeOK, State
  <2>2. /\ rpc' = [rpc EXCEPT ![b] = "anchored"] /\ rsnap' = [rsnap EXCEPT ![b] = State]
        /\ rfresh' = [rfresh EXCEPT ![b] = TRUE]
        /\ UNCHANGED <<rnow, rmark, filled>>
    BY <1>2 DEF AnchorRebuild
  <2>3. rpc'[b] = "anchored" /\ rsnap'[b] = State /\ rnow'[b] = rnow[b]
    BY <2>2 DEF LeopardTypeOK
  <2>4. rsnap'[b].upTo = Len(history) /\ rsnap'[b] \in States
    BY <2>3, <1>b DEF State, States, StoreShape
  <2>5. rnow'[b] <= now
    BY <2>3 DEF Rebuilding
  <2>6. \A c \in Rebuilds \ {b} :
          /\ rpc'[c] = rpc[c] /\ rnow'[c] = rnow[c] /\ rsnap'[c] = rsnap[c]
          /\ rfresh'[c] = rfresh[c] /\ rmark'[c] = rmark[c] /\ filled'[c] = filled[c]
    BY <2>2 DEF LeopardTypeOK
  <2> QED BY <1>0, <1>b, <2>1, <2>3, <2>4, <2>5, <2>6, RebuildMoves DEF Building, Holding
<1>3. ASSUME Leave(b) PROVE LeopardInv'
  <2>1. LeopardTypeOK'
    BY <1>3, <1>a, <1>b, LeopardAssumption DEF Leave, EndRebuild, LeopardTypeOK, Empty
  <2>2. /\ rpc' = [rpc EXCEPT ![b] = "idle"] /\ rnow' = [rnow EXCEPT ![b] = 0]
        /\ rsnap' = [rsnap EXCEPT ![b] = None] /\ rmark' = [rmark EXCEPT ![b] = 0]
        /\ rfresh' = [rfresh EXCEPT ![b] = FALSE] /\ filled' = [filled EXCEPT ![b] = Empty]
    BY <1>3 DEF Leave, EndRebuild
  <2>3. rpc'[b] = "idle" /\ rnow'[b] = 0 /\ rsnap'[b] = None /\ rfresh'[b] = FALSE
    BY <2>2 DEF LeopardTypeOK
  <2>4. \A c \in Rebuilds \ {b} :
          /\ rpc'[c] = rpc[c] /\ rnow'[c] = rnow[c] /\ rsnap'[c] = rsnap[c]
          /\ rfresh'[c] = rfresh[c] /\ rmark'[c] = rmark[c] /\ filled'[c] = filled[c]
    BY <2>2 DEF LeopardTypeOK
  <2> QED BY <1>0, <1>b, <2>1, <2>3, <2>4, RebuildMoves DEF Building, Holding
<1>4. CASE TryLock(b)
  <2>1. CASE Leave(b)
    BY <2>1, <1>3
  <2>2. CASE ~ Leave(b)
    <3>1. /\ rpc[b] = "anchored" /\ rfresh[b]
          /\ \A c \in Rebuilds : rpc[c] \notin Holding
          /\ rpc' = [rpc EXCEPT ![b] = "locked"]
          /\ rmark' = [rmark EXCEPT ![b] = Watermark(rsnap[b].upTo)]
          /\ UNCHANGED <<rnow, rsnap, rfresh, filled>>
      BY <1>4, <2>2 DEF TryLock, UpdateGoesThrough, WatermarkRead, Holding
    <3>2. rsnap[b] \in States /\ rsnap[b].upTo <= Len(history) /\ built.upTo <= rsnap[b].upTo
          /\ rnow[b] <= now
      BY <3>1 DEF Rebuilding, Building
    <3>3. Watermark(rsnap[b].upTo) \in Tokens \cup {0}
      <4>1. rsnap[b].upTo \in Nat
        BY <3>2 DEF States
      <4> QED BY <3>2, <4>1, WatermarkType
    <3>4. LeopardTypeOK'
      BY <3>1, <3>3, <1>a DEF LeopardTypeOK
    <3>5. rpc'[b] = "locked" /\ rmark'[b] = Watermark(rsnap[b].upTo) /\ rsnap'[b] = rsnap[b]
          /\ rnow'[b] = rnow[b] /\ rfresh'[b]
      BY <3>1 DEF LeopardTypeOK
    <3>6. \A c \in Rebuilds \ {b} :
            /\ rpc'[c] = rpc[c] /\ rnow'[c] = rnow[c] /\ rsnap'[c] = rsnap[c]
            /\ rfresh'[c] = rfresh[c] /\ rmark'[c] = rmark[c] /\ filled'[c] = filled[c]
      BY <3>1 DEF LeopardTypeOK
    <3> QED BY <1>0, <1>b, <3>1, <3>2, <3>4, <3>5, <3>6, RebuildMoves DEF Building, Holding
  <2> QED BY <2>1, <2>2
<1>5. CASE Refill(b)
  <2>1. PICK new \in [Roots -> IndexRows \cup {None}] :
          /\ \A r \in Roots : Closure(new[r], rsnap[b].rows, rnow[b], r)
          /\ filled' = [filled EXCEPT ![b] = new]
    BY <1>5 DEF Refill
  <2>2. /\ rpc[b] = "locked" /\ rpc' = [rpc EXCEPT ![b] = "filled"]
        /\ UNCHANGED <<rnow, rsnap, rfresh, rmark>>
    BY <1>5 DEF Refill
  <2>3. LeopardTypeOK'
    BY <2>1, <2>2, <1>a DEF LeopardTypeOK
  <2>4. rpc'[b] = "filled" /\ filled'[b] = new /\ rsnap'[b] = rsnap[b] /\ rnow'[b] = rnow[b]
        /\ rfresh'[b] = rfresh[b] /\ rmark'[b] = rmark[b]
    BY <2>1, <2>2 DEF LeopardTypeOK
  <2>5. /\ rsnap[b] \in States /\ rsnap[b].upTo <= Len(history) /\ built.upTo <= rsnap[b].upTo
        /\ rnow[b] <= now /\ rfresh[b] /\ rmark[b] = Watermark(rsnap[b].upTo)
        /\ \A c \in Rebuilds \ {b} : rpc[c] \notin Holding
    BY <2>2 DEF Rebuilding, Building, Holding
  <2>6. \A c \in Rebuilds \ {b} :
          /\ rpc'[c] = rpc[c] /\ rnow'[c] = rnow[c] /\ rsnap'[c] = rsnap[c]
          /\ rfresh'[c] = rfresh[c] /\ rmark'[c] = rmark[c] /\ filled'[c] = filled[c]
    BY <2>1, <2>2 DEF LeopardTypeOK
  <2>7. \A r \in Roots : Closure(filled'[b][r], rsnap'[b].rows, rnow'[b], r)
    BY <2>1, <2>4
  <2> QED BY <1>0, <1>b, <2>3, <2>4, <2>5, <2>6, <2>7, RebuildMoves DEF Building, Holding
<1>6. CASE RollBack(b)
  BY <1>3, <1>6 DEF RollBack
<1> QED BY <1>1, <1>2, <1>4, <1>5, <1>6 DEF Rebuild
-----------------------------------------------------------------------------
\* COMMIT of a rebuild: its rows and its watermark are of one snapshot, which is
\* no earlier than that of the index it replaces.
LEMMA PublishKeeps ==
    ASSUME LeopardInv, NEW b \in Rebuilds, Publish(b)
    PROVE  LeopardInv' /\ mark <= mark'
<1> USE DEF LeopardInv
<1>1. /\ rpc[b] = "filled"
      /\ index' = filled[b] /\ mark' = rmark[b] /\ built' = rsnap[b]
      /\ rfresh' = [o \in Rebuilds |-> FALSE] /\ fresh' = [k \in Checks |-> FALSE]
      /\ rpc' = [rpc EXCEPT ![b] = "idle"] /\ rnow' = [rnow EXCEPT ![b] = 0]
      /\ rsnap' = [rsnap EXCEPT ![b] = None] /\ rmark' = [rmark EXCEPT ![b] = 0]
      /\ filled' = [filled EXCEPT ![b] = Empty]
      /\ UNCHANGED <<rows, history, now, cpc, pin, budget, asOf, snap, sharing, answers,
                     lpc, lmark, cands, listed, truncated, held>>
  BY DEF Publish, EndRebuild, storeVars, listVars
<1>2. /\ rsnap[b] \in States /\ rsnap[b].upTo <= Len(history) /\ built.upTo <= rsnap[b].upTo
      /\ rmark[b] = Watermark(rsnap[b].upTo) /\ rnow[b] <= now
      /\ \A r \in Roots : Closure(filled[b][r], rsnap[b].rows, rnow[b], r)
      /\ \A c \in Rebuilds \ {b} : rpc[c] \notin Holding
  BY <1>1 DEF Rebuilding, Building, Holding
<1>3. LeopardTypeOK'
  BY <1>1, <1>2, LeopardAssumption DEF LeopardTypeOK, Empty, States, Windows
<1>4. StoreShape' /\ Marked'
  BY <1>1, <1>2 DEF StoreShape, Marked, Watermark
<1>5. mark <= mark'
  <2>1. built.upTo \in Nat /\ rsnap[b].upTo \in Nat
    BY <1>2 DEF LeopardTypeOK, States
  <2> QED BY <1>1, <1>2, <2>1, WatermarkAscends DEF Marked
<1>6. Complete'
  <2>1. rsnap[b].rows \in [Facts -> Windows] /\ rnow[b] \in Nat /\ now \in Nat
    BY <1>2, LeopardAssumption DEF States, LeopardTypeOK
  <2>2. ASSUME NEW r \in Roots, filled[b][r] = None, NEW p \in Routes[r]
        PROVE  ~ Open(rsnap[b].rows, now, p)
    <3>1. p \in Seq(Facts)
      BY LeopardAssumption
    <3>2. ~ Open(rsnap[b].rows, rnow[b], p)
      BY <1>2, <2>2 DEF Closure
    <3> QED BY <1>2, <2>1, <3>1, <3>2, OpenOnlyCloses
  <2>3. ASSUME NEW r \in Roots, filled[b][r] # None
        PROVE  \E p \in Routes[r] : /\ \A i \in DOMAIN p : rsnap[b].rows[p[i]] # None
                                    /\ IsRowOf(filled[b][r], rsnap[b].rows, p)
    <3>1. PICK p \in Routes[r] : Open(rsnap[b].rows, rnow[b], p)
                                 /\ IsRowOf(filled[b][r], rsnap[b].rows, p)
      BY <1>2, <2>3 DEF Closure
    <3>2. \A i \in DOMAIN p : rsnap[b].rows[p[i]] # None
      BY <3>1 DEF Open, Live
    <3> QED BY <3>1, <3>2
  <2> QED BY <1>1, <2>2, <2>3 DEF Complete
<1>7. Rebuilding'
  <2>1. \A c \in Rebuilds : ~rfresh'[c] /\ rpc'[c] \notin Holding
    BY <1>1, <1>2 DEF LeopardTypeOK, Holding
  <2>2. ASSUME NEW c \in Rebuilds
        PROVE  /\ rnow'[c] <= now'
               /\ rpc'[c] \in Building =>
                     rsnap'[c] \in States /\ rsnap'[c].upTo <= Len(history')
    <3>1. CASE c = b
      <4>1. rpc'[c] = "idle" /\ rnow'[c] = 0 /\ now' = now /\ now \in Nat
        BY <1>1, <3>1, LeopardAssumption DEF LeopardTypeOK
      <4> QED BY <4>1 DEF Building
    <3>2. CASE c # b
      BY <1>1, <3>2 DEF Rebuilding, LeopardTypeOK
    <3> QED BY <3>1, <3>2
  <2> QED BY <2>1, <2>2 DEF Rebuilding, Holding
<1>8. Checking'
  <2>1. \A k \in Checks : ~fresh'[k]
    BY <1>1
  <2> QED BY <1>1, <2>1 DEF Checking, Covers
<1> QED BY <1>3, <1>4, <1>5, <1>6, <1>7, <1>8

-----------------------------------------------------------------------------
\* A row that may be used answers as the state of the watermark does.
LEMMA HitIsSound ==
    ASSUME LeopardInv, NEW k \in Checks, NEW r \in Roots, Usable(k, index[r])
    PROVE  /\ Covers(pin[k], built.upTo)
           /\ built.upTo <= snap[k].state.upTo
           /\ Reaches(built.rows, asOf[k], r, budget[k])
<1> USE DEF LeopardInv
<1>1. /\ fresh[k] /\ snap[k].mark >= pin[k] /\ index[r] # None
      /\ index[r].minExpires # NoExpiry => index[r].minExpires > asOf[k]
      /\ Hops(index[r].path) <= budget[k]
  BY DEF Usable
<1>2. /\ cpc[k] = "walking" /\ snap[k].mark = mark /\ pin[k] \in Tokens
      /\ built.upTo <= snap[k].state.upTo
  BY <1>1 DEF Checking
<1>3. Covers(pin[k], built.upTo)
  <2>1. built.upTo \in Nat /\ built.upTo <= Len(history) /\ pin[k] <= Watermark(built.upTo)
    BY <1>1, <1>2 DEF Marked, LeopardTypeOK
  <2> QED BY <1>2, <2>1, WatermarkCovers
<1>4. Reaches(built.rows, asOf[k], r, budget[k])
  <2>1. PICK p \in Routes[r] : /\ \A i \in DOMAIN p : built.rows[p[i]] # None
                               /\ IsRowOf(index[r], built.rows, p)
    BY <1>1 DEF Complete
  <2>2. p \in Seq(Facts) /\ built.rows \in [Facts -> Windows] /\ asOf[k] \in Nat
    BY LeopardAssumption DEF LeopardTypeOK, Windows
  <2>3. index[r].path = p /\ Hops(p) <= budget[k]
    BY <1>1, <2>1 DEF IsRowOf
  <2>4. index[r].minExpires \in Expiries \cup {NoExpiry}
    BY <1>1 DEF LeopardTypeOK, IndexRows
  <2>5. ASSUME NEW i \in DOMAIN p PROVE Live(built.rows[p[i]], asOf[k])
    <3>1. built.rows[p[i]] # None /\ built.rows[p[i]] \in Windows
      BY <2>1, <2>2
    <3>2. CASE built.rows[p[i]] = NoExpiry
      BY <3>1, <3>2 DEF Live
    <3>3. CASE built.rows[p[i]] # NoExpiry
      <4>1. index[r].minExpires # NoExpiry /\ index[r].minExpires <= built.rows[p[i]]
        BY <2>1, <3>3 DEF IsRowOf
      <4>2. index[r].minExpires \in Nat /\ built.rows[p[i]] \in Nat
        BY <2>4, <3>1, <3>3, <4>1, LeopardAssumption DEF Windows
      <4> QED BY <1>1, <2>2, <3>1, <4>1, <4>2 DEF Live
    <3> QED BY <3>2, <3>3
  <2>6. Open(built.rows, asOf[k], p)
    BY <2>5 DEF Open
  <2> QED BY <2>3, <2>6 DEF Reaches
<1> QED BY <1>2, <1>3, <1>4

\* What holds of the checks when only check k has moved, given what holds of k.
LEMMA CheckMoves ==
    ASSUME LeopardInv, NEW k \in Checks, LeopardTypeOK',
           UNCHANGED <<storeVars, now, indexVars, rebuildVars, listVars, held>>,
           \A j \in Checks \ {k} :
              /\ cpc'[j] = cpc[j] /\ pin'[j] = pin[j] /\ budget'[j] = budget[j]
              /\ asOf'[j] = asOf[j] /\ snap'[j] = snap[j] /\ fresh'[j] = fresh[j]
              /\ answers'[j] = answers[j],
           cpc'[k] # "idle" => /\ pin'[k] \in Tokens
                               /\ \E i \in 1..Len(history) : pin'[k] <= history[i].token,
           cpc'[k] = "walking" => /\ snap'[k] \in [state : States, mark : Tokens \cup {0}]
                                  /\ snap'[k].state.upTo <= Len(history)
                                  /\ Covers(pin'[k], snap'[k].state.upTo),
           fresh'[k] => /\ cpc'[k] = "walking"
                        /\ snap'[k].mark = mark
                        /\ built.upTo <= snap'[k].state.upTo,
           \A r \in Roots : answers'[k][r] # None =>
              /\ cpc'[k] = "walking"
              /\ Covers(pin'[k], answers'[k][r].of.upTo)
              /\ answers'[k][r].of.upTo <= snap'[k].state.upTo
              /\ answers'[k][r].allowed
                   = Reaches(answers'[k][r].of.rows, asOf'[k], r, budget'[k])
    PROVE  LeopardInv'
<1> USE DEF LeopardInv
<1>1. UNCHANGED <<rows, history, now, index, mark, built, rpc, rnow, rsnap, rfresh, rmark, filled>>
  BY DEF storeVars, indexVars, rebuildVars
<1>2. StoreShape' /\ Marked' /\ Complete' /\ Rebuilding'
  BY <1>1 DEF StoreShape, Marked, Watermark, Complete, Rebuilding
<1>3. \A j \in Checks :
        /\ cpc'[j] # "idle" => /\ pin'[j] \in Tokens
                               /\ \E i \in 1..Len(history) : pin'[j] <= history[i].token
        /\ cpc'[j] = "walking" => /\ snap'[j] \in [state : States, mark : Tokens \cup {0}]
                                  /\ snap'[j].state.upTo <= Len(history)
                                  /\ Covers(pin'[j], snap'[j].state.upTo)
        /\ fresh'[j] => /\ cpc'[j] = "walking"
                        /\ snap'[j].mark = mark
                        /\ built.upTo <= snap'[j].state.upTo
        /\ \A r \in Roots : answers'[j][r] # None =>
              /\ cpc'[j] = "walking"
              /\ Covers(pin'[j], answers'[j][r].of.upTo)
              /\ answers'[j][r].of.upTo <= snap'[j].state.upTo
              /\ answers'[j][r].allowed
                   = Reaches(answers'[j][r].of.rows, asOf'[j], r, budget'[j])
  <2> SUFFICES ASSUME NEW j \in Checks, j # k
               PROVE  /\ cpc[j] # "idle" =>
                           /\ pin[j] \in Tokens
                           /\ \E i \in 1..Len(history) : pin[j] <= history[i].token
                      /\ cpc[j] = "walking" =>
                           /\ snap[j] \in [state : States, mark : Tokens \cup {0}]
                           /\ snap[j].state.upTo <= Len(history)
                           /\ Covers(pin[j], snap[j].state.upTo)
                      /\ fresh[j] => /\ cpc[j] = "walking"
                                     /\ snap[j].mark = mark
                                     /\ built.upTo <= snap[j].state.upTo
                      /\ \A r \in Roots : answers[j][r] # None =>
                           /\ cpc[j] = "walking"
                           /\ Covers(pin[j], answers[j][r].of.upTo)
                           /\ answers[j][r].of.upTo <= snap[j].state.upTo
                           /\ answers[j][r].allowed
                                = Reaches(answers[j][r].of.rows, asOf[j], r, budget[j])
    OBVIOUS
  <2> QED BY DEF Checking
<1>4. Checking'
  BY <1>1, <1>3 DEF Checking, Covers
<1> QED BY <1>2, <1>4
\* An answer for one more relation, of a state that the pin covers.
LEMMA AnswerIsSound ==
    ASSUME LeopardInv, NEW k \in Checks, NEW r \in Roots, NEW s \in States, NEW a \in BOOLEAN,
           cpc[k] = "walking", Covers(pin[k], s.upTo), s.upTo <= snap[k].state.upTo,
           a = Reaches(s.rows, asOf[k], r, budget[k]),
           Answered(k, r, a, s), sharing' \in [Checks -> BOOLEAN],
           UNCHANGED <<cpc, pin, budget, asOf, snap, fresh>>, CheckUnchanged
    PROVE  LeopardInv'
<1> USE DEF LeopardInv
<1>1. UNCHANGED <<storeVars, now, indexVars, rebuildVars, listVars, held>>
  BY DEF CheckUnchanged
<1>2. UNCHANGED <<rows, history, now, index, mark, built, rpc, rnow, rsnap, rfresh, rmark, filled,
                  lpc, lmark, cands, listed, truncated, held>>
  BY <1>1 DEF storeVars, indexVars, rebuildVars, listVars
<1> DEFINE answer == [allowed |-> a, of |-> s]
<1>3. answer \in [allowed : BOOLEAN, of : States] /\ answer.allowed = a /\ answer.of = s
  OBVIOUS
<1>4. answers' = [answers EXCEPT ![k][r] = answer]
  BY DEF Answered
<1> HIDE DEF answer
<1>5. LeopardTypeOK'
  <2>1. answers' \in [Checks -> [Roots -> [allowed : BOOLEAN, of : States] \cup {None}]]
    BY <1>3, <1>4 DEF LeopardTypeOK, States, Windows
  <2> QED BY <1>2, <2>1 DEF LeopardTypeOK, States, Windows
<1>6. \A j \in Checks \ {k} : answers'[j] = answers[j]
  BY <1>4 DEF LeopardTypeOK
<1>7. answers'[k][r] = answer /\ \A q \in Roots \ {r} : answers'[k][q] = answers[k][q]
  BY <1>4 DEF LeopardTypeOK
<1>8. ASSUME NEW q \in Roots, answers'[k][q] # None
      PROVE  /\ Covers(pin[k], answers'[k][q].of.upTo)
             /\ answers'[k][q].of.upTo <= snap[k].state.upTo
             /\ answers'[k][q].allowed
                  = Reaches(answers'[k][q].of.rows, asOf[k], q, budget[k])
  <2>1. CASE q = r
    BY <1>3, <1>7, <2>1
  <2>2. CASE q # r
    BY <1>7, <1>8, <2>2 DEF Checking
  <2> QED BY <2>1, <2>2
<1>9. /\ pin[k] \in Tokens /\ \E i \in 1..Len(history) : pin[k] <= history[i].token
      /\ snap[k] \in [state : States, mark : Tokens \cup {0}]
      /\ snap[k].state.upTo <= Len(history) /\ Covers(pin[k], snap[k].state.upTo)
      /\ fresh[k] => snap[k].mark = mark /\ built.upTo <= snap[k].state.upTo
  BY DEF Checking
<1> QED BY <1>1, <1>5, <1>6, <1>8, <1>9, CheckMoves

\* The walk answers as its own snapshot does.
LEMMA WalkKeeps ==
    ASSUME LeopardInv, NEW k \in Checks, NEW r \in Roots, cpc[k] = "walking", WalkGraph(k, r),
           sharing' \in [Checks -> BOOLEAN],
           UNCHANGED <<cpc, pin, budget, asOf, snap, fresh>>, CheckUnchanged
    PROVE  LeopardInv'
<1>1. /\ snap[k].state \in States /\ Covers(pin[k], snap[k].state.upTo)
      /\ snap[k].state.upTo <= snap[k].state.upTo
  BY DEF LeopardInv, Checking, States
<1>2. Reaches(snap[k].state.rows, asOf[k], r, budget[k]) \in BOOLEAN
  BY DEF Reaches
<1>3. Answered(k, r, Reaches(snap[k].state.rows, asOf[k], r, budget[k]), snap[k].state)
  BY DEF WalkGraph
<1> QED BY <1>1, <1>2, <1>3, AnswerIsSound

LEMMA CheckKeeps ==
    ASSUME LeopardInv, NEW k \in Checks, Check(k), CheckUnchanged
    PROVE  LeopardInv'
<1> USE DEF LeopardInv
<1>0. UNCHANGED <<storeVars, now, indexVars, rebuildVars, listVars, held>>
  BY DEF CheckUnchanged
<1>a. UNCHANGED <<rows, history, now, index, mark, built, rpc, rnow, rsnap, rfresh, rmark, filled,
                  lpc, lmark, cands, listed, truncated, held>>
  BY <1>0 DEF storeVars, indexVars, rebuildVars, listVars
<1>b. now \in 0..MaxNow /\ Len(history) \in Nat /\ built.upTo \in Nat /\ built.upTo <= Len(history)
      /\ State \in States /\ State.upTo = Len(history) /\ mark \in Tokens \cup {0}
  BY DEF LeopardTypeOK, StoreShape, Marked, State, States
<1>1. ASSUME NEW p \in Tokens, NEW d \in 0..MaxDepth, BeginCheck(k, p, d) PROVE LeopardInv'
  <2>1. /\ cpc[k] = "idle" /\ \E i \in 1..Len(history) : p <= history[i].token
        /\ cpc' = [cpc EXCEPT ![k] = "open"] /\ pin' = [pin EXCEPT ![k] = p]
        /\ budget' = [budget EXCEPT ![k] = d] /\ asOf' = [asOf EXCEPT ![k] = now]
        /\ UNCHANGED <<snap, fresh, sharing, answers>>
    BY <1>1 DEF BeginCheck, StoreShape
  <2>2. LeopardTypeOK'
    BY <2>1, <1>a, <1>b DEF LeopardTypeOK
  <2>3. cpc'[k] = "open" /\ pin'[k] = p
    BY <2>1 DEF LeopardTypeOK
  <2>4. ~fresh[k] /\ \A r \in Roots : answers[k][r] = None
    BY <2>1 DEF Checking
  <2>5. \A j \in Checks \ {k} :
          /\ cpc'[j] = cpc[j] /\ pin'[j] = pin[j] /\ budget'[j] = budget[j]
          /\ asOf'[j] = asOf[j] /\ snap'[j] = snap[j] /\ fresh'[j] = fresh[j]
          /\ answers'[j] = answers[j]
    BY <2>1 DEF LeopardTypeOK
  <2> QED BY <1>0, <2>1, <2>2, <2>3, <2>4, <2>5, CheckMoves
<1>2. CASE AnchorCheck(k)
  <2> DEFINE s == [state |-> State, mark |-> mark]
  <2>1. /\ cpc[k] = "open" /\ cpc' = [cpc EXCEPT ![k] = "walking"]
        /\ snap' = [snap EXCEPT ![k] = s] /\ fresh' = [fresh EXCEPT ![k] = TRUE]
        /\ UNCHANGED <<pin, budget, asOf, sharing, answers>>
    BY <1>2 DEF AnchorCheck
  <2>2. s \in [state : States, mark : Tokens \cup {0}] /\ s.state = State /\ s.mark = mark
    BY <1>b
  <2> HIDE DEF s
  <2>3. LeopardTypeOK'
    <3>1. snap' \in [Checks -> [state : States, mark : Tokens \cup {0}] \cup {None}]
      BY <2>1, <2>2 DEF LeopardTypeOK, States, Windows
    <3> QED BY <2>1, <3>1, <1>a DEF LeopardTypeOK, States, Windows
  <2>4. cpc'[k] = "walking" /\ snap'[k] = s /\ pin'[k] = pin[k] /\ answers'[k] = answers[k]
    BY <2>1 DEF LeopardTypeOK
  <2>5. /\ pin[k] \in Tokens /\ \E i \in 1..Len(history) : pin[k] <= history[i].token
        /\ \A r \in Roots : answers[k][r] = None
    BY <2>1 DEF Checking
  <2>6. Covers(pin[k], s.state.upTo) /\ s.state.upTo <= Len(history)
    BY <1>b, <2>2 DEF Covers
  <2>7. \A j \in Checks \ {k} :
          /\ cpc'[j] = cpc[j] /\ pin'[j] = pin[j] /\ budget'[j] = budget[j]
          /\ asOf'[j] = asOf[j] /\ snap'[j] = snap[j] /\ fresh'[j] = fresh[j]
          /\ answers'[j] = answers[j]
    BY <2>1 DEF LeopardTypeOK
  <2> QED BY <1>0, <1>b, <2>2, <2>3, <2>4, <2>5, <2>6, <2>7, CheckMoves
<1>3. ASSUME NEW r \in Roots, Lookup(k, r) PROVE LeopardInv'
  <2>1. /\ cpc[k] = "walking" /\ sharing' \in [Checks -> BOOLEAN]
        /\ UNCHANGED <<cpc, pin, budget, asOf, snap, fresh>>
    BY <1>3 DEF Lookup, LeopardTypeOK
  <2>2. CASE Usable(k, index[r])
    <3>1. Answered(k, r, TRUE, built)
      BY <1>3, <2>2 DEF Lookup
    <3>2. built \in States
      BY DEF LeopardTypeOK, States, Windows
    <3>3. /\ Covers(pin[k], built.upTo) /\ built.upTo <= snap[k].state.upTo
          /\ TRUE = Reaches(built.rows, asOf[k], r, budget[k])
      <4>1. Reaches(built.rows, asOf[k], r, budget[k]) \in BOOLEAN
        BY DEF Reaches
      <4> QED BY <2>2, <4>1, HitIsSound
    <3> QED BY <2>1, <3>1, <3>2, <3>3, AnswerIsSound
  <2>3. CASE ~ Usable(k, index[r])
    BY <1>3, <2>1, <2>3, WalkKeeps DEF Lookup
  <2> QED BY <2>2, <2>3
<1>4. ASSUME NEW r \in Roots, LookupFails(k, r) PROVE LeopardInv'
  <2>1. sharing' \in [Checks -> BOOLEAN]
    BY <1>4 DEF LookupFails, LeopardTypeOK
  <2> QED BY <1>4, <2>1, WalkKeeps DEF LookupFails
<1>5. CASE EndCheck(k)
  <2>1. LeopardTypeOK'
    BY <1>5, <1>a, LeopardAssumption DEF EndCheck, LeopardTypeOK, Empty
  <2>2. cpc'[k] = "idle" /\ ~fresh'[k] /\ \A r \in Roots : answers'[k][r] = None
    BY <1>5 DEF EndCheck, LeopardTypeOK, Empty
  <2>3. \A j \in Checks \ {k} :
          /\ cpc'[j] = cpc[j] /\ pin'[j] = pin[j] /\ budget'[j] = budget[j]
          /\ asOf'[j] = asOf[j] /\ snap'[j] = snap[j] /\ fresh'[j] = fresh[j]
          /\ answers'[j] = answers[j]
    BY <1>5 DEF EndCheck, LeopardTypeOK
  <2> QED BY <1>0, <2>1, <2>2, <2>3, CheckMoves
<1> QED BY <1>1, <1>2, <1>3, <1>4, <1>5 DEF Check

-----------------------------------------------------------------------------
\* The part of the type invariant that a listing can disturb.
ListTypes ==
    /\ lpc \in [Lists -> {"idle", "watermark", "current", "reverse", "scan", "checking", "done"}]
    /\ lmark \in [Lists -> Tokens \cup {0}]
    /\ cands \in [Lists -> SUBSET Roots] /\ listed \in [Lists -> SUBSET Roots]
    /\ held \in [Lists -> SUBSET Roots]
    /\ truncated \in [Lists -> BOOLEAN]

\* Listings only read.
LEMMA ListKeeps ==
    ASSUME LeopardInv, NEW l \in Lists, List(l), ListUnchanged
    PROVE  LeopardInv'
<1> USE DEF LeopardInv
<1>1. UNCHANGED <<rows, history, now, index, mark, built, rpc, rnow, rsnap, rfresh, rmark, filled, cpc,
                  pin, budget, asOf, snap, fresh, sharing, answers>>
  BY DEF ListUnchanged, storeVars, indexVars, rebuildVars, checkVars
<1>2. StoreShape' /\ Marked' /\ Complete' /\ Rebuilding' /\ Checking'
  BY <1>1 DEF StoreShape, Marked, Complete, Rebuilding, Checking, Covers, Watermark
<1>3. ListTypes /\ mark \in Tokens \cup {0}
  BY DEF LeopardTypeOK, ListTypes
<1> USE DEF ListTypes
<1>4. CASE BeginList(l)
  <2>1. Reached(rows, now) \in SUBSET Roots
    BY DEF Reached
  <2>2. ListTypes'
    BY <1>3, <1>4, <2>1 DEF BeginList
  <2> QED BY <1>1, <1>2, <2>2 DEF LeopardTypeOK
<1>5. ASSUME NEW ids \in SUBSET Roots, TakeCandidates(l, ids), UNCHANGED <<lmark, listed, held>>
      PROVE  ListTypes'
  BY <1>3, <1>5 DEF TakeCandidates
<1>6. CASE ~ BeginList(l)
  <2>1. ListTypes'
    <3>1. CASE ReadWatermark(l)
      BY <1>3, <3>1 DEF ReadWatermark
    <3>2. CASE ReadCurrent(l)
      BY <1>3, <3>2, LeopardAssumption DEF ReadCurrent
    <3>3. CASE ReadReverse(l)
      <4> DEFINE ids == {r \in Roots : index[r] # None}
      <4>1. CASE ids = {}
        BY <1>3, <3>3, <4>1 DEF ReadReverse
      <4>2. CASE ids # {}
        <5>1. TakeCandidates(l, ids) /\ UNCHANGED <<lmark, listed, held>>
          BY <3>3, <4>2 DEF ReadReverse
        <5> QED BY <1>5, <5>1
      <4> QED BY <4>1, <4>2
    <3>4. CASE ReverseFails(l)
      BY <1>3, <3>4 DEF ReverseFails
    <3>5. CASE Scan(l)
      <4>1. TakeCandidates(l, {r \in Roots : \E p \in Routes[r] : rows[p[1]] # None})
            /\ UNCHANGED <<lmark, listed, held>>
        BY <3>5 DEF Scan
      <4> QED BY <1>5, <4>1
    <3>6. ASSUME NEW r \in Roots, CheckCandidate(l, r) PROVE ListTypes'
      BY <1>3, <3>6 DEF CheckCandidate
    <3>7. CASE FinishList(l)
      BY <1>3, <3>7 DEF FinishList
    <3> QED BY <1>6, <3>1, <3>2, <3>3, <3>4, <3>5, <3>6, <3>7 DEF List
  <2> QED BY <1>1, <1>2, <2>1 DEF LeopardTypeOK
<1> QED BY <1>4, <1>6

LEMMA StutterKeeps == ASSUME LeopardInv, UNCHANGED leopardVars PROVE LeopardInv'
<1> USE DEF LeopardInv
<1>1. UNCHANGED <<rows, history, now, index, mark, built, rpc, rnow, rsnap, rfresh, rmark, filled, cpc,
                  pin, budget, asOf, snap, fresh, sharing, answers, lpc, lmark, cands, listed,
                  truncated, held>>
  BY DEF leopardVars, storeVars, indexVars, rebuildVars, checkVars, listVars
<1>2. LeopardTypeOK'
  BY <1>1 DEF LeopardTypeOK
<1> QED BY <1>1, <1>2 DEF StoreShape, Marked, Complete, Rebuilding, Checking, Covers, Watermark

LEMMA LeopardInvariance == LeopardSpec => []LeopardInv
<1>1. LeopardInv /\ [LeopardNext]_leopardVars => LeopardInv'
  BY WriteKeeps, TickKeeps, RebuildKeeps, PublishKeeps, CheckKeeps, ListKeeps, StutterKeeps
     DEF LeopardNext
<1> QED BY <1>1, LeopardInvInit, PTL DEF LeopardSpec

-----------------------------------------------------------------------------
\* The type invariant of the index and everybody that uses it.
THEOREM LeopardTypeCorrect == LeopardSpec => []LeopardTypeOK
BY LeopardInvariance, PTL DEF LeopardInv

\* The rows a reader finds are those of the state its watermark names.
THEOREM IndexOfWatermark == LeopardSpec => []IndexIsOfWatermark
<1>1. LeopardInv => IndexIsOfWatermark
  BY DEF LeopardInv, Marked, Complete, IndexIsOfWatermark
<1> QED BY <1>1, LeopardInvariance, PTL

\* The consistency-token guarantee survives the index, hit or miss.
THEOREM PinnedThroughIndex == LeopardSpec => []AnswersCoverPin
<1>1. ASSUME LeopardInv PROVE AnswersCoverPin
  <2>1. DOMAIN history = 1..Len(history)
    BY <1>1 DEF LeopardInv, StoreShape
  <2> QED BY <1>1, <2>1 DEF LeopardInv, Checking, Covers, AnswersCoverPin
<1> QED BY <1>1, LeopardInvariance, PTL

\* Rebuilds that overlap never put an older index in place of a newer one.
THEOREM IndexNeverOlder == LeopardSpec => WatermarkNeverGoesBack
<1>1. ASSUME LeopardInv, [LeopardNext]_leopardVars PROVE mark <= mark'
  <2>1. mark <= mark
    BY <1>1, LeopardAssumption DEF LeopardInv, LeopardTypeOK
  <2>2. CASE \E b \in Rebuilds : Publish(b)
    BY <1>1, <2>2, PublishKeeps
  <2>3. CASE ~ \E b \in Rebuilds : Publish(b)
    <3>1. mark' = mark
      BY <1>1, <2>3 DEF LeopardNext, Write, Tick, RebuildUnchanged, Rebuild, BeginRebuild,
         AnchorRebuild, TryLock, Refill, RollBack, Leave, CheckUnchanged, ListUnchanged,
         leopardVars, indexVars
    <3> QED BY <2>1, <3>1
  <2> QED BY <2>2, <2>3
<1>2. LeopardInv /\ [LeopardNext]_leopardVars => [mark <= mark']_leopardVars
  BY <1>1
<1> QED BY <1>2, LeopardInvariance, PTL DEF LeopardSpec, WatermarkNeverGoesBack

-----------------------------------------------------------------------------
(* Listings.  What has been reached ever since a listing began stays ahead of *)
(* it, from the index it trusts to the objects it has found allowed.          *)

\* The roots with an open route of any length.
Routed(rs, t) == {r \in Roots : \E p \in Routes[r] : Open(rs, t, p)}

\* A snapshot with every entry of write_log in it has the rows as they are.
SnapshotsHold ==
    /\ built.upTo = Len(history) => built.rows = rows
    /\ \A b \in Rebuilds : rpc[b] \in Building /\ rsnap[b].upTo = Len(history) => rsnap[b].rows = rows

\* The roots of h have rows, and so they will after the next rebuild that commits.
InIndex(h) ==
    /\ \A r \in h : index[r] # None
    /\ \A b \in Rebuilds : rfresh[b] => h \subseteq Routed(rsnap[b].rows, rnow[b])

ListsHold ==
    \A l \in Lists :
        /\ held[l] \subseteq Reached(rows, now)
        /\ lpc[l] = "current" => lmark[l] <= mark
        /\ lpc[l] = "reverse" => InIndex(held[l])
        /\ lpc[l] = "checking" /\ ~truncated[l] => held[l] \subseteq listed[l] \cup cands[l]
        /\ lpc[l] = "done" /\ ~truncated[l] => held[l] \subseteq listed[l]

ListInv == LeopardInv /\ SnapshotsHold /\ ListsHold

LEMMA ListInvInit == LeopardInit => ListInv
<1> SUFFICES ASSUME LeopardInit PROVE ListInv
  OBVIOUS
<1>1. SnapshotsHold
  BY DEF LeopardInit, Init, SnapshotsHold, State, Building
<1>2. ListsHold
  BY DEF LeopardInit, ListsHold
<1> QED BY <1>1, <1>2, LeopardInvInit DEF ListInv

LEMMA TokensArePositive == Tokens \subseteq Nat \ {0} /\ \A t \in Tokens \cup {0} : t \in Nat
<1>1. Tokens \subseteq Nat \ {0}
  BY LeopardAssumption
<1> QED BY <1>1

\* A write makes every older snapshot one that does not reach the end of write_log.
LEMMA WriteKeepsLists ==
    ASSUME ListInv, NEW r \in Requests, NEW t \in Tokens, Write(r, t)
    PROVE  SnapshotsHold' /\ ListsHold'
<1> USE DEF ListInv, LeopardInv
<1>1. UNCHANGED <<now, index, mark, built, rpc, rnow, rsnap, rfresh, lpc, lmark, cands, listed, truncated>>
  BY DEF Write, indexVars, rebuildVars, checkVars, listVars
<1>2. Len(history) \in Nat /\ Len(history') = Len(history) + 1
  <2>1. Tokens \subseteq Nat
    BY LeopardAssumption
  <2> QED BY <2>1, PerformExtends DEF Write
<1>3. SnapshotsHold'
  <2>1. built.upTo \in Nat /\ built.upTo <= Len(history)
    BY DEF Marked, LeopardTypeOK
  <2>2. \A b \in Rebuilds : rpc[b] \in Building => rsnap[b].upTo \in Nat /\ rsnap[b].upTo <= Len(history)
    BY DEF Rebuilding, States
  <2> QED BY <1>1, <1>2, <2>1, <2>2 DEF SnapshotsHold
<1>4. \A l \in Lists : held'[l] = held[l] \cap Reached(rows', now)
  BY DEF Write, StillHeld
<1>5. \A l \in Lists : held'[l] \subseteq held[l] /\ held'[l] \subseteq Reached(rows, now)'
  BY <1>1, <1>4 DEF Reached, Reaches
<1>6. \A l \in Lists : lpc[l] = "reverse" => InIndex(held'[l])
  BY <1>5 DEF ListsHold, InIndex
<1>7. \A l \in Lists : lpc[l] = "reverse" => InIndex(held[l])'
  BY <1>1, <1>6 DEF InIndex, Routed
<1> QED BY <1>1, <1>3, <1>5, <1>7 DEF ListsHold

\* The clock closes routes only.
LEMMA TickKeepsLists ==
    ASSUME ListInv, Tick
    PROVE  SnapshotsHold' /\ ListsHold'
<1> USE DEF ListInv, LeopardInv
<1>1. UNCHANGED <<rows, history, index, mark, built, rpc, rnow, rsnap, rfresh, lpc, lmark, cands, listed,
                  truncated>> /\ now' = now + 1
  BY DEF Tick, storeVars, indexVars, rebuildVars, checkVars, listVars
<1>2. SnapshotsHold'
  BY <1>1 DEF SnapshotsHold
<1>3. \A l \in Lists : held'[l] = held[l] \cap Reached(rows, now + 1)
  BY DEF Tick, StillHeld
<1>4. \A l \in Lists : held'[l] \subseteq held[l] /\ held'[l] \subseteq Reached(rows, now)'
  BY <1>1, <1>3 DEF Reached, Reaches
<1>5. \A l \in Lists : lpc[l] = "reverse" => InIndex(held'[l])
  BY <1>4 DEF ListsHold, InIndex
<1>6. \A l \in Lists : lpc[l] = "reverse" => InIndex(held[l])'
  BY <1>1, <1>5 DEF InIndex, Routed
<1> QED BY <1>1, <1>2, <1>4, <1>6 DEF ListsHold

\* What is reached now had an open route at any instant before, by the same rows.
LEMMA ReachedWasRouted ==
    ASSUME LeopardInv, NEW h, h \subseteq Reached(rows, now), NEW t \in Nat, t <= now
    PROVE  h \subseteq Routed(rows, t)
<1> SUFFICES ASSUME NEW r \in h PROVE r \in Routed(rows, t)
  OBVIOUS
<1>1. r \in Roots
  BY DEF Reached
<1>2. PICK p \in Routes[r] : Open(rows, now, p)
  BY DEF Reached, Reaches
<1>3. p \in Seq(Facts) /\ now \in Nat /\ rows \in [Facts -> Windows]
  BY <1>1, <1>2, LeopardAssumption DEF LeopardInv, LeopardTypeOK, StoreShape
<1>4. Open(rows, t, p)
  BY <1>2, <1>3, OpenOnlyCloses
<1> QED BY <1>1, <1>2, <1>4 DEF Routed

\* A rebuild that takes its snapshot now will have a row for whatever is held.
LEMMA RebuildKeepsLists ==
    ASSUME ListInv, NEW b \in Rebuilds, Rebuild(b), RebuildUnchanged
    PROVE  SnapshotsHold' /\ ListsHold'
<1> USE DEF ListInv, LeopardInv
<1>0. UNCHANGED <<storeVars, now, indexVars, checkVars, listVars, held>>
  BY DEF Rebuild, RebuildUnchanged, BeginRebuild, AnchorRebuild, TryLock, Refill, RollBack, Leave
<1>1. UNCHANGED <<rows, history, now, index, mark, built, lpc, lmark, cands, listed, truncated, held>>
  BY <1>0 DEF storeVars, indexVars, checkVars, listVars
<1>2. \A c \in Rebuilds \ {b} : rpc'[c] = rpc[c] /\ rsnap'[c] = rsnap[c] /\ rnow'[c] = rnow[c]
                                /\ rfresh'[c] = rfresh[c]
  BY DEF Rebuild, BeginRebuild, AnchorRebuild, TryLock, Refill, RollBack, Leave, EndRebuild, LeopardTypeOK
<1>3. \/ /\ rpc'[b] \in Building => rpc[b] \in Building
         /\ rfresh'[b] => rfresh[b] /\ rnow'[b] = rnow[b]
         /\ rpc'[b] \in Building => rsnap'[b] = rsnap[b]
      \/ rsnap'[b] = State /\ rnow'[b] = rnow[b]
  <2>1. CASE BeginRebuild(b)
    <3>1. ~rfresh[b]
      BY <2>1 DEF BeginRebuild, Rebuilding, Building
    <3> QED BY <2>1, <3>1 DEF BeginRebuild, LeopardTypeOK, Building
  <2>2. CASE AnchorRebuild(b)
    BY <2>2 DEF AnchorRebuild, LeopardTypeOK
  <2>3. CASE Leave(b)
    BY <2>3 DEF Leave, EndRebuild, LeopardTypeOK, Building
  <2>4. CASE TryLock(b) /\ ~Leave(b)
    BY <2>4 DEF TryLock, LeopardTypeOK, Building
  <2>5. CASE Refill(b)
    BY <2>5 DEF Refill, LeopardTypeOK, Building
  <2> QED BY <2>1, <2>2, <2>3, <2>4, <2>5 DEF Rebuild, RollBack
<1>4. LeopardInv'
  BY RebuildKeeps
<1>5. rfresh'[b] => rpc'[b] \in Building
  BY <1>4 DEF Rebuilding
<1>6. SnapshotsHold'
  <2>1. rpc'[b] \in Building /\ rsnap'[b].upTo = Len(history) => rsnap'[b].rows = rows
    BY <1>3 DEF SnapshotsHold, State
  <2>2. \A c \in Rebuilds : rpc'[c] \in Building /\ rsnap'[c].upTo = Len(history) => rsnap'[c].rows = rows
    BY <1>2, <2>1 DEF SnapshotsHold
  <2> QED BY <1>1, <2>2 DEF SnapshotsHold
<1>7. ASSUME NEW l \in Lists, lpc[l] = "reverse" PROVE InIndex(held[l])'
  <2>1. InIndex(held[l]) /\ held[l] \subseteq Reached(rows, now)
    BY <1>7 DEF ListsHold
  <2>2. ASSUME rfresh'[b] PROVE held[l] \subseteq Routed(rsnap'[b].rows, rnow'[b])
    <3>1. CASE rsnap'[b] = State /\ rnow'[b] = rnow[b]
      <4>1. rnow[b] \in Nat /\ rnow[b] <= now
        BY DEF LeopardTypeOK, Rebuilding
      <4>2. held[l] \subseteq Routed(rows, rnow[b])
        BY <2>1, <4>1, ReachedWasRouted
      <4> QED BY <3>1, <4>2 DEF State
    <3>2. CASE ~(rsnap'[b] = State /\ rnow'[b] = rnow[b])
      BY <1>3, <1>5, <2>1, <2>2, <3>2 DEF InIndex
    <3> QED BY <3>1, <3>2
  <2>3. \A c \in Rebuilds : rfresh'[c] => held[l] \subseteq Routed(rsnap'[c].rows, rnow'[c])
    BY <1>2, <2>1, <2>2 DEF InIndex
  <2> QED BY <1>1, <2>1, <2>3 DEF InIndex, Routed
<1>8. ListsHold'
  BY <1>1, <1>7 DEF ListsHold, Reached, Reaches
<1> QED BY <1>6, <1>8

\* The index that appears has a row for whatever is held, for its rebuild was fresh.
LEMMA PublishKeepsLists ==
    ASSUME ListInv, NEW b \in Rebuilds, Publish(b)
    PROVE  SnapshotsHold' /\ ListsHold'
<1> USE DEF ListInv, LeopardInv
<1>1. /\ rpc[b] = "filled"
      /\ index' = filled[b] /\ mark' = rmark[b] /\ built' = rsnap[b]
      /\ rfresh' = [o \in Rebuilds |-> FALSE]
      /\ rpc' = [rpc EXCEPT ![b] = "idle"]
      /\ rsnap' = [rsnap EXCEPT ![b] = None]
      /\ UNCHANGED <<rows, history, now, lpc, lmark, cands, listed, truncated, held>>
  BY DEF Publish, EndRebuild, storeVars, listVars
<1>2. mark <= mark' /\ mark \in Nat /\ mark' \in Nat /\ \A l \in Lists : lmark[l] \in Nat
  <2>1. mark' \in Tokens \cup {0} /\ mark \in Tokens \cup {0} /\ mark <= mark'
        /\ \A l \in Lists : lmark[l] \in Tokens \cup {0}
    BY PublishKeeps DEF LeopardTypeOK
  <2> QED BY <2>1, TokensArePositive
<1>3. SnapshotsHold'
  <2>1. rpc'[b] = "idle" /\ \A c \in Rebuilds \ {b} : rpc'[c] = rpc[c] /\ rsnap'[c] = rsnap[c]
    BY <1>1 DEF LeopardTypeOK
  <2> QED BY <1>1, <2>1 DEF SnapshotsHold, Building
<1>4. rfresh[b] /\ \A r \in Roots : Closure(filled[b][r], rsnap[b].rows, rnow[b], r)
  BY <1>1 DEF Rebuilding, Holding
<1>5. ASSUME NEW l \in Lists, lpc[l] = "reverse" PROVE InIndex(held[l])'
  <2>1. held[l] \subseteq Routed(rsnap[b].rows, rnow[b])
    BY <1>4, <1>5 DEF ListsHold, InIndex
  <2>2. \A r \in held[l] : filled[b][r] # None
    BY <1>4, <2>1 DEF Closure, Routed
  <2> QED BY <1>1, <2>2 DEF InIndex
<1>6. \A l \in Lists : lpc[l] = "current" => lmark[l] <= mark'
  BY <1>2 DEF ListsHold
<1> QED BY <1>1, <1>3, <1>5, <1>6 DEF ListsHold, Reached, Reaches

\* An index that has caught up with write_log has a row for whatever is reached.
LEMMA CaughtUpIsComplete ==
    ASSUME ListInv, NEW l \in Lists, lpc[l] = "current", CaughtUp(l)
    PROVE  InIndex(held[l])
<1> USE DEF ListInv, LeopardInv
<1>1. Len(history) \in Nat /\ built.upTo \in Nat /\ built.upTo <= Len(history)
      /\ now \in Nat
  BY LeopardAssumption DEF Marked, LeopardTypeOK, StoreShape
<1>2. lmark[l] \in Nat /\ lmark[l] <= mark /\ mark = Watermark(built.upTo)
  <2>1. lmark[l] \in Tokens \cup {0}
    BY DEF LeopardTypeOK
  <2> QED BY <2>1, TokensArePositive DEF ListsHold, Marked
<1>3. built.upTo = Len(history)
  <2>1. SUFFICES ASSUME built.upTo < Len(history) PROVE FALSE
    BY <1>1
  <2>2. Len(history) \in 1..Len(history) /\ history[Len(history)] \in Entries
    BY <1>1, <2>1 DEF StoreShape
  <2>3. Watermark(Len(history)) = history[Len(history)].token /\ history[Len(history)].token \in Nat \ {0}
    <3>1. history[Len(history)].token \in Tokens
      BY <2>2 DEF Entries
    <3>2. history[Len(history)].token \in Nat \ {0}
      BY <3>1, TokensArePositive
    <3>3. Len(history) # 0
      BY <1>1, <2>1
    <3> HIDE DEF ListInv, LeopardInv
    <3> QED BY <3>2, <3>3 DEF Watermark
  <2>4. CASE built.upTo = 0
    <3>1. mark = 0
      BY <1>2, <2>4 DEF Watermark
    <3>2. Watermark(Len(history)) <= lmark[l]
      BY DEF CaughtUp
    <3> HIDE DEF Watermark
    <3> QED BY <1>2, <2>3, <3>1, <3>2
  <2>5. CASE built.upTo # 0
    <3>1. built.upTo \in 1..Len(history) /\ history[built.upTo] \in Entries
      BY <1>1, <2>5 DEF StoreShape
    <3>2. mark = history[built.upTo].token /\ mark \in Nat
      BY <1>2, <2>5, <3>1, LeopardAssumption DEF Watermark, Entries
    <3>3. history[built.upTo].token < history[Len(history)].token
      BY <1>1, <2>1, <2>2, <3>1 DEF StoreShape
    <3>4. Watermark(Len(history)) <= lmark[l]
      BY DEF CaughtUp
    <3> QED BY <1>2, <2>3, <3>2, <3>3, <3>4
  <2> QED BY <2>4, <2>5
<1>4. built.rows = rows /\ held[l] \subseteq Reached(rows, now)
  BY <1>3 DEF SnapshotsHold, ListsHold
<1>5. \A r \in held[l] : index[r] # None
  BY <1>4 DEF Complete, Reached, Reaches
<1>6. ASSUME NEW b \in Rebuilds, rfresh[b] PROVE held[l] \subseteq Routed(rsnap[b].rows, rnow[b])
  <2>1. rpc[b] \in Building /\ rsnap[b] \in States /\ rsnap[b].upTo <= Len(history)
        /\ built.upTo <= rsnap[b].upTo /\ rnow[b] <= now
    BY <1>6 DEF Rebuilding
  <2>2. rsnap[b].upTo = Len(history) /\ rnow[b] \in Nat
    BY <1>1, <1>3, <2>1 DEF States, LeopardTypeOK
  <2>3. rsnap[b].rows = rows
    BY <2>1, <2>2 DEF SnapshotsHold
  <2>4. held[l] \subseteq Routed(rows, rnow[b])
    BY <1>4, <2>1, <2>2, ReachedWasRouted
  <2> QED BY <2>3, <2>4
<1> QED BY <1>5, <1>6 DEF InIndex

\* A result that was not cut is taken whole.
LEMMA UncutIsWhole ==
    ASSUME LeopardTypeOK, NEW l \in Lists, NEW ids \in SUBSET Roots, TakeCandidates(l, ids), ~truncated'[l]
    PROVE  cands'[l] = ids
<1>1. PICK some \in SUBSET ids :
        /\ Cardinality(some) = IF Cardinality(ids) > ListLimit THEN ListLimit ELSE Cardinality(ids)
        /\ cands' = [cands EXCEPT ![l] = some]
  BY DEF TakeCandidates
<1>2. ~(Cardinality(ids) > ListLimit)
  BY DEF TakeCandidates, LeopardTypeOK
<1>3. IsFiniteSet(ids)
  BY FS_Subset, LeopardAssumption
<1>4. some = ids
  BY <1>1, <1>2, <1>3, FS_Subset
<1> QED BY <1>1, <1>4 DEF LeopardTypeOK

\* What is held after a step of listing l, given where the step leaves it.
LEMMA ListMoves ==
    ASSUME ListInv, NEW l \in Lists, ListUnchanged,
           \A m \in Lists \ {l} : /\ held'[m] = held[m] /\ lpc'[m] = lpc[m] /\ lmark'[m] = lmark[m]
                                  /\ cands'[m] = cands[m] /\ listed'[m] = listed[m]
                                  /\ truncated'[m] = truncated[m],
           held'[l] \subseteq Reached(rows, now),
           lpc'[l] = "current" => lmark'[l] <= mark,
           lpc'[l] = "reverse" => InIndex(held'[l]),
           lpc'[l] = "checking" /\ ~truncated'[l] => held'[l] \subseteq listed'[l] \cup cands'[l],
           lpc'[l] = "done" /\ ~truncated'[l] => held'[l] \subseteq listed'[l]
    PROVE  SnapshotsHold' /\ ListsHold'
<1> USE DEF ListInv, LeopardInv
<1>1. UNCHANGED <<rows, history, now, index, mark, built, rpc, rnow, rsnap, rfresh>>
  BY DEF ListUnchanged, storeVars, indexVars, rebuildVars, checkVars
<1>2. SnapshotsHold'
  BY <1>1 DEF SnapshotsHold
<1>3. ASSUME NEW m \in Lists
      PROVE  /\ held'[m] \subseteq Reached(rows, now)
             /\ lpc'[m] = "current" => lmark'[m] <= mark
             /\ lpc'[m] = "reverse" => InIndex(held'[m])
             /\ lpc'[m] = "checking" /\ ~truncated'[m] => held'[m] \subseteq listed'[m] \cup cands'[m]
             /\ lpc'[m] = "done" /\ ~truncated'[m] => held'[m] \subseteq listed'[m]
  <2>1. CASE m = l
    BY <2>1
  <2>2. CASE m # l
    BY <2>2 DEF ListsHold
  <2> QED BY <2>1, <2>2
<1>4. \A m \in Lists : InIndex(held'[m]) => InIndex(held[m])'
  BY <1>1 DEF InIndex, Routed
<1>5. Reached(rows, now)' = Reached(rows, now)
  BY <1>1 DEF Reached, Reaches
<1> QED BY <1>1, <1>2, <1>3, <1>4, <1>5 DEF ListsHold

LEMMA ListKeepsLists ==
    ASSUME ListInv, NEW l \in Lists, List(l), ListUnchanged
    PROVE  SnapshotsHold' /\ ListsHold'
<1> USE DEF ListInv, LeopardInv
<1>1. \A m \in Lists \ {l} : /\ held'[m] = held[m] /\ lpc'[m] = lpc[m] /\ lmark'[m] = lmark[m]
                             /\ cands'[m] = cands[m] /\ listed'[m] = listed[m]
                             /\ truncated'[m] = truncated[m]
  <2>1. CASE BeginList(l)
    BY <2>1 DEF BeginList, LeopardTypeOK
  <2>2. CASE ReadWatermark(l)
    BY <2>2 DEF ReadWatermark, LeopardTypeOK
  <2>3. CASE ReadCurrent(l)
    BY <2>3 DEF ReadCurrent, LeopardTypeOK
  <2>4. CASE ReadReverse(l)
    BY <2>4 DEF ReadReverse, TakeCandidates, LeopardTypeOK
  <2>5. CASE ReverseFails(l)
    BY <2>5 DEF ReverseFails, LeopardTypeOK
  <2>6. CASE Scan(l)
    BY <2>6 DEF Scan, TakeCandidates, LeopardTypeOK
  <2>7. CASE \E r \in Roots : CheckCandidate(l, r)
    BY <2>7 DEF CheckCandidate, LeopardTypeOK
  <2>8. CASE FinishList(l)
    BY <2>8 DEF FinishList, LeopardTypeOK
  <2> QED BY <2>1, <2>2, <2>3, <2>4, <2>5, <2>6, <2>7, <2>8 DEF List
<1>2. held[l] \subseteq Reached(rows, now) /\ held[l] \subseteq Roots
      /\ mark <= mark
  <2>1. mark \in Tokens \cup {0}
    BY DEF LeopardTypeOK
  <2>2. mark \in Nat
    BY <2>1, TokensArePositive
  <2> QED BY <2>2 DEF ListsHold, LeopardTypeOK
<1>3. CASE BeginList(l)
  <2>1. lpc'[l] \in {"scan", "watermark"} /\ held'[l] = Reached(rows, now)
    BY <1>3 DEF BeginList, LeopardTypeOK
  <2> QED BY <1>1, <2>1, ListMoves
<1>4. CASE ReadWatermark(l)
  <2>1. lpc'[l] = "current" /\ lmark'[l] = mark /\ held'[l] = held[l]
    BY <1>4 DEF ReadWatermark, LeopardTypeOK
  <2> QED BY <1>1, <1>2, <2>1, ListMoves
<1>5. CASE ReadCurrent(l)
  <2>1. /\ lpc'[l] = IF CaughtUp(l) THEN "reverse" ELSE "scan"
        /\ lpc[l] = "current" /\ held'[l] = held[l]
    BY <1>5 DEF ReadCurrent, LeopardTypeOK
  <2>2. lpc'[l] = "reverse" => InIndex(held'[l])
    BY <2>1, CaughtUpIsComplete
  <2> QED BY <1>1, <1>2, <2>1, <2>2, ListMoves
<1>6. CASE ReadReverse(l)
  <2> DEFINE ids == {r \in Roots : index[r] # None}
  <2>1. lpc[l] = "reverse" /\ UNCHANGED <<lmark, listed, held>> /\ InIndex(held[l])
    BY <1>6 DEF ReadReverse, ListsHold
  <2>2. held[l] \subseteq ids
    BY <1>2, <2>1 DEF InIndex
  <2>3. CASE ids = {}
    <3>1. lpc'[l] = "scan"
      BY <1>6, <2>3 DEF ReadReverse, LeopardTypeOK
    <3> QED BY <1>1, <1>2, <2>1, <3>1, ListMoves
  <2>4. CASE ids # {}
    <3>1. TakeCandidates(l, ids) /\ ids \in SUBSET Roots
      BY <1>6, <2>4 DEF ReadReverse
    <3>2. lpc'[l] = "checking"
      BY <3>1 DEF TakeCandidates, LeopardTypeOK
    <3>3. ~truncated'[l] => cands'[l] = ids
      BY <3>1, UncutIsWhole
    <3>4. ~truncated'[l] => held'[l] \subseteq listed'[l] \cup cands'[l]
      BY <2>1, <2>2, <3>3
    <3>5. held'[l] \subseteq Reached(rows, now)
      BY <1>2, <2>1
    <3> QED BY <1>1, <3>2, <3>4, <3>5, ListMoves
  <2> QED BY <2>3, <2>4
<1>7. CASE ReverseFails(l)
  <2>1. lpc'[l] = "scan" /\ held'[l] = held[l]
    BY <1>7 DEF ReverseFails, LeopardTypeOK
  <2> QED BY <1>1, <1>2, <2>1, ListMoves
<1>8. CASE Scan(l)
  <2> DEFINE ids == {r \in Roots : \E p \in Routes[r] : rows[p[1]] # None}
  <2>1. TakeCandidates(l, ids) /\ UNCHANGED <<lmark, listed, held>> /\ ids \in SUBSET Roots
    BY <1>8 DEF Scan
  <2>2. held[l] \subseteq ids
    <3> SUFFICES ASSUME NEW r \in held[l] PROVE \E p \in Routes[r] : rows[p[1]] # None
      BY <1>2
    <3>1. PICK p \in Routes[r] : Open(rows, now, p)
      BY <1>2 DEF Reached, Reaches
    <3>2. p \in Seq(Facts) /\ p # << >>
      BY <1>2, <3>1, LeopardAssumption
    <3>3. 1 \in DOMAIN p
      BY <3>2
    <3> QED BY <3>1, <3>3 DEF Open, Live
  <2>3. lpc'[l] = "checking"
    BY <2>1 DEF TakeCandidates, LeopardTypeOK
  <2>4. ~truncated'[l] => cands'[l] = ids
    BY <2>1, UncutIsWhole
  <2>5. ~truncated'[l] => held'[l] \subseteq listed'[l] \cup cands'[l]
    BY <2>1, <2>2, <2>4
  <2>6. held'[l] \subseteq Reached(rows, now)
    BY <1>2, <2>1
  <2> QED BY <1>1, <2>3, <2>5, <2>6, ListMoves
<1>9. ASSUME NEW r \in Roots, CheckCandidate(l, r) PROVE SnapshotsHold' /\ ListsHold'
  <2>1. /\ lpc[l] = "checking" /\ lpc'[l] = "checking" /\ held'[l] = held[l]
        /\ truncated'[l] = truncated[l]
        /\ cands'[l] = cands[l] \ {r}
        /\ listed'[l] = IF Reaches(rows, now, r, MaxDepth) THEN listed[l] \cup {r} ELSE listed[l]
    BY <1>9 DEF CheckCandidate, LeopardTypeOK
  <2>2. ~truncated[l] => held[l] \subseteq listed[l] \cup cands[l]
    BY <2>1 DEF ListsHold
  <2>3. r \in held[l] => Reaches(rows, now, r, MaxDepth)
    BY <1>2 DEF Reached
  <2>4. ~truncated'[l] => held'[l] \subseteq listed'[l] \cup cands'[l]
    BY <2>1, <2>2, <2>3
  <2> QED BY <1>1, <1>2, <2>1, <2>4, ListMoves
<1>10. CASE FinishList(l)
  <2>1. /\ lpc[l] = "checking" /\ lpc'[l] = "done" /\ held'[l] = held[l] /\ cands[l] = {}
        /\ truncated'[l] = truncated[l] /\ listed'[l] = listed[l]
    BY <1>10 DEF FinishList, LeopardTypeOK
  <2>2. ~truncated'[l] => held'[l] \subseteq listed'[l]
    BY <2>1 DEF ListsHold
  <2> QED BY <1>1, <1>2, <2>1, <2>2, ListMoves
<1> QED BY <1>3, <1>4, <1>5, <1>6, <1>7, <1>8, <1>9, <1>10 DEF List

\* Checks and steps outside of the model change nothing a listing depends on.
LEMMA OthersKeepLists ==
    ASSUME ListInv, UNCHANGED <<storeVars, now, indexVars, rebuildVars, listVars, held>>
    PROVE  SnapshotsHold' /\ ListsHold'
BY DEF ListInv, SnapshotsHold, ListsHold, InIndex, Routed, Reached, Reaches,
       storeVars, indexVars, rebuildVars, listVars

\* A listing that is not cut short misses nothing that was reached throughout,
\* whichever of the index and the scan it took its candidates from, and whatever
\* was written and rebuilt meanwhile.
THEOREM ListComplete == LeopardSpec => []ListMissesNothing
<1>1. ListInv /\ [LeopardNext]_leopardVars => ListInv'
  <2> SUFFICES ASSUME ListInv, [LeopardNext]_leopardVars PROVE ListInv'
    OBVIOUS
  <2>1. LeopardInv'
    BY WriteKeeps, TickKeeps, RebuildKeeps, PublishKeeps, CheckKeeps, ListKeeps, StutterKeeps
       DEF LeopardNext, ListInv
  <2>2. SnapshotsHold' /\ ListsHold'
    <3>1. CASE UNCHANGED leopardVars
      BY <3>1, OthersKeepLists DEF leopardVars
    <3>2. ASSUME NEW k \in Checks, Check(k), CheckUnchanged PROVE SnapshotsHold' /\ ListsHold'
      BY <3>2, OthersKeepLists DEF CheckUnchanged
    <3> QED BY <3>1, <3>2, WriteKeepsLists, TickKeepsLists, RebuildKeepsLists, PublishKeepsLists,
               ListKeepsLists DEF LeopardNext
  <2> QED BY <2>1, <2>2 DEF ListInv
<1>2. ListInv => ListMissesNothing
  BY DEF ListInv, ListsHold, ListMissesNothing
<1> QED BY <1>1, <1>2, ListInvInit, PTL DEF LeopardSpec
=============================================================================
