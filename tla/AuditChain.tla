----------------------------- MODULE AuditChain -----------------------------
(***************************************************************************)
(* The hash-chained audit log: concurrent insertCheckRow calls (src/audit/ *)
(* checks.ts), one action per awaited statement, with failing statements   *)
(* and dead connections; the operator's audit anchor (src/audit/anchor.ts) *)
(* and audit verify (src/cli/commands/audit.ts) commands beside them; and  *)
(* what somebody with database access may do to rows that are there, which *)
(* is what the chain and the anchors are for.  SHA-256 is taken to be      *)
(* injective.                                                              *)
(***************************************************************************)
EXTENDS Integers, Sequences, FiniteSets

CONSTANTS Calls,      \* concurrent activations of insertCheckRow
          Bodies,     \* what a row records beside checked_at
          None,       \* no lock holder; a null hash; nothing read yet
          MaxSeq,     \* the last value of the chain_seq identity column
          MaxLegacy,  \* rows from before migration 0006, with null hashes
          MaxNow,     \* the last instant of the clock
          MaxAnchors, \* entries an anchor file may get
          MaxTampers  \* how often somebody touches the rows

ASSUME ChainAssumption == /\ MaxSeq \in Nat /\ MaxLegacy \in Nat /\ MaxNow \in Nat
                          /\ MaxAnchors \in Nat /\ MaxTampers \in Nat
                          /\ MaxLegacy <= MaxSeq
                          /\ Bodies # {}
                          /\ None \notin Calls
                          /\ None \notin Seq(Bodies \X (0..MaxNow))

VARIABLES now,        \* the clock of the processes
          checks,     \* the committed rows
          recorded,   \* the rows as insertCheckRow committed them
          seq,        \* last chain_seq handed out
          lock,       \* holder of the advisory lock, or None
          pc,         \* where each call is
          body,       \* what it records
          checkedAt,  \* its new Date()
          prev,       \* the tip hash it read
          row,        \* the row it inserted
          anchors,    \* the entries of the anchor file; clean: taken before any rewrite
          tip,        \* the tip an audit anchor is about to append, or None
          rowsRead,   \* the rows an audit verify has read, or None
          verdict,    \* how the last audit verify ended
          edits,      \* how often somebody changed or deleted a row in place
          rewrites    \* how often somebody rewrote the end, hashes included

callVars == <<pc, body, checkedAt, prev, row>>
toolVars == <<anchors, tip, rowsRead, verdict>>
tamperVars == <<edits, rewrites>>
vars == <<now, checks, recorded, seq, lock, callVars, toolVars, tamperVars>>

Instants == 0..MaxNow
Holding == {"locked", "read", "inserted", "orphaned", "orphanedCommit"}
States == {"idle", "captured", "begun", "committed"} \cup Holding

Genesis == << >>
Hash(b, at, h) == Append(h, <<b, at>>)     \* computeCheckRowHash

\* The rows a reader of the chain looks at: row_hash is not null.
Chained(rows) == { r \in rows : r.hash # None }

\* order by chain_seq desc limit 1
TipRow(rows) == CHOOSE r \in Chained(rows) : \A s \in Chained(rows) : s.seq <= r.seq
TipHash(rows) == IF Chained(rows) = {} THEN Genesis ELSE TipRow(rows).hash

Legacy(n) == { [seq |-> i, body |-> CHOOSE b \in Bodies : TRUE, at |-> 0,
                prev |-> None, hash |-> None] : i \in 1..n }

Init == /\ now = 0
        /\ \E n \in 0..MaxLegacy : checks = Legacy(n) /\ seq = n
        /\ recorded = checks
        /\ lock = None
        /\ pc = [c \in Calls |-> "idle"]
        /\ body = [c \in Calls |-> None]
        /\ checkedAt = [c \in Calls |-> 0]
        /\ prev = [c \in Calls |-> None]
        /\ row = [c \in Calls |-> None]
        /\ anchors = {}
        /\ tip = None
        /\ rowsRead = None
        /\ verdict = "none"
        /\ edits = 0
        /\ rewrites = 0

-----------------------------------------------------------------------------
\* checkedAt is taken before the connection, let alone the lock.
CaptureCheckedAt(c, b) ==
    /\ pc[c] = "idle"
    /\ pc' = [pc EXCEPT ![c] = "captured"]
    /\ body' = [body EXCEPT ![c] = b]
    /\ checkedAt' = [checkedAt EXCEPT ![c] = now]
    /\ UNCHANGED <<now, checks, recorded, seq, lock, prev, row, toolVars, tamperVars>>

BeginTransaction(c) ==
    /\ pc[c] = "captured"
    /\ pc' = [pc EXCEPT ![c] = "begun"]
    /\ UNCHANGED <<now, checks, recorded, seq, lock, body, checkedAt, prev, row,
                   toolVars, tamperVars>>

\* Mutant: the chain is read and extended without the lock.
AcquireNothing(c) ==
    /\ pc[c] = "begun"
    /\ lock' = c
    /\ pc' = [pc EXCEPT ![c] = "locked"]
    /\ UNCHANGED <<now, checks, recorded, seq, body, checkedAt, prev, row, toolVars, tamperVars>>

AcquireChainLock(c) ==
    /\ pc[c] = "begun"
    /\ lock = None
    /\ lock' = c
    /\ pc' = [pc EXCEPT ![c] = "locked"]
    /\ UNCHANGED <<now, checks, recorded, seq, body, checkedAt, prev, row, toolVars, tamperVars>>

FetchChainTipHash(c) ==
    /\ pc[c] = "locked"
    /\ prev' = [prev EXCEPT ![c] = TipHash(checks)]
    /\ pc' = [pc EXCEPT ![c] = "read"]
    /\ UNCHANGED <<now, checks, recorded, seq, lock, body, checkedAt, row, toolVars, tamperVars>>

\* chain_seq is allocated here, and stays allocated after a rollback.
InsertRow(c) ==
    /\ pc[c] = "read"
    /\ seq < MaxSeq
    /\ seq' = seq + 1
    /\ row' = [row EXCEPT ![c] = [seq |-> seq + 1, body |-> body[c], at |-> checkedAt[c],
                                  prev |-> prev[c],
                                  hash |-> Hash(body[c], checkedAt[c], prev[c])]]
    /\ pc' = [pc EXCEPT ![c] = "inserted"]
    /\ UNCHANGED <<now, checks, recorded, lock, body, checkedAt, prev, toolVars, tamperVars>>

Land(c) == /\ checks' = checks \cup {row[c]}
           /\ recorded' = recorded \cup {row[c]}
           /\ lock' = None

Leave(c) == /\ pc' = [pc EXCEPT ![c] = "idle"]
            /\ body' = [body EXCEPT ![c] = None]
            /\ checkedAt' = [checkedAt EXCEPT ![c] = 0]
            /\ prev' = [prev EXCEPT ![c] = None]
            /\ row' = [row EXCEPT ![c] = None]

\* COMMIT; that the answer to it may be lost makes no difference to the log.
Commit(c) == /\ pc[c] = "inserted"
             /\ Land(c)
             /\ Leave(c)
             /\ UNCHANGED <<now, seq, toolVars, tamperVars>>

\* A statement fails: ROLLBACK, release, throw, and the check's result with it.
Throw(c) == /\ pc[c] \in {"captured", "begun", "locked", "read", "inserted"}
            /\ lock' = IF lock = c THEN None ELSE lock
            /\ Leave(c)
            /\ UNCHANGED <<now, checks, recorded, seq, toolVars, tamperVars>>

\* The connection dies under the lock, and the server has not noticed.
LoseConnection(c) ==
    /\ pc[c] \in {"locked", "read", "inserted"}
    /\ pc' = [pc EXCEPT ![c] = IF @ = "inserted" THEN "orphanedCommit" ELSE "orphaned"]
    /\ UNCHANGED <<now, checks, recorded, seq, lock, body, checkedAt, prev, row,
                   toolVars, tamperVars>>

Reap(c) == /\ pc[c] \in {"orphaned", "orphanedCommit"}
           /\ lock' = IF lock = c THEN None ELSE lock
           /\ Leave(c)
           /\ UNCHANGED <<now, checks, recorded, seq, toolVars, tamperVars>>

LandOrphan(c) == /\ pc[c] = "orphanedCommit"
                 /\ Land(c)
                 /\ Leave(c)
                 /\ UNCHANGED <<now, seq, toolVars, tamperVars>>

-----------------------------------------------------------------------------
\* audit anchor: the tip is read without a lock, and appended afterwards.
ReadChainTip == /\ tip = None
                /\ Chained(checks) # {}
                /\ tip' = [seq |-> TipRow(checks).seq, hash |-> TipRow(checks).hash,
                           clean |-> rewrites = 0]
                /\ UNCHANGED <<now, checks, recorded, seq, lock, callVars,
                               anchors, rowsRead, verdict, tamperVars>>

AppendAnchor == /\ tip # None
                /\ Cardinality(anchors) < MaxAnchors
                /\ anchors' = anchors \cup {tip}
                /\ tip' = None
                /\ UNCHANGED <<now, checks, recorded, seq, lock, callVars,
                               rowsRead, verdict, tamperVars>>

\* audit verify: all chained rows by one query ...
ReadRows == /\ rowsRead = None
            /\ rowsRead' = Chained(checks)
            /\ verdict' = "none"
            /\ UNCHANGED <<now, checks, recorded, seq, lock, callVars, anchors, tip, tamperVars>>

\* Mutant: verify trusts the prev_hash stored in the row itself.
BrokenByOwnPrev(rows) == { r \in Chained(rows) : r.hash # Hash(r.body, r.at, r.prev) }

\* The rows of the chain whose hash is not that of their columns and of the
\* hash stored in the row before them.
Broken(rows) ==
    { r \in Chained(rows) :
        r.hash # Hash(r.body, r.at, TipHash({ s \in Chained(rows) : s.seq < r.seq })) }

\* Mutant: a row with the anchor's chain_seq is enough.
MismatchedBySeq(rows) == { a \in anchors : ~\E r \in rows : r.seq = a.seq }

\* The anchor entries for whose chain_seq the rows have another hash, or none.
Mismatched(rows) == { a \in anchors : ~\E r \in rows : r.seq = a.seq /\ r.hash = a.hash }

\* ... then the walk, and the anchor file, read last and only if one is given
\* and the walk found nothing.
Verify(withAnchors) ==
    /\ rowsRead # None
    /\ verdict' = IF Broken(rowsRead) # {} THEN "tampered"
                  ELSE IF ~withAnchors THEN "intact"
                  ELSE IF Mismatched(rowsRead) # {} THEN "mismatch"
                  ELSE "anchored"
    /\ rowsRead' = None
    /\ UNCHANGED <<now, checks, recorded, seq, lock, callVars, anchors, tip, tamperVars>>

-----------------------------------------------------------------------------
\* One recorded row quietly altered, or one taken out from between others.
EditRow(r, b) == /\ r.hash # None
                 /\ checks' = (checks \ {r}) \cup {[r EXCEPT !.body = b]}
                 /\ edits' = edits + 1
                 /\ UNCHANGED <<now, recorded, seq, lock, callVars, toolVars, rewrites>>

DeleteRow(r) == /\ r.hash # None
                /\ \E s \in Chained(checks) : r.seq < s.seq
                /\ checks' = checks \ {r}
                /\ edits' = edits + 1
                /\ UNCHANGED <<now, recorded, seq, lock, callVars, toolVars, rewrites>>

\* The tip deleted: what is left is a chain, and the next row extends that.
TruncateTip ==
    /\ Chained(checks) # {}
    /\ checks' = checks \ {TipRow(checks)}
    /\ rewrites' = rewrites + 1
    /\ UNCHANGED <<now, recorded, seq, lock, callVars, toolVars, edits>>

\* The tip altered with a matching hash: the shortest forward rewrite there is.
RewriteTip(b) ==
    /\ Chained(checks) # {}
    /\ LET r == TipRow(checks)
           h == Hash(b, r.at, TipHash({ s \in Chained(checks) : s.seq < r.seq }))
       IN  /\ b # r.body
           /\ checks' = (checks \ {r}) \cup {[r EXCEPT !.body = b, !.hash = h]}
    /\ rewrites' = rewrites + 1
    /\ UNCHANGED <<now, recorded, seq, lock, callVars, toolVars, edits>>

Tick == /\ now < MaxNow
        /\ now' = now + 1
        /\ UNCHANGED <<checks, recorded, seq, lock, callVars, toolVars, tamperVars>>

-----------------------------------------------------------------------------
CallStep(c) == \/ \E b \in Bodies : CaptureCheckedAt(c, b)
               \/ BeginTransaction(c)
               \/ AcquireChainLock(c)
               \/ FetchChainTipHash(c)
               \/ InsertRow(c)
               \/ Commit(c)
               \/ Throw(c)
               \/ LoseConnection(c)
               \/ Reap(c)
               \/ LandOrphan(c)

Operator == \/ ReadChainTip
            \/ AppendAnchor
            \/ ReadRows
            \/ \E withAnchors \in BOOLEAN : Verify(withAnchors)

Tamper == /\ edits + rewrites < MaxTampers
          /\ \/ \E r \in checks, b \in Bodies : b # r.body /\ EditRow(r, b)
             \/ \E r \in checks : DeleteRow(r)
             \/ TruncateTip
             \/ \E b \in Bodies : RewriteTip(b)

\* The program alone.
Next == Tick \/ Operator \/ \E c \in Calls : CallStep(c)
Spec == Init /\ [][Next]_vars

\* The program, and somebody at the rows.
TamperNext == Next \/ Tamper
TamperSpec == Init /\ [][TamperNext]_vars

-----------------------------------------------------------------------------
Hashes == Seq(Bodies \X Instants)
Rows == [seq : 1..MaxSeq, body : Bodies, at : Instants,
         prev : Hashes \cup {None}, hash : Hashes \cup {None}]
Entries == [seq : 1..MaxSeq, hash : Hashes, clean : BOOLEAN]

\* The type of every variable.
TypeOK ==
    /\ now \in Instants
    /\ \A r \in checks \cup recorded : r \in Rows
    /\ seq \in 0..MaxSeq
    /\ lock \in Calls \cup {None}
    /\ pc \in [Calls -> States]
    /\ body \in [Calls -> Bodies \cup {None}]
    /\ checkedAt \in [Calls -> Instants]
    /\ prev \in [Calls -> Hashes \cup {None}]
    /\ row \in [Calls -> Rows \cup {None}]
    /\ \A a \in anchors : a \in Entries
    /\ tip # None => tip \in Entries
    /\ rowsRead # None => \A r \in rowsRead : r \in Rows
    /\ verdict \in {"none", "tampered", "intact", "mismatch", "anchored"}
    /\ edits \in 0..MaxTampers /\ rewrites \in 0..MaxTampers

\* However calls overlap, fail or die, what they commit is one chain in
\* chain_seq order without a fork, so that verify never reports a break in a
\* log nobody touched (checks.ts:232-257).
NeverBroken == edits = 0 /\ rewrites = 0 => Broken(checks) = {}

\* "intact" is only said of rows that are, from the first to the last one read,
\* the rows insertCheckRow committed: no single edit and no row taken out from
\* between others passes (checks.ts:98-112).
IntactOnlyAsRecorded ==
    verdict' = "intact" /\ rowsRead # None /\ rewrites = 0 =>
        rowsRead = { r \in Chained(recorded) : \E s \in rowsRead : r.seq <= s.seq }
IntactMeansAsRecorded == [][IntactOnlyAsRecorded]_vars

\* With an anchor file, a rewrite of any row at or before an anchor taken
\* earlier is found although the chain itself verifies (audit.ts:58-66).
AnchoredOnlyAsRecorded ==
    verdict' = "anchored" /\ rowsRead # None =>
        \A a \in anchors, r \in rowsRead : a.clean /\ r.seq <= a.seq => r \in recorded
AnchoredMeansAsRecorded == [][AnchoredOnlyAsRecorded]_vars

\* "the timestamp genuinely reflects this row's real position in the chain"
\* (checks.ts:226-227).
CheckedAtFollowsChain == \A r, s \in Chained(checks) : r.seq < s.seq => r.at <= s.at

\* ANCHOR MISMATCH means that "either that row was deleted, or the chain was
\* truncated and rebuilt" (audit.ts:206-208), or that it was rewritten.
MismatchMeansTampered == verdict = "mismatch" => edits + rewrites > 0
=============================================================================
