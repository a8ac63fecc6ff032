----------------------------- MODULE TupleStore -----------------------------
(***************************************************************************)
(* The write path of src/store/tuples.ts: concurrent calls of writeTuple   *)
(* and deleteTuple against one Postgres, one action per awaited statement. *)
(* A call opens a READ COMMITTED transaction, takes the global write-log   *)
(* advisory lock, changes relation_tuples, inserts its write_log row,      *)
(* whose identity column allocates the consistency token outside the       *)
(* transaction, and commits.  Any statement may fail, the connection may   *)
(* die at any of them, and an answer to COMMIT may be lost.                *)
(***************************************************************************)
EXTENDS Integers, Sequences

CONSTANTS Calls,      \* concurrent activations of writeTuple / deleteTuple
          Facts,      \* tuples, as their unique (object, relation, subject) key
          NoExpiry,   \* expires_at is null
          None,       \* no row, no lock holder, nothing asked or answered yet
          MaxToken,   \* the last value of the write_log identity column
          MaxNow      \* the last instant of the clock

ASSUME BoundsAssumption == MaxToken \in Nat /\ MaxNow \in Nat
ASSUME NullsAssumption  == /\ None \notin Calls
                           /\ None # NoExpiry
                           /\ NoExpiry \notin Nat
                           /\ None \notin Nat

VARIABLES now,        \* the clock: Date.now() of the process, now() of Postgres
          rows,       \* committed relation_tuples: expires_at of a stored fact, or None
          history,    \* committed write_log in commit order, each with its caller's answer
          seq,        \* last value handed out by the identity column, never rolled back
          lock,       \* holder of advisory lock ('wlog', 0), or None
          pc,         \* where each call is
          req,        \* what each call was asked to do
          changed,    \* rowCount > 0 of the insert or the delete of a call
          existing,   \* existingExpiresAt of a call
          token,      \* RETURNING token of a call
          outcome     \* what the last call in each slot told its caller

callVars == <<pc, req, changed, existing, token, outcome>>
vars == <<now, rows, history, seq, lock, pc, req, changed, existing, token, outcome>>

Tokens == 1..MaxToken
Expiries == 1..(MaxNow + 1)

Store == INSTANCE AtomicStore

Request == Store!Requests

\* The statements at which a call holds the lock; in the orphaned ones its
\* caller has already been told of an error but the server has not noticed.
Holding == {"locked", "reading", "logging", "committing", "orphaned", "orphanedCommit"}
Decided == {"reading", "logging", "committing", "orphanedCommit"}  \* row change done
Logged  == {"committing", "orphanedCommit"}                        \* token allocated
States  == {"idle", "begun", "committed"} \cup Holding

Failed == [ok |-> FALSE, token |-> 0, changed |-> FALSE, existing |-> NoExpiry]

Init == /\ now = 0
        /\ rows = [f \in Facts |-> None]
        /\ history = << >>
        /\ seq = 0
        /\ lock = None
        /\ pc = [c \in Calls |-> "idle"]
        /\ req = [c \in Calls |-> None]
        /\ changed = [c \in Calls |-> FALSE]
        /\ existing = [c \in Calls |-> NoExpiry]
        /\ token = [c \in Calls |-> 0]
        /\ outcome = [c \in Calls |-> None]

-----------------------------------------------------------------------------
\* An expiresAt in the past is refused before anything is opened.
ExpiresInFuture(r) == r.expiresAt # NoExpiry => r.expiresAt > now

\* The call passes validation and opens its transaction; its schema is taken
\* to accept the tuple.
Begin(c, r) ==
    /\ pc[c] = "idle"
    /\ ExpiresInFuture(r)
    /\ pc' = [pc EXCEPT ![c] = "begun"]
    /\ req' = [req EXCEPT ![c] = r]
    /\ outcome' = [outcome EXCEPT ![c] = None]
    /\ UNCHANGED <<now, rows, history, seq, lock, changed, existing, token>>

\* Mutant: the lock is not waited for.
AcquireUnserialized(c) ==
    /\ pc[c] = "begun"
    /\ lock' = c
    /\ pc' = [pc EXCEPT ![c] = "locked"]
    /\ UNCHANGED <<now, rows, history, seq, req, changed, existing, token, outcome>>

\* pg_advisory_xact_lock, the first statement of the transaction.
AcquireWriteLogLock(c) ==
    /\ pc[c] = "begun"
    /\ lock = None
    /\ lock' = c
    /\ pc' = [pc EXCEPT ![c] = "locked"]
    /\ UNCHANGED <<now, rows, history, seq, req, changed, existing, token, outcome>>

\* Mutant: ON CONFLICT DO UPDATE SET expires_at.
Upsert(c) ==
    /\ pc[c] = "locked"
    /\ req[c].op = "write"
    /\ changed' = [changed EXCEPT ![c] = TRUE]
    /\ pc' = [pc EXCEPT ![c] = "logging"]
    /\ UNCHANGED <<now, rows, history, seq, lock, req, existing, token, outcome>>

\* INSERT ... ON CONFLICT DO NOTHING; only a conflict goes on to read the row.
InsertTuple(c) ==
    /\ pc[c] = "locked"
    /\ req[c].op = "write"
    /\ changed' = [changed EXCEPT ![c] = rows[req[c].fact] = None]
    /\ pc' = [pc EXCEPT ![c] = IF rows[req[c].fact] = None THEN "logging" ELSE "reading"]
    /\ UNCHANGED <<now, rows, history, seq, lock, req, existing, token, outcome>>

\* SELECT expires_at of the row met; a row that is gone reads as null.
ReadExisting(c) ==
    /\ pc[c] = "reading"
    /\ existing' = [existing EXCEPT ![c] = IF rows[req[c].fact] = None THEN NoExpiry
                                           ELSE rows[req[c].fact]]
    /\ pc' = [pc EXCEPT ![c] = "logging"]
    /\ UNCHANGED <<now, rows, history, seq, lock, req, changed, token, outcome>>

DeleteTuple(c) ==
    /\ pc[c] = "locked"
    /\ req[c].op = "delete"
    /\ changed' = [changed EXCEPT ![c] = rows[req[c].fact] # None]
    /\ pc' = [pc EXCEPT ![c] = "logging"]
    /\ UNCHANGED <<now, rows, history, seq, lock, req, existing, token, outcome>>

\* INSERT INTO write_log ... RETURNING token: nextval happens here, and stays
\* allocated whatever becomes of the transaction.
InsertWriteLog(c) ==
    /\ pc[c] = "logging"
    /\ seq < MaxToken
    /\ seq' = seq + 1
    /\ token' = [token EXCEPT ![c] = seq + 1]
    /\ pc' = [pc EXCEPT ![c] = "committing"]
    /\ UNCHANGED <<now, rows, history, lock, req, changed, existing, outcome>>

-----------------------------------------------------------------------------
\* Mutant: the token is read back from the sequence instead of RETURNING.
ReplyLastValue(c) == [ok |-> TRUE, token |-> seq, changed |-> changed[c],
                      existing |-> existing[c]]

Reply(c) == [ok |-> TRUE, token |-> token[c], changed |-> changed[c], existing |-> existing[c]]

\* COMMIT on the server: the row change and the log row become visible
\* together and the lock is released.
Land(c) ==
    /\ rows' = [rows EXCEPT ![req[c].fact] =
                   IF ~changed[c] THEN @
                   ELSE IF req[c].op = "write" THEN req[c].expiresAt ELSE None]
    /\ history' = Append(history,
                   [token |-> token[c], op |-> req[c].op, fact |-> req[c].fact,
                    expiresAt |-> req[c].expiresAt,
                    changed |-> changed[c], existing |-> existing[c]])
    /\ lock' = None

Commit(c) ==
    /\ pc[c] = "committing"
    /\ Land(c)
    /\ pc' = [pc EXCEPT ![c] = "committed"]
    /\ UNCHANGED <<now, seq, req, changed, existing, token, outcome>>

\* The activation is over: its locals go out of scope.
Leave(c) ==
    /\ pc' = [pc EXCEPT ![c] = "idle"]
    /\ req' = [req EXCEPT ![c] = None]
    /\ changed' = [changed EXCEPT ![c] = FALSE]
    /\ existing' = [existing EXCEPT ![c] = NoExpiry]
    /\ token' = [token EXCEPT ![c] = 0]

\* The caller learns the result, or the connection dies and the call throws
\* although its transaction is committed.
Finish(c, answer) ==
    /\ pc[c] = "committed"
    /\ outcome' = [outcome EXCEPT ![c] = answer]
    /\ Leave(c)
    /\ UNCHANGED <<now, rows, history, seq, lock>>

Return(c)  == Finish(c, Reply(c))
LoseAck(c) == Finish(c, Failed)

\* The server side of the end of a transaction that leaves nothing behind.
Release(c) == lock' = IF lock = c THEN None ELSE lock

\* A statement fails: catch runs ROLLBACK, finally releases, the call throws.
Throw(c) ==
    /\ pc[c] \in {"begun", "locked", "reading", "logging", "committing"}
    /\ Release(c)
    /\ Leave(c)
    /\ outcome' = [outcome EXCEPT ![c] = Failed]
    /\ UNCHANGED <<now, rows, history, seq>>

\* The connection dies under the lock: the call throws, its own ROLLBACK
\* fails and is swallowed, and the server keeps the transaction for a while.
LoseConnection(c) ==
    /\ pc[c] \in {"locked", "reading", "logging", "committing"}
    /\ pc' = [pc EXCEPT ![c] = IF @ = "committing" THEN "orphanedCommit" ELSE "orphaned"]
    /\ outcome' = [outcome EXCEPT ![c] = Failed]
    /\ UNCHANGED <<now, rows, history, seq, lock, req, changed, existing, token>>

\* Mutant: a session-level lock that outlives its transaction.
ReapKeepsLock(c) ==
    /\ pc[c] \in {"orphaned", "orphanedCommit"}
    /\ Leave(c)
    /\ UNCHANGED <<now, rows, history, seq, lock, outcome>>

\* Postgres notices the dead session and aborts its transaction.
Reap(c) ==
    /\ pc[c] \in {"orphaned", "orphanedCommit"}
    /\ Release(c)
    /\ Leave(c)
    /\ UNCHANGED <<now, rows, history, seq, outcome>>

\* A COMMIT that was sent before the connection died still takes effect.
LandOrphan(c) ==
    /\ pc[c] = "orphanedCommit"
    /\ Land(c)
    /\ Leave(c)
    /\ UNCHANGED <<now, seq, outcome>>

Tick == /\ now < MaxNow
        /\ now' = now + 1
        /\ UNCHANGED <<rows, history, seq, lock, callVars>>

-----------------------------------------------------------------------------
\* What the awaiting call and the server do of their own accord.
Proceed(c) == \/ InsertTuple(c) \/ ReadExisting(c) \/ DeleteTuple(c)
              \/ InsertWriteLog(c) \/ Commit(c) \/ Return(c)
              \/ (pc[c] = "logging" /\ seq = MaxToken /\ Throw(c))

Step(c) == \/ \E r \in Request : Begin(c, r)
           \/ AcquireWriteLogLock(c)
           \/ InsertTuple(c)
           \/ ReadExisting(c)
           \/ DeleteTuple(c)
           \/ InsertWriteLog(c)
           \/ Commit(c)
           \/ Return(c)
           \/ LoseAck(c)
           \/ Throw(c)
           \/ LoseConnection(c)
           \/ Reap(c)
           \/ LandOrphan(c)

Next == Tick \/ \E c \in Calls : Step(c)

Spec == Init /\ [][Next]_vars

\* The event loop runs a call whose statement has answered, Postgres serves
\* the waiters of a lock in turn, and ends the session of a dead client.
Fairness == \A c \in Calls : /\ WF_vars(Proceed(c))
                             /\ SF_vars(AcquireWriteLogLock(c))
                             /\ WF_vars(Reap(c) \/ LandOrphan(c))

FairSpec == Spec /\ Fairness

-----------------------------------------------------------------------------
\* A committed write_log row, with the answer its call gives.
LogEntry == [token : Tokens, op : Store!Ops, fact : Facts,
             expiresAt : Expiries \cup {NoExpiry},
             changed : BOOLEAN, existing : Expiries \cup {NoExpiry}]

\* The type of every variable.
TypeOK ==
    /\ now \in 0..MaxNow
    /\ rows \in [Facts -> Expiries \cup {NoExpiry, None}]
    /\ history \in Seq(LogEntry)
    /\ seq \in 0..MaxToken
    /\ lock \in Calls \cup {None}
    /\ pc \in [Calls -> States]
    /\ req \in [Calls -> Request \cup {None}]
    /\ changed \in [Calls -> BOOLEAN]
    /\ existing \in [Calls -> Expiries \cup {NoExpiry}]
    /\ token \in [Calls -> 0..MaxToken]
    /\ outcome \in [Calls -> [ok : BOOLEAN, token : 0..MaxToken, changed : BOOLEAN,
                              existing : Expiries \cup {NoExpiry}] \cup {None}]

\* Token order is commit order: while a transaction holds a token it has not
\* committed, nothing committed carries a later one, so that max(token) covers
\* every write up to it (tuples.ts:428-490, the reason of the global lock).
NoTokenOvertaken ==
    \A c \in Calls : pc[c] \in Logged =>
        \A i \in DOMAIN history : history[i].token < token[c]

\* What a call was told is what happened: a result that came back ok is in the
\* committed write_log under its token with the same created / deleted answer
\* and the same existingExpiresAt (tuples.ts:617-621, 684-686).
AnswerIsRecorded ==
    \A c \in Calls : outcome[c] # None /\ outcome[c].ok =>
        \E i \in DOMAIN history : /\ history[i].token = outcome[c].token
                                  /\ history[i].changed = outcome[c].changed
                                  /\ history[i].existing = outcome[c].existing

\* The rows after the first n entries of write_log, from the columns the table
\* has: operation and tuple.
RowsAt(n) ==
    LET at[k \in 0..n] ==
          IF k = 0 THEN [f \in Facts |-> None]
          ELSE LET e == history[k]
               IN  [at[k - 1] EXCEPT ![e.fact] =
                      IF e.op = "delete" THEN None
                      ELSE IF @ = None THEN e.expiresAt ELSE @]
    IN  at[n]

\* Every call is atomic to every other: the store is the abstract one.
Atomic == Store!Spec

\* A call that started comes to an end and leaves the lock to the others, even
\* if its connection dies under the lock (tuples.ts:634-645, 690-698).
CallsEnd == \A c \in Calls : pc[c] # "idle" ~> pc[c] = "idle"

-----------------------------------------------------------------------------
(* The inductive invariant behind NoTokenOvertaken, AnswerIsRecorded and Atomic. *)

\* The lock is held by the one call that is between taking it and the end of
\* its transaction, a call whose connection died included.
LockHeld == \A c \in Calls : pc[c] \in Holding <=> lock = c

\* A call past validation knows what it was asked for.
Asked == \A c \in Calls : pc[c] # "idle" => req[c] \in Request

\* Every token in sight was handed out by the identity column.
TokensAllocated == /\ \A i \in DOMAIN history : history[i].token <= seq
                   /\ \A c \in Calls : pc[c] \in Logged => token[c] \in 1..seq

\* write_log in commit order is write_log in token order.
TokensAscend == \A i, j \in DOMAIN history : i < j => history[i].token < history[j].token

\* What a statement decided from the rows still holds when the call commits.
DecisionsHold ==
    \A c \in Calls :
        /\ pc[c] \in Decided => changed[c] = Store!Changes(rows, req[c])
        /\ pc[c] \in {"idle", "begun", "locked", "reading"} => existing[c] = NoExpiry
        /\ pc[c] = "reading" => req[c].op = "write" /\ rows[req[c].fact] # None
        /\ pc[c] = "logging" \/ pc[c] \in Logged => existing[c] = Store!Reported(rows, req[c])

\* The answer a committed call is about to give is in write_log.
ReplyIsRecorded ==
    \A c \in Calls : pc[c] = "committed" =>
        \E i \in DOMAIN history : /\ history[i].token = token[c]
                                  /\ history[i].changed = changed[c]
                                  /\ history[i].existing = existing[c]

IndInv == /\ TypeOK
          /\ LockHeld
          /\ Asked
          /\ TokensAllocated
          /\ TokensAscend
          /\ NoTokenOvertaken
          /\ DecisionsHold
          /\ ReplyIsRecorded
          /\ AnswerIsRecorded
=============================================================================
