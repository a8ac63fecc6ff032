---------------------------- MODULE AtomicStore ----------------------------
(***************************************************************************)
(* What the tuple store promises its callers, with every internal step     *)
(* left out: a write or a delete takes effect at one instant, and at that  *)
(* instant it gets a consistency token larger than every token before it,  *)
(* is entered in write_log, and its answer is decided by the rows as they  *)
(* are just then.  TupleStore.tla is the detailed specification.           *)
(***************************************************************************)
EXTENDS Integers, Sequences

CONSTANTS Facts,      \* the tuples of the store, as (object, relation, subject) keys
          Expiries,   \* the values of expires_at a caller can ask for
          NoExpiry,   \* expires_at is null
          None,       \* no such row
          Tokens      \* the values of the write_log identity column

VARIABLES rows,       \* relation_tuples: the expires_at of each stored fact
          history     \* write_log in commit order, each entry with its caller's answer

Ops == {"write", "delete"}

\* An operation as its caller states it; a delete carries no validity window.
Requests == { r \in [op : Ops, fact : Facts, expiresAt : Expiries \cup {NoExpiry}] :
                r.op = "delete" => r.expiresAt = NoExpiry }

\* Does operation r change the row of its fact, given the rows rs?
Changes(rs, r) == IF r.op = "write" THEN rs[r.fact] = None ELSE rs[r.fact] # None

\* A write that finds its fact already stored reports that row's expires_at.
Reported(rs, r) == IF r.op = "write" /\ rs[r.fact] # None THEN rs[r.fact] ELSE NoExpiry

Entry(rs, r, t) == [token |-> t, op |-> r.op, fact |-> r.fact, expiresAt |-> r.expiresAt,
                    changed |-> Changes(rs, r), existing |-> Reported(rs, r)]

\* The rows after a write_log entry: a write of a stored fact leaves its row,
\* the window it was stored with included, exactly as it was.
Apply(rs, e) == [rs EXCEPT ![e.fact] = IF ~e.changed THEN @
                                       ELSE IF e.op = "write" THEN e.expiresAt ELSE None]

Init == /\ rows = [f \in Facts |-> None]
        /\ history = << >>

Perform(r, t) == /\ \A i \in DOMAIN history : history[i].token < t
                 /\ history' = Append(history, Entry(rows, r, t))
                 /\ rows' = Apply(rows, Entry(rows, r, t))

Next == \E r \in Requests, t \in Tokens : Perform(r, t)

Spec == Init /\ [][Next]_<<rows, history>>

\* What the components above rely on: the types of the two variables, and that
\* write_log is in the order of its tokens.
Windows == Expiries \cup {NoExpiry, None}
Entries == [token : Tokens, op : Ops, fact : Facts, expiresAt : Expiries \cup {NoExpiry},
            changed : BOOLEAN, existing : Windows]

StoreShape ==
    /\ rows \in [Facts -> Windows]
    /\ history \in Seq(Entries)
    /\ \A i, j \in 1..Len(history) : i < j => history[i].token < history[j].token
=============================================================================
