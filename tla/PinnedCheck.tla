---------------------------- MODULE PinnedCheck ----------------------------
(***************************************************************************)
(* The transaction a check runs in (productionCheck, src/resolve/          *)
(* production/resolver.ts) beside the writers of TupleStore: the token     *)
(* floor asserted once on the pool and once more as the statement that     *)
(* anchors a REPEATABLE READ snapshot, then the reads of the graph walk,   *)
(* one statement each.  Which facts a walk reads, and what it concludes    *)
(* from them, is left open here: any set of facts in any order.            *)
(***************************************************************************)
EXTENDS TupleStore

CONSTANT Checks       \* concurrent activations of productionCheck
ASSUME ChecksAssumption == None \notin Checks

VARIABLES cpc,        \* where each check is
          pin,        \* options.atToken, None for an unpinned check
          from,       \* how long write_log was when the check was asked for
          asOf,       \* now() of the check's transaction, fixed at BEGIN
          snap,       \* its snapshot: the rows, and how far into write_log they are
          seen,       \* what it read of each fact: live, not live, or None: not read
          verdict     \* how the last check in each slot ended

checkVars == <<cpc, pin, from, asOf, snap, seen, verdict>>
allVars == <<vars, checkVars>>

CheckStates == {"idle", "preflight", "opening", "open", "walking"}
Verdicts == {"none", "answered", "notObserved", "error"}
NothingSeen == [f \in Facts |-> None]

CheckInit == /\ cpc = [k \in Checks |-> "idle"]
             /\ pin = [k \in Checks |-> None]
             /\ from = [k \in Checks |-> 0]
             /\ asOf = [k \in Checks |-> 0]
             /\ snap = [k \in Checks |-> None]
             /\ seen = [k \in Checks |-> NothingSeen]
             /\ verdict = [k \in Checks |-> "none"]

-----------------------------------------------------------------------------
\* Mutant: a token equal to max(token) counts as not observed.
ObservedStrictly(p, n) == \E i \in 1..n : p < history[i].token

\* Mutant: the floor is not asserted.
ObservedAnyhow(p, n) == TRUE

\* max(token) over the first n entries of write_log is not null and reaches p.
Observed(p, n) == \E i \in 1..n : p <= history[i].token

\* expires_at is null or expires_at > now(), of a row that is there.
Live(row, t) == row # None /\ (row # NoExpiry => row > t)

StartCheck(k, p) ==
    /\ cpc[k] = "idle"
    /\ cpc' = [cpc EXCEPT ![k] = IF p = None THEN "opening" ELSE "preflight"]
    /\ pin' = [pin EXCEPT ![k] = p]
    /\ from' = [from EXCEPT ![k] = Len(history)]
    /\ verdict' = [verdict EXCEPT ![k] = "none"]
    /\ UNCHANGED <<asOf, snap, seen>>

\* The check is over, its transaction and its locals are gone.
EndCheck(k, v) ==
    /\ cpc' = [cpc EXCEPT ![k] = "idle"]
    /\ pin' = [pin EXCEPT ![k] = None]
    /\ from' = [from EXCEPT ![k] = 0]
    /\ asOf' = [asOf EXCEPT ![k] = 0]
    /\ snap' = [snap EXCEPT ![k] = None]
    /\ seen' = [seen EXCEPT ![k] = NothingSeen]
    /\ verdict' = [verdict EXCEPT ![k] = v]

\* assertTokenObserved, on the pool and before any connection is held.
AssertTokenObserved(k) ==
    /\ cpc[k] = "preflight"
    /\ IF Observed(pin[k], Len(history))
       THEN /\ cpc' = [cpc EXCEPT ![k] = "opening"]
            /\ UNCHANGED <<pin, from, asOf, snap, seen, verdict>>
       ELSE EndCheck(k, "notObserved")

\* BEGIN ISOLATION LEVEL REPEATABLE READ READ ONLY: fixes now(), not the snapshot.
BeginRepeatableRead(k) ==
    /\ cpc[k] = "opening"
    /\ asOf' = [asOf EXCEPT ![k] = now]
    /\ cpc' = [cpc EXCEPT ![k] = "open"]
    /\ UNCHANGED <<pin, from, snap, seen, verdict>>

Snapshot == [rows |-> rows, upTo |-> Len(history)]

\* assertTokenObservedOnSnapshot, the first query of a pinned transaction.
AnchorSnapshot(k) ==
    /\ cpc[k] = "open"
    /\ pin[k] # None
    /\ IF Observed(pin[k], Len(history))
       THEN /\ snap' = [snap EXCEPT ![k] = Snapshot]
            /\ cpc' = [cpc EXCEPT ![k] = "walking"]
            /\ UNCHANGED <<pin, from, asOf, seen, verdict>>
       ELSE EndCheck(k, "notObserved")

\* Mutant: the transaction is READ COMMITTED, every statement its own snapshot.
ReadCommitted(k, f) ==
    /\ cpc[k] = "walking" \/ (cpc[k] = "open" /\ pin[k] = None)
    /\ seen[k][f] = None
    /\ snap' = [snap EXCEPT ![k] = Snapshot]
    /\ seen' = [seen EXCEPT ![k][f] = Live(rows[f], asOf[k])]
    /\ cpc' = [cpc EXCEPT ![k] = "walking"]
    /\ UNCHANGED <<pin, from, asOf, verdict>>

\* A statement of the walk; the first one of an unpinned check anchors it.
ReadTuples(k, f) ==
    /\ cpc[k] = "walking" \/ (cpc[k] = "open" /\ pin[k] = None)
    /\ seen[k][f] = None
    /\ LET s == IF cpc[k] = "open" THEN Snapshot ELSE snap[k]
       IN  /\ snap' = [snap EXCEPT ![k] = s]
           /\ seen' = [seen EXCEPT ![k][f] = Live(s.rows[f], asOf[k])]
    /\ cpc' = [cpc EXCEPT ![k] = "walking"]
    /\ UNCHANGED <<pin, from, asOf, verdict>>

\* COMMIT; a walk of an undeclared name may have read no tuple.
Answer(k) == cpc[k] = "walking" /\ EndCheck(k, "answered")

\* A statement fails: ROLLBACK, release, throw.
CheckThrows(k) == cpc[k] # "idle" /\ EndCheck(k, "error")

CheckStep(k) == \/ \E p \in 0..MaxToken \cup {None} : StartCheck(k, p)
                \/ AssertTokenObserved(k)
                \/ BeginRepeatableRead(k)
                \/ AnchorSnapshot(k)
                \/ \E f \in Facts : ReadTuples(k, f)
                \/ Answer(k)
                \/ CheckThrows(k)

CInit == Init /\ CheckInit
CNext == \/ Next /\ UNCHANGED checkVars
         \/ (\E k \in Checks : CheckStep(k)) /\ UNCHANGED vars
CSpec == CInit /\ [][CNext]_allVars

-----------------------------------------------------------------------------
\* The type of the variables this module adds.
CheckTypeOK ==
    /\ cpc \in [Checks -> CheckStates]
    /\ pin \in [Checks -> 0..MaxToken \cup {None}]
    /\ from \in [Checks -> Nat]
    /\ asOf \in [Checks -> 0..MaxNow]
    /\ snap \in [Checks -> [rows : [Facts -> Expiries \cup {NoExpiry, None}], upTo : Nat]
                             \cup {None}]
    /\ seen \in [Checks -> [Facts -> BOOLEAN \cup {None}]]
    /\ verdict \in [Checks -> Verdicts]

\* "A check pinned to token T never returns a result that ignores a write with
\* token <= T" (docs/CONSISTENCY.md:103-104): the snapshot of a pinned check holds
\* every write up to T that has committed by now, also one that was still in
\* flight when the snapshot was taken.
PinnedSeesEverythingUpToToken ==
    \A k \in Checks : cpc[k] = "walking" /\ pin[k] # None =>
        \A i \in DOMAIN history : history[i].token <= pin[k] => i <= snap[k].upTo

\* Everything one check reads is the state of the store at one instant of its
\* own run, whatever commits between its statements, pinned or not.
ReadsOneState ==
    \A k \in Checks : cpc[k] = "walking" =>
        \E n \in from[k]..Len(history) :
            \A f \in Facts : seen[k][f] # None => seen[k][f] = Live(RowsAt(n)[f], asOf[k])

\* A check is refused as "not observed" only for a token no caller holds yet.
RefusesOnlyUnknownTokens ==
    \A k \in Checks : verdict'[k] = "notObserved" /\ verdict[k] # "notObserved" =>
        \A c \in Calls : outcome[c] # None /\ outcome[c].ok => outcome[c].token < pin[k]

\* A token handed to a caller is observed from then on: no check pinned to it,
\* or to an earlier one, is refused as not observed (docs/CONSISTENCY.md:147-148).
AcknowledgedTokenIsObserved == [][RefusesOnlyUnknownTokens]_allVars
=============================================================================
