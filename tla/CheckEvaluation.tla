-------------------------- MODULE CheckEvaluation --------------------------
(***************************************************************************)
(* What the answers of a check are worth: the walks of the two resolvers   *)
(* and of listUsers are compared with the meaning of a permission          *)
(* (Meaning.tla), and with each other, for every schema, store and depth   *)
(* limit.                                                                  *)
(***************************************************************************)
EXTENDS Decisions, Witnesses, ListUsers

CONSTANTS Ample       \* the depth that the longest of the proofs over Tuples takes

\* The same walk after the windows of the tuples ts have ended.
After(ts) == INSTANCE ProductionResolver WITH rows <- Ended(ts)

----------------------------------------------------------------------------
(***************************************************************************)
(* Properties                                                              *)
(***************************************************************************)
\* What comes with an answer stands by itself: read without the resolver, the
\* path of an allowed check derives it from the stored tuples, and a denial
\* says it is certain exactly when its disproof leaves no tuple unread and no
\* branch cut short.  An exclusion puts the one inside the other.
AnswersReverify ==
  \A s \in Subjects, k \in Pairs, d \in Depths :
    /\ Reverifies(ProductionCheck(s, k[1], k[2], d), s, k[1], k[2])
    /\ Reverifies(ReferenceCheck(s, k[1], k[2], d), s, k[1], k[2])

\* A check that reports no tuple with a validity window keeps its answer when
\* windows end: what the check cache relies on to keep an allowed answer.
UnreportedExpiryChangesNothing ==
  \A s \in Subjects, k \in Pairs : LET o == ProductionCheck(s, k[1], k[2], Ample) IN
    (o.allowed /\ ~o.touched) =>
      \A ts \in SUBSET Expiring : After(ts)!ProductionCheck(s, k[1], k[2], Ample).allowed

\* Where a check is decided, listUsers with the same depth limit lists exactly
\* the subjects that are allowed, unless it declines to enumerate; and listObjects
\* says so when it may have left out an object the subject has the permission on.
ListsMissNothingSilently ==
  \A k \in Pairs :
    /\ LET c == Candidates(k[1].ns) IN
         ~c.truncated /\ k[1] \notin c.objects
           => \A s \in Subjects : ~ProductionCheck(s, k[1], k[2], Ample).allowed
    /\ \A d \in Depths : LET users == UsersOf(k[1], k[2], d) IN
         users.enumerable => \A s \in Subjects : LET o == ProductionCheck(s, k[1], k[2], d) IN
           o.certain => (o.allowed <=> Covers(users, s))

\* A contract that the instance MCListedIsAllowed shows not to hold.
\* Every listed subject passes the check.
ListedIsAllowed ==
  \A k \in Pairs, d \in Depths : LET users == UsersOf(k[1], k[2], d) IN
    users.enumerable => \A s \in Subjects :
      Covers(users, s) => ProductionCheck(s, k[1], k[2], d).allowed
=============================================================================
