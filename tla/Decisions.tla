----------------------------- MODULE Decisions -----------------------------
(***************************************************************************)
(* What the answers of the two resolvers are worth, held against the       *)
(* meaning of a permission (Meaning.tla) for every schema, store and depth *)
(* limit.                                                                  *)
(***************************************************************************)
EXTENDS Meaning, ReferenceResolver

CONSTANTS Depths      \* the depth limits the checks are given

ASSUME DepthsAssumption == Depths \subseteq Nat

\* What a check decides is what its schema means.
MeansSo(o, model, k) ==
  /\ o.allowed => k \in model.true
  /\ (~o.allowed /\ o.certain) => k \notin model.possible

\* Whatever the depth limit: what either resolver allows is true, and what it
\* denies with certainty is false.  An exclusion turns the one into the other,
\* so a denial that was only cut short must never be certain.  The two share no
\* code, and production is judged by the other.
DecidedMeansMeant ==
  \A s \in Subjects : LET model == Model(s) IN
    \A k \in Pairs, d \in Depths :
      /\ MeansSo(ProductionCheck(s, k[1], k[2], d), model, k)
      /\ MeansSo(ReferenceCheck(s, k[1], k[2], d), model, k)

\* The rules that are nested no deeper than h and subtract nothing.
Positives[h \in Nat] ==
  [kind : {"computedUserset"}, name : STRING]
    \cup [kind : {"tupleToUserset"}, relation : STRING, computedUserset : STRING]
    \cup (IF h = 0 THEN {} ELSE [kind : {"union", "intersection"}, children : Seq(Positives[h - 1])])

SubtractsNothing == \A ns \in DOMAIN schema : \A n \in DOMAIN schema[ns].permissions :
                      schema[ns].permissions[n] \in Positives[MaxNesting]

\* A larger depth limit never takes an answer back: what was decided under a smaller
\* one is decided the same way.  Where nothing is subtracted, a limit as large as there
\* are names on objects decides all that is true: the guard against cycles costs no answer.
DeeperOnlyDecidesMore ==
  \A s \in Subjects : LET model == Model(s) IN
    \A k \in Pairs, d \in Depths : LET shallow == ProductionCheck(s, k[1], k[2], d) IN
      /\ (SubtractsNothing /\ Cardinality(Pairs) <= d /\ k \in model.true) => shallow.allowed
      /\ shallow.certain => \A e \in {e \in Depths : d < e} :
           LET deep == ProductionCheck(s, k[1], k[2], e)
           IN  deep.certain /\ deep.allowed = shallow.allowed

Verdict(o) == <<o.allowed, o.certain, o.touched>>

\* What of a result of the recursive query does not depend on the rows it kept.
Finding(rs, s, k, d) ==
  <<{<<r.key, r.depth>> : r \in DedupeFrontier(rs)}, Verdict(OutcomeOfRows(rs, k[1], k[2], s, d))>>

\* Whatever rows "distinct on" keeps, the recursive query finds the same keys
\* at the same depths, and the relation has one answer.
AnyRowsSameAnswer ==
  \A s \in Subjects, k \in {k \in Pairs : Declares(k[1].ns, k[2])}, d \in Depths :
    Cardinality({Finding(rs, s, k, d) : rs \in ReachableFrontiers(k[1], k[2], d)}) = 1
=============================================================================
